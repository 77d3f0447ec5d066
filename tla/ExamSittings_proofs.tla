------------------------- MODULE ExamSittings_proofs --------------------------
(***************************************************************************)
(* Theorems of ExamSittings, for any candidates, windows, questions,       *)
(* policy, requests and bounds: type correctness, one live registration,   *)
(* that no paper is given back to its candidate, that no result is read    *)
(* with marks outstanding, and that what is issued are certificates as     *)
(* Certificates promises them.                                             *)
(***************************************************************************)
EXTENDS ExamSittings, FiniteSetTheorems, TLAPS

\* Which requests are about a registration, and about which.
Writing == {"checkout", "start", "save", "submit", "forfeit", "expire", "certify"}

JobTied(n) ==
  /\ n.pc = "register" => n.candidate # Null /\ n.window # Null
  /\ n.pc \in Writing => n.reg \in Registration /\ Entered(n.reg)
  /\ n.pc = "save" => n.question \in Question
  /\ \A item \in n.todo : Entered(item.reg)

\* A request under way is about a registration that was entered.
JobsInv == job \in [Worker -> Job] /\ \A w \in Worker : JobTied(job[w])

EntriesInv == /\ registration \in [Registration -> RegistrationRow]
              /\ fee \in [Registration -> {"NONE", "PENDING", "SUCCESS", "FAILED"}]
              /\ OneLiveRegistration

SittingsInv == /\ sitting \in [Registration -> SittingRow]
               /\ \A r \in Registration : sitting[r].state # "NONE" => Entered(r)

PapersInv == /\ answered \in [Registration -> SUBSET Question]
             /\ mark \in [Registration -> [Question -> {"NONE", "AWAITING", "RETURNED"}]]

CredentialsInv == issued \in Seq(Registration) /\ template \in BOOLEAN

Inv == /\ JobsInv /\ EntriesInv /\ SittingsInv /\ PapersInv /\ CredentialsInv
       /\ deaths \in Nat

\* Rows of a registration are never taken away.
EntriesStay == \A r \in Registration : Entered(r) => Entered(r)'

\* What a step may do to the paper of a sitting that is over.
StaysClosed == \A r \in Registration :
                 sitting[r].state \notin {"NONE", "IN_PROGRESS"} =>
                   sitting'[r].state # "IN_PROGRESS"

Goal == Inv' /\ StaysClosed

-----------------------------------------------------------------------------
LEMMA EmptyRows ==
  /\ NoRegistration \in RegistrationRow /\ NoRegistration.candidate = Null
  /\ NoSitting \in SittingRow /\ NoSitting.state = "NONE"
  /\ Idle \in Job /\ Idle.pc = "idle" /\ Idle.todo = {}
BY DEF NoRegistration, RegistrationRow, NoSitting, SittingRow, SittingState, Idle, Job

LEMMA IdleTied == JobTied(Idle) /\ JobTied(Idle)'
<1>1. Idle' = Idle
  BY DEF Idle
<1> QED BY <1>1, EmptyRows DEF JobTied, Writing

LEMMA InitInv == Init => Inv
<1> SUFFICES ASSUME Init PROVE Inv
  OBVIOUS
<1>1. JobsInv
  <2>1. job = [w \in Worker |-> Idle]
    BY DEF Init
  <2> QED BY <2>1, EmptyRows, IdleTied DEF JobsInv
<1>2. EntriesInv
  <2>1. \A r \in Registration : ~Entered(r)
    BY EmptyRows DEF Init, Entered
  <2> QED BY <2>1, EmptyRows DEF Init, EntriesInv, OneLiveRegistration
<1>3. SittingsInv
  BY EmptyRows DEF Init, SittingsInv
<1>4. PapersInv /\ deaths \in Nat
  BY DEF Init, PapersInv
<1>5. CredentialsInv
  <2>1. issued = << >> /\ template = FALSE
    BY DEF Init
  <2>2. << >> \in Seq(Registration)
    OBVIOUS
  <2> QED BY <2>1, <2>2 DEF CredentialsInv
<1> QED BY <1>1, <1>2, <1>3, <1>4, <1>5 DEF Inv

LEMMA InvGivesTypes == Inv => TypeOK
BY DEF Inv, JobsInv, EntriesInv, SittingsInv, PapersInv, CredentialsInv, TypeOK,
       JobTied, Writing

-----------------------------------------------------------------------------
(* The requests under way.                                                 *)

\* What a request is tied to stays, whatever the others write.
LEMMA TiesStay ==
  ASSUME EntriesStay, NEW n \in Job, JobTied(n)
  PROVE  JobTied(n)'
<1>1. \A item \in n.todo : item.reg \in Registration
  BY DEF Job, Item
<1> QED BY <1>1 DEF JobTied, EntriesStay

LEMMA JobsStay ==
  ASSUME JobsInv, EntriesStay, job' = job
  PROVE  JobsInv'
<1>1. ASSUME NEW w \in Worker PROVE JobTied(job[w])'
  <2>1. PICK n \in Job : n = job[w] /\ n = job'[w]
    BY <1>1 DEF JobsInv
  <2>2. JobTied(n)
    BY <2>1, <1>1 DEF JobsInv
  <2>3. JobTied(n)'
    BY <2>2, TiesStay
  <2> QED BY <2>1, <2>3 DEF JobTied
<1> QED BY <1>1 DEF JobsInv

LEMMA JobsMove ==
  ASSUME JobsInv, EntriesStay, NEW v \in Worker, NEW n \in Job, JobTied(n)',
         job' = [job EXCEPT ![v] = n]
  PROVE  JobsInv'
<1>1. /\ job' \in [Worker -> Job]
      /\ job'[v] = n
      /\ \A w \in Worker : w # v => job'[w] = job[w]
  BY DEF JobsInv
<1>2. ASSUME NEW w \in Worker PROVE JobTied(job[w])'
  <2>1. PICK k \in Job : k = job'[w]
    BY <1>1
  <2>2. JobTied(k)'
    <3>1. CASE w = v
      BY <3>1, <2>1, <1>1
    <3>2. CASE w # v
      <4>1. JobTied(k)
        BY <3>2, <2>1, <1>1 DEF JobsInv
      <4> QED BY <4>1, TiesStay
    <3> QED BY <3>1, <3>2
  <2> QED BY <2>1, <2>2 DEF JobTied
<1> QED BY <1>1, <1>2 DEF JobsInv

LEMMA JobsEnd ==
  ASSUME JobsInv, EntriesStay, NEW v \in Worker, Ends(v)
  PROVE  JobsInv'
BY EmptyRows, IdleTied, JobsMove DEF Ends

-----------------------------------------------------------------------------
(* Steps that change no row: reads, refusals, requests that end.           *)

Rows == <<entry, sitting, paper, credentials>>

LEMMA RowsStay ==
  ASSUME Inv, UNCHANGED Rows
  PROVE  /\ EntriesInv' /\ SittingsInv' /\ PapersInv' /\ CredentialsInv'
         /\ EntriesStay /\ StaysClosed
<1>1. /\ registration' = registration /\ fee' = fee /\ sitting' = sitting
      /\ answered' = answered /\ mark' = mark /\ issued' = issued /\ template' = template
  BY DEF Rows, entry, paper, credentials
<1>2. EntriesInv' /\ SittingsInv'
  BY <1>1 DEF Inv, EntriesInv, SittingsInv, OneLiveRegistration, Entered
<1>3. PapersInv' /\ CredentialsInv'
  BY <1>1 DEF Inv, PapersInv, CredentialsInv
<1>4. EntriesStay /\ StaysClosed
  BY <1>1 DEF EntriesStay, StaysClosed, Entered
<1> QED BY <1>2, <1>3, <1>4

\* A worker takes up a job that is tied to what is there.
LEMMA TakesUp ==
  ASSUME Inv, UNCHANGED Rows, deaths' \in Nat, NEW w \in Worker,
         NEW n \in Job, JobTied(n), job' = [job EXCEPT ![w] = n]
  PROVE  Goal
<1>1. /\ EntriesInv' /\ SittingsInv' /\ PapersInv' /\ CredentialsInv'
      /\ EntriesStay /\ StaysClosed
  BY RowsStay
<1>2. JobTied(n)'
  BY <1>1, TiesStay
<1>3. JobsInv'
  BY <1>1, <1>2, JobsMove DEF Inv
<1> QED BY <1>1, <1>3 DEF Goal, Inv

\* A started or submitted sitting, read without a lock, is one of a registration.
LEMMA FindSittingKeeps ==
  ASSUME Inv, NEW w \in Worker, NEW r \in Registration,
         NEW pc \in {"submit", "forfeit", "expire"}, FindSitting(w, r, pc),
         sitting[r].state = "IN_PROGRESS"
  PROVE  Goal
<1>1. PICK n : n = [Idle EXCEPT !.pc = pc, !.reg = r, !.answers = answered[r]]
  OBVIOUS
<1>2. /\ n.pc = pc /\ n.reg = r /\ n.todo = {} /\ n.answers = answered[r]
      /\ n \in Job
  BY <1>1 DEF Idle, Job, Inv, PapersInv
<1>3. JobTied(n)
  BY <1>2 DEF JobTied, Writing, Inv, SittingsInv
<1>4. job' = [job EXCEPT ![w] = n] /\ UNCHANGED Rows /\ deaths' \in Nat
  BY <1>1 DEF FindSitting, Rows, Inv
<1> QED BY <1>2, <1>3, <1>4, TakesUp

\* The other reads about one registration.
LEMMA FindOneKeeps ==
  ASSUME Inv, NEW w \in Worker, NEW r \in Registration,
         \/ FindToStart(w, r)
         \/ FindUncertified(w, r)
         \/ \E q \in Question : FindToSave(w, r, q)
  PROVE  Goal
<1>1. CASE FindToStart(w, r)
  <2>1. PICK n : n = [Idle EXCEPT !.pc = "start", !.reg = r]
    OBVIOUS
  <2>2. n \in Job /\ n.pc = "start" /\ n.reg = r /\ n.todo = {}
    BY <2>1 DEF Idle, Job
  <2>3. JobTied(n) /\ job' = [job EXCEPT ![w] = n] /\ UNCHANGED Rows /\ deaths' \in Nat
    BY <1>1, <2>1, <2>2 DEF JobTied, Writing, FindToStart, Rows, Inv
  <2> QED BY <2>2, <2>3, TakesUp
<1>2. CASE FindUncertified(w, r)
  <2>1. PICK n : n = [Idle EXCEPT !.pc = "certify", !.reg = r]
    OBVIOUS
  <2>2. n \in Job /\ n.pc = "certify" /\ n.reg = r /\ n.todo = {}
    BY <2>1 DEF Idle, Job
  <2>3. Entered(r)
    BY <1>2 DEF FindUncertified, Inv, SittingsInv
  <2>4. JobTied(n) /\ job' = [job EXCEPT ![w] = n] /\ UNCHANGED Rows /\ deaths' \in Nat
    BY <1>2, <2>1, <2>2, <2>3 DEF JobTied, Writing, FindUncertified, Rows, Inv
  <2> QED BY <2>2, <2>4, TakesUp
<1>3. ASSUME NEW q \in Question, FindToSave(w, r, q) PROVE Goal
  <2>1. PICK n : n = [Idle EXCEPT !.pc = "save", !.reg = r, !.question = q]
    OBVIOUS
  <2>2. n \in Job /\ n.pc = "save" /\ n.reg = r /\ n.question = q /\ n.todo = {}
    BY <2>1 DEF Idle, Job
  <2>3. Entered(r)
    BY <1>3 DEF FindToSave, InTime, Inv, SittingsInv
  <2>4. JobTied(n) /\ job' = [job EXCEPT ![w] = n] /\ UNCHANGED Rows /\ deaths' \in Nat
    BY <1>3, <2>1, <2>2, <2>3 DEF JobTied, Writing, FindToSave, Rows, Inv
  <2> QED BY <2>2, <2>4, TakesUp
<1> QED BY <1>1, <1>2, <1>3

\* The checks of a registration, and a release's query of its window.
LEMMA FindManyKeeps ==
  ASSUME Inv, NEW w \in Worker,
         \/ \E c \in Candidate, v \in Window : FindPlace(w, c, v)
         \/ \E v \in Window : ReadWindow(w, v)
  PROVE  Goal
<1>1. ASSUME NEW c \in Candidate, NEW v \in Window, FindPlace(w, c, v) PROVE Goal
  <2>1. PICK n : n = [Idle EXCEPT !.pc = "register", !.candidate = c, !.window = v]
    OBVIOUS
  <2>2. n \in Job /\ n.pc = "register" /\ n.candidate = c /\ n.window = v /\ n.todo = {}
    BY <2>1 DEF Idle, Job
  <2>3. c # Null /\ v # Null
    BY ExamAssumption
  <2>4. JobTied(n)
    BY <2>2, <2>3 DEF JobTied, Writing
  <2>5. job' = [job EXCEPT ![w] = n] /\ UNCHANGED Rows /\ deaths' \in Nat
    BY <1>1, <2>1 DEF FindPlace, Rows, Inv
  <2> QED BY <2>2, <2>4, <2>5, TakesUp
<1>2. ASSUME NEW v \in Window, ReadWindow(w, v) PROVE Goal
  <2>1. PICK ready : ready = {r \in Registration : /\ registration[r].window = v
                                                   /\ sitting[r].state = "SUBMITTED"
                                                   /\ ~sitting[r].referred}
    OBVIOUS
  <2>2. PICK items : items = {[reg |-> r, answers |-> answered[r]] : r \in ready}
    OBVIOUS
  <2>3. items \in SUBSET Item /\ \A item \in items : Entered(item.reg)
    BY <2>1, <2>2 DEF Item, Inv, PapersInv, SittingsInv
  <2>4. PICK n : n = [Idle EXCEPT !.pc = "release", !.todo = items]
    OBVIOUS
  <2>5. n \in Job /\ n.pc = "release" /\ n.todo = items
    BY <2>3, <2>4 DEF Idle, Job
  <2>6. JobTied(n)
    BY <2>3, <2>5 DEF JobTied, Writing
  <2>7. job' = [job EXCEPT ![w] = n] /\ UNCHANGED Rows /\ deaths' \in Nat
    BY <1>2, <2>1, <2>2, <2>4 DEF ReadWindow, Rows, Inv
  <2> QED BY <2>5, <2>6, <2>7, TakesUp
<1> QED BY <1>1, <1>2

LEMMA ArriveKeeps ==
  ASSUME Inv, NEW w \in Worker, Arrive(w)
  PROVE  Goal
<1>1. ASSUME NEW r \in Registration, FindToSubmit(w, r) PROVE Goal
  BY <1>1, FindSittingKeeps DEF FindToSubmit, InTime
<1>2. ASSUME NEW r \in Registration, FindToForfeit(w, r) PROVE Goal
  BY <1>2, FindSittingKeeps DEF FindToForfeit
<1>3. ASSUME NEW r \in Registration, FindToExpire(w, r) PROVE Goal
  BY <1>3, FindSittingKeeps DEF FindToExpire
<1> QED BY <1>1, <1>2, <1>3, FindOneKeeps, FindManyKeeps DEF Arrive

LEMMA EndsQuietly ==
  ASSUME Inv, NEW w \in Worker, OpenCheckout(w) \/ RequestDies(w)
  PROVE  Goal
<1>1. job' = [job EXCEPT ![w] = Idle] /\ UNCHANGED Rows /\ deaths' \in Nat
  BY DEF OpenCheckout, RequestDies, Ends, Rows, Inv
<1> QED BY <1>1, EmptyRows, IdleTied, TakesUp

-----------------------------------------------------------------------------
(* Release.                                                                *)

\* Where a release stands next is a job like any other.
LEMMA NextItem ==
  ASSUME Inv, NEW w \in Worker, On(w, "release"), NEW item \in job[w].todo,
         NEW outcome
  PROVE  /\ AfterItem(w, item, outcome) \in Job
         /\ JobTied(AfterItem(w, item, outcome))
         /\ item.reg \in Registration /\ Entered(item.reg)
<1>1. PICK k \in Job : k = job[w] /\ JobTied(k) /\ k.pc = "release"
  BY DEF Inv, JobsInv, On
<1>2. item \in Item /\ item.reg \in Registration /\ Entered(item.reg)
  BY <1>1 DEF Job, Item, JobTied
<1>3. PICK rest : rest = k.todo \ {item}
  OBVIOUS
<1>4. rest \in SUBSET Item /\ \A i \in rest : Entered(i.reg)
  BY <1>1, <1>3 DEF Job, JobTied
<1>5. CASE outcome = "PASS"
  <2>1. PICK n : n = [k EXCEPT !.pc = "certify", !.reg = item.reg, !.todo = rest]
    OBVIOUS
  <2>2. /\ n \in Job /\ n.pc = "certify" /\ n.reg = item.reg /\ n.todo = rest
    BY <2>1, <1>2, <1>4 DEF Job
  <2>3. JobTied(n)
    BY <2>2, <1>2, <1>4 DEF JobTied, Writing
  <2>4. AfterItem(w, item, outcome) = n
    BY <1>1, <1>3, <1>5, <2>1 DEF AfterItem
  <2> QED BY <2>2, <2>3, <2>4, <1>2
<1>6. CASE outcome # "PASS" /\ rest = {}
  <2>1. AfterItem(w, item, outcome) = Idle
    BY <1>1, <1>3, <1>6 DEF AfterItem
  <2> QED BY <2>1, EmptyRows, IdleTied, <1>2
<1>7. CASE outcome # "PASS" /\ rest # {}
  <2>1. PICK n : n = [k EXCEPT !.todo = rest]
    OBVIOUS
  <2>2. n \in Job /\ n.pc = "release" /\ n.todo = rest
    BY <2>1, <1>1, <1>4 DEF Job
  <2>3. JobTied(n)
    BY <2>2, <1>4 DEF JobTied, Writing
  <2>4. AfterItem(w, item, outcome) = n
    BY <1>1, <1>3, <1>7, <2>1 DEF AfterItem
  <2> QED BY <2>2, <2>3, <2>4, <1>2
<1> QED BY <1>5, <1>6, <1>7

LEMMA SkipKeeps ==
  ASSUME Inv, NEW w \in Worker, NEW item \in job[w].todo, SkipSitting(w, item)
  PROVE  Goal
<1>1. PICK n \in Job : n = AfterItem(w, item, "NONE") /\ JobTied(n)
  BY NextItem DEF SkipSitting
<1>2. job' = [job EXCEPT ![w] = n] /\ UNCHANGED Rows /\ deaths' \in Nat
  BY <1>1 DEF SkipSitting, Rows, Inv
<1> QED BY <1>1, <1>2, TakesUp

\* Every write to one sitting: a row of the schema, of a registration that is there,
\* which is not the paper of a closed sitting handed out again.
LEMMA SittingWrite ==
  ASSUME Inv, NEW r \in Registration, Entered(r), NEW row \in SittingRow,
         sitting' = [sitting EXCEPT ![r] = row],
         \A q \in Registration : Entered(q) => Entered(q)',
         sitting[r].state \notin {"NONE", "IN_PROGRESS"} => row.state # "IN_PROGRESS"
  PROVE  SittingsInv' /\ StaysClosed
<1>1. /\ sitting' \in [Registration -> SittingRow]
      /\ sitting'[r] = row
      /\ \A q \in Registration : q # r => sitting'[q] = sitting[q]
  BY DEF Inv, SittingsInv
<1>2. \A q \in Registration : sitting'[q].state # "NONE" => Entered(q)'
  BY <1>1 DEF Inv, SittingsInv
<1>3. StaysClosed
  BY <1>1 DEF StaysClosed
<1> QED BY <1>1, <1>2, <1>3 DEF SittingsInv

\* Entries and credentials that a step leaves alone.
LEMMA EntriesSame ==
  ASSUME Inv, UNCHANGED entry
  PROVE  EntriesInv' /\ EntriesStay
<1>1. registration' = registration /\ fee' = fee
  BY DEF entry
<1> QED BY <1>1 DEF Inv, EntriesInv, OneLiveRegistration, EntriesStay, Entered

LEMMA PapersSame == ASSUME Inv, UNCHANGED paper PROVE PapersInv'
BY DEF Inv, PapersInv, paper

LEMMA CredentialsSame == ASSUME Inv, UNCHANGED credentials PROVE CredentialsInv'
BY DEF Inv, CredentialsInv, credentials

LEMMA SittingsSame ==
  ASSUME Inv, sitting' = sitting, EntriesStay
  PROVE  SittingsInv' /\ StaysClosed
BY DEF Inv, SittingsInv, StaysClosed, EntriesStay

LEMMA ReleaseKeeps ==
  ASSUME Inv, NEW w \in Worker, NEW item \in job[w].todo,
         NEW outcome \in {"PASS", "REFER"}, ReleaseSitting(w, item, outcome)
  PROVE  Goal
<1>1. PICK n \in Job : n = AfterItem(w, item, outcome) /\ JobTied(n)
  BY NextItem DEF ReleaseSitting
<1>2. item.reg \in Registration /\ Entered(item.reg)
  BY NextItem DEF ReleaseSitting
<1>3. /\ job' = [job EXCEPT ![w] = n]
      /\ UNCHANGED <<entry, paper, credentials, deaths>>
  BY <1>1 DEF ReleaseSitting
<1>4. EntriesInv' /\ EntriesStay /\ PapersInv' /\ CredentialsInv'
  BY <1>3, EntriesSame, PapersSame, CredentialsSame
<1>5. PICK row : row = [sitting[item.reg] EXCEPT !.state = "RELEASED", !.outcome = outcome]
  OBVIOUS
<1>6. row \in SittingRow /\ row.state = "RELEASED"
  BY <1>2, <1>5 DEF Inv, SittingsInv, SittingRow, SittingState
<1>7. sitting' = [sitting EXCEPT ![item.reg] = row]
  BY <1>5 DEF ReleaseSitting
<1>8. SittingsInv' /\ StaysClosed
  BY <1>2, <1>4, <1>6, <1>7, SittingWrite DEF EntriesStay
<1>9. JobTied(n)'
  BY <1>1, <1>4, TiesStay
<1>10. JobsInv'
  BY <1>1, <1>3, <1>4, <1>9, JobsMove DEF Inv
<1> QED BY <1>3, <1>4, <1>8, <1>10 DEF Goal, Inv

LEMMA CertifyKeeps ==
  ASSUME Inv, NEW w \in Worker, CertifySitting(w)
  PROVE  Goal
<1>1. PICK k \in Job : k = job[w] /\ JobTied(k) /\ k.pc = "certify"
  BY DEF Inv, JobsInv, CertifySitting, On
<1>2. k.reg \in Registration
  BY <1>1 DEF JobTied, Writing
<1>3. PICK n : n = [k EXCEPT !.pc = "release", !.reg = 0]
  OBVIOUS
<1>4. n \in Job /\ JobTied(n)
  <2>1. n \in Job /\ n.pc = "release" /\ n.todo = k.todo
    BY <1>1, <1>3 DEF Job
  <2> QED BY <2>1, <1>1 DEF JobTied, Writing
<1>5. UNCHANGED <<entry, sitting, paper, template, deaths>>
  BY DEF CertifySitting
<1>6. EntriesInv' /\ EntriesStay /\ PapersInv' /\ SittingsInv' /\ StaysClosed
  BY <1>5, EntriesSame, PapersSame, SittingsSame
<1>7. \/ job' = [job EXCEPT ![w] = n]
      \/ job' = [job EXCEPT ![w] = Idle]
  BY <1>1, <1>3 DEF CertifySitting, Ends
<1>8. JobsInv'
  <2>1. JobTied(n)' /\ JobTied(Idle)'
    BY <1>4, <1>6, TiesStay, IdleTied
  <2> QED BY <2>1, <1>4, <1>6, <1>7, EmptyRows, JobsMove DEF Inv
<1>9. issued' = issued \/ issued' = Append(issued, k.reg)
  BY <1>1 DEF CertifySitting
<1>10. issued \in Seq(Registration) /\ template \in BOOLEAN
  BY DEF Inv, CredentialsInv
<1>11. CredentialsInv'
  BY <1>2, <1>5, <1>9, <1>10 DEF CredentialsInv
<1> QED BY <1>5, <1>6, <1>8, <1>11 DEF Goal, Inv

-----------------------------------------------------------------------------
(* Registration and fees.                                                  *)

\* A new registration keeps its candidate's live ones in the window apart, because the
\* index admits it; and it takes the place of none.
LEMMA RegisterKeeps ==
  ASSUME Inv, NEW w \in Worker, RegisterForExam(w)
  PROVE  Goal
<1>1. PICK k \in Job : k = job[w] /\ JobTied(k) /\ k.pc = "register"
  BY DEF Inv, JobsInv, RegisterForExam, On
<1>2. PICK c \in Candidate : c = k.candidate
  BY <1>1 DEF JobTied, Job
<1>3. PICK v \in Window : v = k.window
  BY <1>1 DEF JobTied, Job
<1>4. UNCHANGED <<sitting, paper, credentials, deaths>>
  BY DEF RegisterForExam
<1>5. CASE ~IndexAdmits(c, v)
  <2>1. Ends(w) /\ UNCHANGED entry
    BY <1>1, <1>2, <1>3, <1>5 DEF RegisterForExam
  <2>2. job' = [job EXCEPT ![w] = Idle] /\ UNCHANGED Rows /\ deaths' \in Nat
    BY <2>1, <1>4 DEF Ends, Rows, Inv
  <2> QED BY <2>2, EmptyRows, IdleTied, TakesUp
<1>6. CASE IndexAdmits(c, v)
  <2>1. PICK row : row = [NoRegistration EXCEPT !.candidate = c, !.window = v]
    OBVIOUS
  <2>2. /\ row \in RegistrationRow /\ row.candidate = c /\ row.window = v
        /\ c # Null
    BY <2>1, ExamAssumption DEF NoRegistration, RegistrationRow
  <2>3. PICK r \in Registration :
          /\ ~Entered(r)
          /\ registration' = [registration EXCEPT ![r] = row]
          /\ fee' = [fee EXCEPT ![r] = "PENDING"]
          /\ job' = [job EXCEPT ![w] = [Idle EXCEPT !.pc = "checkout", !.reg = r]]
    BY <1>1, <1>2, <1>3, <1>6, <2>1 DEF RegisterForExam, NextRegistration
  <2>4. /\ registration' \in [Registration -> RegistrationRow]
        /\ registration'[r] = row
        /\ \A q \in Registration : q # r => registration'[q] = registration[q]
    BY <2>2, <2>3 DEF Inv, EntriesInv
  <2>5. EntriesStay /\ Entered(r)'
    BY <2>2, <2>3, <2>4 DEF EntriesStay, Entered
  <2>6. \A q \in Registration : q # r /\ registration'[q].candidate = c
                                /\ registration'[q].window = v
                                => registration'[q].cancelled
    BY <1>6, <2>4 DEF IndexAdmits, LiveIn
  <2>7. OneLiveRegistration'
    <3> SUFFICES ASSUME NEW q \in Registration, NEW s \in Registration,
                        Entered(q)', Entered(s)',
                        ~registration'[q].cancelled, ~registration'[s].cancelled,
                        registration'[q].candidate = registration'[s].candidate,
                        registration'[q].window = registration'[s].window,
                        q # s
                 PROVE  FALSE
      BY DEF OneLiveRegistration
    <3>1. CASE q = r
      BY <3>1, <2>2, <2>4, <2>6
    <3>2. CASE s = r
      BY <3>2, <2>2, <2>4, <2>6
    <3>3. CASE q # r /\ s # r
      BY <3>3, <2>4 DEF Inv, EntriesInv, OneLiveRegistration, Entered
    <3> QED BY <3>1, <3>2, <3>3
  <2>8. EntriesInv'
    BY <2>3, <2>4, <2>7 DEF Inv, EntriesInv
  <2>9. PICK n : n = [Idle EXCEPT !.pc = "checkout", !.reg = r]
    OBVIOUS
  <2>10. n \in Job /\ n.pc = "checkout" /\ n.reg = r /\ n.todo = {}
    BY <2>9 DEF Idle, Job
  <2>11. JobTied(n)'
    BY <2>5, <2>10 DEF JobTied, Writing
  <2>12. JobsInv'
    BY <2>3, <2>5, <2>9, <2>10, <2>11, JobsMove DEF Inv
  <2>13. SittingsInv' /\ StaysClosed /\ PapersInv' /\ CredentialsInv'
    BY <1>4, <2>5, SittingsSame, PapersSame, CredentialsSame
  <2> QED BY <1>4, <2>8, <2>12, <2>13 DEF Goal, Inv
<1> QED BY <1>5, <1>6

\* What becomes of a fee touches no registration.
LEMMA FeeKeeps ==
  ASSUME Inv, NEW r \in Registration, NEW status \in {"SUCCESS", "FAILED"},
         fee' = [fee EXCEPT ![r] = status], registration' = registration,
         UNCHANGED <<sitting, paper, credentials, deaths>>,
         job' = job \/ \E w \in Worker : Ends(w)
  PROVE  Goal
<1>1. EntriesStay /\ OneLiveRegistration'
  BY DEF EntriesStay, Entered, Inv, EntriesInv, OneLiveRegistration
<1>2. EntriesInv'
  BY <1>1 DEF Inv, EntriesInv
<1>3. SittingsInv' /\ StaysClosed /\ PapersInv' /\ CredentialsInv'
  BY <1>1, SittingsSame, PapersSame, CredentialsSame
<1>4. JobsInv'
  BY <1>1, JobsStay, JobsEnd DEF Inv
<1> QED BY <1>2, <1>3, <1>4 DEF Goal, Inv

LEMMA FeesKeep ==
  ASSUME Inv,
         \/ \E r \in Registration : FeeConfirmed(r) \/ FeeDeclined(r)
         \/ \E w \in Worker : CheckoutFailed(w)
  PROVE  Goal
<1>1. ASSUME NEW r \in Registration, FeeConfirmed(r) \/ FeeDeclined(r) PROVE Goal
  BY <1>1, FeeKeeps DEF FeeConfirmed, FeeDeclined
<1>2. ASSUME NEW w \in Worker, CheckoutFailed(w) PROVE Goal
  <2>1. PICK r \in Registration : r = job[w].reg
    BY <1>2 DEF CheckoutFailed, On, Inv, JobsInv, JobTied, Writing
  <2>2. fee' = [fee EXCEPT ![r] = "FAILED"] /\ registration' = registration
    BY <1>2, <2>1 DEF CheckoutFailed
  <2> QED BY <1>2, <2>1, <2>2, FeeKeeps DEF CheckoutFailed
<1> QED BY <1>1, <1>2

-----------------------------------------------------------------------------
(* The sitting.                                                            *)

\* Everything that writes one sitting and, at most, queues marks.
LEMMA OneSitting ==
  ASSUME Inv, NEW r \in Registration, Entered(r), NEW row \in SittingRow,
         sitting' = [sitting EXCEPT ![r] = row],
         sitting[r].state \notin {"NONE", "IN_PROGRESS"} => row.state # "IN_PROGRESS",
         UNCHANGED <<entry, credentials, deaths>>, PapersInv',
         job' = job \/ \E w \in Worker : Ends(w)
  PROVE  Goal
<1>1. EntriesInv' /\ EntriesStay /\ CredentialsInv'
  BY EntriesSame, CredentialsSame
<1>2. SittingsInv' /\ StaysClosed
  BY <1>1, SittingWrite DEF EntriesStay
<1>3. JobsInv'
  BY <1>1, JobsStay, JobsEnd DEF Inv
<1> QED BY <1>1, <1>2, <1>3 DEF Goal, Inv

\* A second start finds the first one's row and leaves it as it is.
LEMMA StartKeeps ==
  ASSUME Inv, NEW w \in Worker, StartSitting(w)
  PROVE  Goal
<1>1. PICK r \in Registration : r = job[w].reg /\ Entered(r)
  BY DEF StartSitting, On, Inv, JobsInv, JobTied, Writing
<1>2. PICK row : row = Started(r)
  OBVIOUS
<1>3. sitting[r] \in SittingRow
  BY DEF Inv, SittingsInv
<1>4. [NoSitting EXCEPT !.state = "IN_PROGRESS"] \in SittingRow
  BY DEF NoSitting, SittingRow, SittingState
<1>5. /\ row \in SittingRow
      /\ sitting[r].state \notin {"NONE", "IN_PROGRESS"} => row.state # "IN_PROGRESS"
  BY <1>2, <1>3, <1>4 DEF Started
<1>6. /\ sitting' = [sitting EXCEPT ![r] = row]
      /\ UNCHANGED <<entry, credentials, deaths>> /\ Ends(w)
  BY <1>1, <1>2 DEF StartSitting
<1>7. PapersInv'
  BY PapersSame DEF StartSitting
<1> QED BY <1>1, <1>5, <1>6, <1>7, OneSitting

\* The clock and the conduct review.
LEMMA WatchKeeps ==
  ASSUME Inv, NEW r \in Registration, TimeRunsOut(r) \/ ReviewSitting(r)
  PROVE  Goal
<1>1. Entered(r) /\ sitting[r] \in SittingRow
  BY DEF TimeRunsOut, ReviewSitting, Inv, SittingsInv
<1>2. PapersInv' /\ UNCHANGED <<entry, credentials, job, deaths>>
  BY PapersSame DEF TimeRunsOut, ReviewSitting
<1>3. PICK row : /\ row = [sitting[r] EXCEPT !.overdue = TRUE]
                       \/ row = [sitting[r] EXCEPT !.referred = ~@]
                 /\ sitting' = [sitting EXCEPT ![r] = row]
  BY DEF TimeRunsOut, ReviewSitting
<1>4. row \in SittingRow /\ row.state = sitting[r].state
  BY <1>1, <1>3 DEF SittingRow
<1> QED BY <1>1, <1>2, <1>3, <1>4, OneSitting

\* Queued marks are marks.
LEMMA QueuedMarks ==
  ASSUME Inv, NEW r \in Registration, NEW answers,
         mark' = Queued(r, answers), answered' = answered
  PROVE  PapersInv'
<1>1. PICK f : f = [q \in Question |-> IF q \in answers /\ mark[r][q] = "NONE"
                                       THEN "AWAITING" ELSE mark[r][q]]
  OBVIOUS
<1>2. f \in [Question -> {"NONE", "AWAITING", "RETURNED"}]
  BY <1>1 DEF Inv, PapersInv
<1>3. mark' = [mark EXCEPT ![r] = f]
  BY <1>1 DEF Queued
<1> QED BY <1>2, <1>3 DEF Inv, PapersInv

\* Submission and expiry write their state over whatever is there.
LEMMA CloseKeeps ==
  ASSUME Inv, NEW w \in Worker, SubmitSitting(w) \/ ExpireSitting(w)
  PROVE  Goal
<1>1. PICK r \in Registration : r = job[w].reg /\ Entered(r)
  BY DEF SubmitSitting, ExpireSitting, On, Inv, JobsInv, JobTied, Writing
<1>2. PICK state \in {"SUBMITTED", "EXPIRED"} :
        sitting' = [sitting EXCEPT ![r].state = state]
  BY <1>1 DEF SubmitSitting, ExpireSitting
<1>3. PICK row : row = [sitting[r] EXCEPT !.state = state]
  OBVIOUS
<1>4. row \in SittingRow /\ row.state # "IN_PROGRESS"
  BY <1>3 DEF Inv, SittingsInv, SittingRow, SittingState
<1>5. /\ mark' = Queued(r, job[w].answers) /\ answered' = answered /\ Ends(w)
      /\ UNCHANGED <<entry, credentials, deaths>>
  BY <1>1 DEF SubmitSitting, ExpireSitting
<1>6. PapersInv'
  BY <1>5, QueuedMarks
<1>7. sitting' = [sitting EXCEPT ![r] = row]
  BY <1>2, <1>3
<1> QED BY <1>1, <1>4, <1>5, <1>6, <1>7, OneSitting

\* Forfeiture also cancels the registration, which frees the window for another.
LEMMA ForfeitKeeps ==
  ASSUME Inv, NEW w \in Worker, ForfeitSitting(w)
  PROVE  Goal
<1>1. PICK r \in Registration : r = job[w].reg /\ Entered(r)
  BY DEF ForfeitSitting, On, Inv, JobsInv, JobTied, Writing
<1>2. PICK row : row = [sitting[r] EXCEPT !.state = "FORFEITED"]
  OBVIOUS
<1>3. row \in SittingRow /\ row.state = "FORFEITED"
  BY <1>2 DEF Inv, SittingsInv, SittingRow, SittingState
<1>4. /\ sitting' = [sitting EXCEPT ![r] = row]
      /\ registration' = [registration EXCEPT ![r].cancelled = TRUE]
      /\ fee' = fee /\ Ends(w)
      /\ UNCHANGED <<paper, credentials, deaths>>
  BY <1>1, <1>2 DEF ForfeitSitting
<1>5. PICK gone : gone = [registration[r] EXCEPT !.cancelled = TRUE]
  OBVIOUS
<1>6. /\ gone \in RegistrationRow /\ gone.cancelled
      /\ gone.candidate = registration[r].candidate
  BY <1>5 DEF Inv, EntriesInv, RegistrationRow
<1>7. /\ registration' \in [Registration -> RegistrationRow]
      /\ registration'[r] = gone
      /\ \A q \in Registration : q # r => registration'[q] = registration[q]
  BY <1>4, <1>5, <1>6 DEF Inv, EntriesInv
<1>8. EntriesStay
  BY <1>6, <1>7 DEF EntriesStay, Entered
<1>9. OneLiveRegistration'
  BY <1>6, <1>7 DEF Inv, EntriesInv, OneLiveRegistration, Entered
<1>10. EntriesInv'
  BY <1>4, <1>7, <1>9 DEF Inv, EntriesInv
<1>11. SittingsInv' /\ StaysClosed
  BY <1>1, <1>3, <1>4, <1>8, SittingWrite DEF EntriesStay
<1>12. PapersInv' /\ CredentialsInv' /\ JobsInv'
  BY <1>4, <1>8, PapersSame, CredentialsSame, JobsEnd DEF Inv
<1> QED BY <1>4, <1>10, <1>11, <1>12 DEF Goal, Inv

\* Steps that write answers, marks or templates only.
LEMMA PapersKeep ==
  ASSUME Inv,
         \/ \E w \in Worker : SaveSittingAnswer(w)
         \/ \E r \in Registration, q \in Question : ReturnMark(r, q)
         \/ ActivateTemplate
  PROVE  Goal
<1>1. UNCHANGED <<entry, sitting, deaths>>
  BY DEF SaveSittingAnswer, ReturnMark, ActivateTemplate
<1>2. EntriesInv' /\ EntriesStay /\ SittingsInv' /\ StaysClosed
  BY <1>1, EntriesSame, SittingsSame
<1>3. PapersInv'
  <2>1. ASSUME NEW w \in Worker, SaveSittingAnswer(w) PROVE PapersInv'
    <3>1. PICK r \in Registration, q \in Question : r = job[w].reg /\ q = job[w].question
      BY <2>1 DEF SaveSittingAnswer, On, Inv, JobsInv, JobTied, Writing
    <3>2. answered' = [answered EXCEPT ![r] = @ \cup {q}] /\ mark' = mark
      BY <2>1, <3>1 DEF SaveSittingAnswer
    <3> QED BY <3>2 DEF Inv, PapersInv
  <2>2. ASSUME NEW r \in Registration, NEW q \in Question, ReturnMark(r, q) PROVE PapersInv'
    BY <2>2 DEF ReturnMark, Inv, PapersInv
  <2>3. CASE ActivateTemplate
    BY <2>3, PapersSame DEF ActivateTemplate
  <2> QED BY <2>1, <2>2, <2>3
<1>4. CredentialsInv'
  BY DEF SaveSittingAnswer, ReturnMark, ActivateTemplate, credentials, Inv, CredentialsInv
<1>5. job' = job \/ \E w \in Worker : Ends(w)
  BY DEF SaveSittingAnswer, ReturnMark, ActivateTemplate
<1>6. JobsInv'
  BY <1>2, <1>5, JobsStay, JobsEnd DEF Inv
<1> QED BY <1>1, <1>2, <1>3, <1>4, <1>6 DEF Goal, Inv

-----------------------------------------------------------------------------
LEMMA ProceedKeeps ==
  ASSUME Inv, NEW w \in Worker, Proceed(w)
  PROVE  Goal
<1>1. ASSUME NEW item \in job[w].todo, SkipSitting(w, item) PROVE Goal
  BY <1>1, SkipKeeps
<1>2. ASSUME NEW item \in job[w].todo, NEW outcome \in {"PASS", "REFER"},
             ReleaseSitting(w, item, outcome)
      PROVE  Goal
  BY <1>2, ReleaseKeeps
<1>3. CASE RegisterForExam(w) \/ OpenCheckout(w) \/ CheckoutFailed(w)
  BY <1>3, RegisterKeeps, EndsQuietly, FeesKeep
<1>4. CASE StartSitting(w) \/ SaveSittingAnswer(w)
  BY <1>4, StartKeeps, PapersKeep
<1>5. CASE SubmitSitting(w) \/ ForfeitSitting(w) \/ ExpireSitting(w)
  BY <1>5, CloseKeeps, ForfeitKeeps
<1>6. CASE CertifySitting(w)
  BY <1>6, CertifyKeeps
<1> QED BY <1>1, <1>2, <1>3, <1>4, <1>5, <1>6 DEF Proceed

LEMMA StepKeeps == Inv /\ [Next]_vars => Goal
<1> SUFFICES ASSUME Inv, [Next]_vars PROVE Goal
  OBVIOUS
<1>1. CASE UNCHANGED vars
  <2>1. UNCHANGED Rows /\ job' = job /\ deaths' = deaths
    BY <1>1 DEF vars, Rows
  <2>2. /\ EntriesInv' /\ SittingsInv' /\ PapersInv' /\ CredentialsInv'
        /\ EntriesStay /\ StaysClosed
    BY <2>1, RowsStay
  <2>3. JobsInv'
    BY <2>1, <2>2, JobsStay DEF Inv
  <2> QED BY <2>1, <2>2, <2>3 DEF Goal, Inv
<1>2. ASSUME NEW r \in Registration,
             FeeConfirmed(r) \/ FeeDeclined(r) \/ TimeRunsOut(r) \/ ReviewSitting(r)
      PROVE  Goal
  BY <1>2, FeesKeep, WatchKeeps
<1>3. ASSUME NEW r \in Registration, NEW q \in Question, ReturnMark(r, q) PROVE Goal
  BY <1>3, PapersKeep
<1>4. CASE ActivateTemplate
  BY <1>4, PapersKeep
<1>5. ASSUME NEW w \in Worker, Arrive(w) \/ Proceed(w) \/ RequestDies(w) PROVE Goal
  BY <1>5, ArriveKeeps, ProceedKeeps, EndsQuietly
<1> QED BY <1>1, <1>2, <1>3, <1>4, <1>5 DEF Next

\* The invariant holds in every reachable state.
THEOREM Invariance == Spec => []Inv
<1>1. Inv /\ [Next]_vars => Inv'
  BY StepKeeps DEF Goal
<1> QED BY InitInv, <1>1, PTL DEF Spec

\* Every row and every request under way is one the schema admits.
THEOREM TypeCorrect == Spec => []TypeOK
BY Invariance, InvGivesTypes, PTL

\* However registrations race, a candidate has one live registration for a window
\* (exam_registration_one_live_per_window).
THEOREM OneLive == Spec => []OneLiveRegistration
<1>1. Inv => OneLiveRegistration
  BY DEF Inv, EntriesInv
<1> QED BY Invariance, <1>1, PTL

\* A paper that was closed in any way is never handed out again (startSitting).
THEOREM ClosedForGood == Spec => NeverReopened
<1>1. Inv /\ [Next]_vars => [\A r \in Registration :
                               sitting[r].state \notin {"NONE", "IN_PROGRESS"} =>
                               sitting'[r].state # "IN_PROGRESS"]_vars
  BY StepKeeps DEF Goal, StaysClosed
<1> QED BY Invariance, <1>1, PTL DEF Spec, NeverReopened

-----------------------------------------------------------------------------
(***************************************************************************)
(* Nobody reads a result while a marker still has an answer of theirs.     *)
(*                                                                         *)
(* The argument: a submission or an expiry still under way read the        *)
(* answers before the sitting was over, a release read them after; what is *)
(* saved stays saved; so whatever is queued for marking later is among     *)
(* the answers whose marks the release asks for.                           *)
(***************************************************************************)

Over(r) == sitting[r].state \notin {"NONE", "IN_PROGRESS"}

Queues(n) == n.pc \in {"submit", "expire"}

\* What a submission or an expiry read was saved, and what is queued was.
ReadInv == \A w \in Worker : Queues(job[w]) => job[w].answers \subseteq answered[job[w].reg]
MarksInv == \A r \in Registration, q \in Question : mark[r][q] # "NONE" => q \in answered[r]

\* A release covers all that is or may yet be queued.
Covers(item) ==
  /\ Over(item.reg)
  /\ \A q \in Question : mark[item.reg][q] # "NONE" => q \in item.answers
  /\ \A v \in Worker : Queues(job[v]) /\ job[v].reg = item.reg
                         => job[v].answers \subseteq item.answers
ItemsInv == \A w \in Worker : \A item \in job[w].todo : Covers(item)

AnswersInv == ReadInv /\ MarksInv /\ ItemsInv
ReleaseInv == AnswersInv /\ ReleasedIsMarked

\* Facts about a step: what is over stays over; what is saved stays saved.
OverStay == \A r \in Registration : Over(r) => Over(r)'
SavedStay == \A r \in Registration : answered[r] \subseteq answered'[r]
NoneQueued == \A r \in Registration, q \in Question :
                mark'[r][q] # "NONE" => mark[r][q] # "NONE"

-----------------------------------------------------------------------------
LEMMA InitRelease == Init => ReleaseInv
<1> SUFFICES ASSUME Init PROVE ReleaseInv
  OBVIOUS
<1>1. \A w \in Worker : job[w].pc = "idle" /\ job[w].todo = {}
  BY EmptyRows DEF Init
<1>2. ReadInv /\ ItemsInv
  BY <1>1 DEF ReadInv, ItemsInv, Queues
<1>3. MarksInv
  BY DEF Init, MarksInv
<1>4. ReleasedIsMarked
  BY DEF Init, ReleasedIsMarked
<1> QED BY <1>2, <1>3, <1>4 DEF ReleaseInv, AnswersInv

\* Items of a job under way name registrations.
LEMMA ItemTyped ==
  ASSUME Inv, NEW w \in Worker, NEW item \in job[w].todo
  PROVE  item \in Item /\ item.reg \in Registration /\ item.answers \in SUBSET Question
BY DEF Inv, JobsInv, Job, Item

\* A step that queues no mark, in which at most one worker moves on, not to a write of
\* answers, and with no sitting to release that it had not before.
LEMMA Quiet ==
  ASSUME Inv, AnswersInv, Inv', OverStay, SavedStay, NoneQueued,
         \/ job' = job
         \/ \E w \in Worker, n \in Job :
              /\ job' = [job EXCEPT ![w] = n]
              /\ ~Queues(n) /\ n.todo \subseteq job[w].todo
  PROVE  AnswersInv'
<1>1. \A v \in Worker : /\ job'[v].todo \subseteq job[v].todo
                        /\ Queues(job'[v]) => job'[v] = job[v]
  BY DEF Inv, JobsInv
<1>2. \A v \in Worker : Queues(job[v]) => job[v].reg \in Registration
  BY DEF Inv, JobsInv, JobTied, Writing, Queues
<1>3. ReadInv'
  BY <1>1, <1>2 DEF AnswersInv, ReadInv, SavedStay, Queues
<1>4. MarksInv'
  BY DEF AnswersInv, MarksInv, SavedStay, NoneQueued
<1>5. ItemsInv'
  <2> SUFFICES ASSUME NEW w \in Worker, NEW item \in job'[w].todo PROVE Covers(item)'
    BY DEF ItemsInv
  <2>1. item \in job[w].todo
    BY <1>1
  <2>2. Covers(item) /\ item.reg \in Registration
    BY <2>1, ItemTyped DEF AnswersInv, ItemsInv
  <2>3. Over(item.reg)'
    BY <2>2 DEF Covers, OverStay
  <2>4. \A q \in Question : mark'[item.reg][q] # "NONE" => q \in item.answers
    BY <2>2 DEF Covers, NoneQueued
  <2>5. \A v \in Worker : Queues(job'[v]) /\ job'[v].reg = item.reg
                            => job'[v].answers \subseteq item.answers
    BY <1>1, <2>2 DEF Covers
  <2> QED BY <2>3, <2>4, <2>5 DEF Covers, Queues
<1> QED BY <1>3, <1>4, <1>5 DEF AnswersInv

\* What was released and stays so, with nothing queued, stays marked.
LEMMA StaysMarked ==
  ASSUME Inv, ReleasedIsMarked, NoneQueued,
         \A r \in Registration : sitting'[r].state = "RELEASED" => sitting[r].state = "RELEASED",
         \A r \in Registration, q \in Question :
           mark'[r][q] = "AWAITING" => mark[r][q] = "AWAITING"
  PROVE  ReleasedIsMarked'
BY DEF ReleasedIsMarked

-----------------------------------------------------------------------------
(* Steps that queue nothing.                                               *)

\* Nothing about sittings, answers and marks changes.
LEMMA PapersStill ==
  ASSUME Inv, sitting' = sitting, UNCHANGED paper
  PROVE  OverStay /\ SavedStay /\ NoneQueued /\ (ReleasedIsMarked => ReleasedIsMarked')
<1>1. answered' = answered /\ mark' = mark
  BY DEF paper
<1> QED BY <1>1 DEF OverStay, Over, SavedStay, NoneQueued, ReleasedIsMarked

LEMMA IdleQuiet == Idle \in Job /\ ~Queues(Idle) /\ Idle.todo = {}
BY EmptyRows DEF Queues

\* Where a release stands next, it has fewer sittings to go.
LEMMA NextItemQuiet ==
  ASSUME Inv, NEW w \in Worker, On(w, "release"), NEW item \in job[w].todo, NEW outcome
  PROVE  /\ AfterItem(w, item, outcome) \in Job
         /\ ~Queues(AfterItem(w, item, outcome))
         /\ AfterItem(w, item, outcome).todo \subseteq job[w].todo
<1>1. AfterItem(w, item, outcome) \in Job
  BY NextItem
<1>2. PICK k \in Job : k = job[w] /\ k.pc = "release"
  BY DEF Inv, JobsInv, On
<1>3. PICK rest : rest = k.todo \ {item}
  OBVIOUS
<1>4. CASE outcome = "PASS"
  <2>1. PICK n : n = [k EXCEPT !.pc = "certify", !.reg = item.reg, !.todo = rest]
    OBVIOUS
  <2>2. n.pc = "certify" /\ n.todo = rest
    BY <2>1, <1>2 DEF Job
  <2>3. AfterItem(w, item, outcome) = n
    BY <1>2, <1>3, <1>4, <2>1 DEF AfterItem
  <2> QED BY <2>2, <2>3, <1>1, <1>2, <1>3 DEF Queues
<1>5. CASE outcome # "PASS" /\ rest = {}
  <2>1. AfterItem(w, item, outcome) = Idle
    BY <1>2, <1>3, <1>5 DEF AfterItem
  <2> QED BY <2>1, IdleQuiet
<1>6. CASE outcome # "PASS" /\ rest # {}
  <2>1. PICK n : n = [k EXCEPT !.todo = rest]
    OBVIOUS
  <2>2. n.pc = "release" /\ n.todo = rest
    BY <2>1, <1>2 DEF Job
  <2>3. AfterItem(w, item, outcome) = n
    BY <1>2, <1>3, <1>6, <2>1 DEF AfterItem
  <2> QED BY <2>2, <2>3, <1>1, <1>2, <1>3 DEF Queues
<1> QED BY <1>4, <1>5, <1>6

\* Reads that are no submission, expiry or release.
LEMMA ReadsQuiet ==
  ASSUME Inv, ReleaseInv, Inv', NEW w \in Worker,
         \/ \E c \in Candidate, v \in Window : FindPlace(w, c, v)
         \/ \E r \in Registration :
              \/ FindToStart(w, r) \/ FindToForfeit(w, r) \/ FindUncertified(w, r)
              \/ \E q \in Question : FindToSave(w, r, q)
  PROVE  ReleaseInv'
<1>1. PICK n : /\ n.todo = {} /\ ~Queues(n) /\ n \in Job
               /\ job' = [job EXCEPT ![w] = n]
  <2>1. ASSUME NEW c \in Candidate, NEW v \in Window, FindPlace(w, c, v)
        PROVE  \E n : n.todo = {} /\ ~Queues(n) /\ n \in Job /\ job' = [job EXCEPT ![w] = n]
    <3>1. PICK n : n = [Idle EXCEPT !.pc = "register", !.candidate = c, !.window = v]
      OBVIOUS
    <3>2. n.todo = {} /\ n.pc = "register" /\ n \in Job
      BY <3>1 DEF Idle, Job
    <3> QED BY <2>1, <3>1, <3>2 DEF FindPlace, Queues
  <2>2. ASSUME NEW r \in Registration, FindToStart(w, r)
        PROVE  \E n : n.todo = {} /\ ~Queues(n) /\ n \in Job /\ job' = [job EXCEPT ![w] = n]
    <3>1. PICK n : n = [Idle EXCEPT !.pc = "start", !.reg = r]
      OBVIOUS
    <3>2. n.todo = {} /\ n.pc = "start" /\ n \in Job
      BY <3>1 DEF Idle, Job
    <3> QED BY <2>2, <3>1, <3>2 DEF FindToStart, Queues
  <2>3. ASSUME NEW r \in Registration, FindUncertified(w, r)
        PROVE  \E n : n.todo = {} /\ ~Queues(n) /\ n \in Job /\ job' = [job EXCEPT ![w] = n]
    <3>1. PICK n : n = [Idle EXCEPT !.pc = "certify", !.reg = r]
      OBVIOUS
    <3>2. n.todo = {} /\ n.pc = "certify" /\ n \in Job
      BY <3>1 DEF Idle, Job
    <3> QED BY <2>3, <3>1, <3>2 DEF FindUncertified, Queues
  <2>4. ASSUME NEW r \in Registration, FindToForfeit(w, r)
        PROVE  \E n : n.todo = {} /\ ~Queues(n) /\ n \in Job /\ job' = [job EXCEPT ![w] = n]
    <3>1. PICK n : n = [Idle EXCEPT !.pc = "forfeit", !.reg = r, !.answers = answered[r]]
      OBVIOUS
    <3>2. n.todo = {} /\ n.pc = "forfeit" /\ n \in Job
      BY <3>1 DEF Idle, Job, Inv, PapersInv
    <3> QED BY <2>4, <3>1, <3>2 DEF FindToForfeit, FindSitting, Queues
  <2>5. ASSUME NEW r \in Registration, NEW q \in Question, FindToSave(w, r, q)
        PROVE  \E n : n.todo = {} /\ ~Queues(n) /\ n \in Job /\ job' = [job EXCEPT ![w] = n]
    <3>1. PICK n : n = [Idle EXCEPT !.pc = "save", !.reg = r, !.question = q]
      OBVIOUS
    <3>2. n.todo = {} /\ n.pc = "save" /\ n \in Job
      BY <3>1 DEF Idle, Job
    <3> QED BY <2>5, <3>1, <3>2 DEF FindToSave, Queues
  <2> QED BY <2>1, <2>2, <2>3, <2>4, <2>5
<1>2. sitting' = sitting /\ UNCHANGED paper
  BY DEF FindPlace, FindToStart, FindToForfeit, FindSitting, FindUncertified, FindToSave
<1>3. OverStay /\ SavedStay /\ NoneQueued /\ ReleasedIsMarked'
  BY <1>2, PapersStill DEF ReleaseInv
<1>4. \E v \in Worker, m \in Job : /\ job' = [job EXCEPT ![v] = m]
                                   /\ ~Queues(m) /\ m.todo \subseteq job[v].todo
  BY <1>1
<1> QED BY <1>3, <1>4, Quiet DEF ReleaseInv

\* Requests that end, or go on, without touching sittings, answers or marks.
LEMMA EndsQuiet ==
  ASSUME Inv, ReleaseInv, Inv', NEW w \in Worker,
         \/ OpenCheckout(w) \/ CheckoutFailed(w) \/ RequestDies(w)
         \/ RegisterForExam(w) \/ CertifySitting(w)
         \/ \E item \in job[w].todo : SkipSitting(w, item)
  PROVE  ReleaseInv'
<1>1. sitting' = sitting /\ UNCHANGED paper
  BY DEF OpenCheckout, CheckoutFailed, RequestDies, RegisterForExam, CertifySitting, SkipSitting
<1>2. OverStay /\ SavedStay /\ NoneQueued /\ ReleasedIsMarked'
  BY <1>1, PapersStill DEF ReleaseInv
<1>3. \E n \in Job : job' = [job EXCEPT ![w] = n] /\ ~Queues(n) /\ n.todo \subseteq job[w].todo
  <2>1. CASE OpenCheckout(w) \/ CheckoutFailed(w) \/ RequestDies(w)
    BY <2>1, IdleQuiet DEF OpenCheckout, CheckoutFailed, RequestDies, Ends
  <2>2. CASE RegisterForExam(w)
    <3>1. CASE Ends(w)
      BY <3>1, IdleQuiet DEF Ends
    <3>2. CASE ~Ends(w)
      <4>1. PICK r \in Registration :
              job' = [job EXCEPT ![w] = [Idle EXCEPT !.pc = "checkout", !.reg = r]]
        BY <2>2, <3>2 DEF RegisterForExam
      <4>2. PICK n : n = [Idle EXCEPT !.pc = "checkout", !.reg = r]
        OBVIOUS
      <4>3. n \in Job /\ n.pc = "checkout" /\ n.todo = {}
        BY <4>2 DEF Idle, Job
      <4> QED BY <4>1, <4>2, <4>3 DEF Queues
    <3> QED BY <3>1, <3>2
  <2>3. CASE CertifySitting(w)
    <3>1. PICK n : n = [job[w] EXCEPT !.pc = "release", !.reg = 0]
      OBVIOUS
    <3>2. n \in Job /\ n.pc = "release" /\ n.todo = job[w].todo
      BY <3>1 DEF Job, Inv, JobsInv
    <3>3. job' = [job EXCEPT ![w] = n] \/ job' = [job EXCEPT ![w] = Idle]
      BY <2>3, <3>1 DEF CertifySitting, Ends
    <3> QED BY <3>2, <3>3, IdleQuiet DEF Queues
  <2>4. ASSUME NEW item \in job[w].todo, SkipSitting(w, item)
        PROVE  \E n \in Job : /\ job' = [job EXCEPT ![w] = n]
                              /\ ~Queues(n) /\ n.todo \subseteq job[w].todo
    BY <2>4, NextItemQuiet DEF SkipSitting
  <2> QED BY <2>1, <2>2, <2>3, <2>4
<1>4. AnswersInv'
  BY <1>2, <1>3, Quiet DEF ReleaseInv
<1> QED BY <1>2, <1>4 DEF ReleaseInv

\* Fees and templates.
LEMMA AsideQuiet ==
  ASSUME Inv, ReleaseInv, Inv',
         \/ \E r \in Registration : FeeConfirmed(r) \/ FeeDeclined(r)
         \/ ActivateTemplate
         \/ UNCHANGED vars
  PROVE  ReleaseInv'
<1>1. sitting' = sitting /\ UNCHANGED paper /\ job' = job
  BY DEF FeeConfirmed, FeeDeclined, ActivateTemplate, vars
<1>2. OverStay /\ SavedStay /\ NoneQueued /\ ReleasedIsMarked'
  BY <1>1, PapersStill DEF ReleaseInv
<1> QED BY <1>1, <1>2, Quiet DEF ReleaseInv

\* A start, the clock and the conduct review leave the state of what is over alone.
LEMMA WatchQuiet ==
  ASSUME Inv, ReleaseInv, Inv',
         \/ \E w \in Worker : StartSitting(w)
         \/ \E r \in Registration : TimeRunsOut(r) \/ ReviewSitting(r)
  PROVE  ReleaseInv'
<1>1. UNCHANGED paper
  BY DEF StartSitting, TimeRunsOut, ReviewSitting
<1>2. \A r \in Registration : \/ sitting'[r].state = sitting[r].state
                              \/ ~Over(r) /\ sitting'[r].state = "IN_PROGRESS"
  <2>1. sitting \in [Registration -> SittingRow]
    BY DEF Inv, SittingsInv
  <2>2. ASSUME NEW w \in Worker, StartSitting(w), NEW r \in Registration
        PROVE  \/ sitting'[r].state = sitting[r].state
               \/ ~Over(r) /\ sitting'[r].state = "IN_PROGRESS"
    <3>1. PICK s \in Registration : s = job[w].reg
      BY <2>2 DEF StartSitting, On, Inv, JobsInv, JobTied, Writing
    <3>2. sitting' = [sitting EXCEPT ![s] = Started(s)]
      BY <2>2, <3>1 DEF StartSitting
    <3>3. CASE r = s /\ sitting[s].state = "NONE"
      BY <2>1, <3>2, <3>3 DEF Started, Over, NoSitting
    <3>4. CASE r # s \/ sitting[s].state # "NONE"
      BY <2>1, <3>2, <3>4 DEF Started
    <3> QED BY <3>3, <3>4
  <2>3. ASSUME NEW s \in Registration, TimeRunsOut(s) \/ ReviewSitting(s),
               NEW r \in Registration
        PROVE  sitting'[r].state = sitting[r].state
    BY <2>1, <2>3 DEF TimeRunsOut, ReviewSitting, SittingRow
  <2> QED BY <2>2, <2>3
<1>3. OverStay
  BY <1>2 DEF OverStay, Over
<1>4. SavedStay /\ NoneQueued /\ ReleasedIsMarked'
  BY <1>1, <1>2 DEF SavedStay, NoneQueued, paper, ReleaseInv, ReleasedIsMarked
<1>5. \/ job' = job
      \/ \E w \in Worker : job' = [job EXCEPT ![w] = Idle]
  BY DEF StartSitting, TimeRunsOut, ReviewSitting, Ends
<1>6. AnswersInv'
  BY <1>3, <1>4, <1>5, IdleQuiet, Quiet DEF ReleaseInv
<1> QED BY <1>4, <1>6 DEF ReleaseInv

\* Saving adds to what is saved; returning a mark queues none.
LEMMA PaperQuiet ==
  ASSUME Inv, ReleaseInv, Inv',
         \/ \E w \in Worker : SaveSittingAnswer(w)
         \/ \E r \in Registration, q \in Question : ReturnMark(r, q)
  PROVE  ReleaseInv'
<1>1. sitting' = sitting
  BY DEF SaveSittingAnswer, ReturnMark
<1>2. OverStay
  BY <1>1 DEF OverStay, Over
<1>3. SavedStay
  BY DEF SavedStay, SaveSittingAnswer, ReturnMark, Inv, PapersInv
<1>4. /\ NoneQueued
      /\ \A r \in Registration, q \in Question :
           mark'[r][q] = "AWAITING" => mark[r][q] = "AWAITING"
  <2>1. ASSUME NEW w \in Worker, SaveSittingAnswer(w) PROVE mark' = mark
    BY <2>1 DEF SaveSittingAnswer
  <2>2. ASSUME NEW s \in Registration, NEW p \in Question, ReturnMark(s, p),
               NEW r \in Registration, NEW q \in Question
        PROVE  \/ mark'[r][q] = mark[r][q]
               \/ mark[r][q] = "AWAITING" /\ mark'[r][q] = "RETURNED"
    BY <2>2 DEF ReturnMark, Inv, PapersInv
  <2> QED BY <2>1, <2>2 DEF NoneQueued
<1>5. ReleasedIsMarked'
  BY <1>1, <1>4 DEF ReleaseInv, ReleasedIsMarked
<1>6. \/ job' = job
      \/ \E w \in Worker : job' = [job EXCEPT ![w] = Idle]
  BY DEF SaveSittingAnswer, ReturnMark, Ends
<1>7. AnswersInv'
  BY <1>2, <1>3, <1>4, <1>6, IdleQuiet, Quiet DEF ReleaseInv
<1> QED BY <1>5, <1>7 DEF ReleaseInv

LEMMA ForfeitQuiet ==
  ASSUME Inv, ReleaseInv, Inv', NEW w \in Worker, ForfeitSitting(w)
  PROVE  ReleaseInv'
<1>1. PICK s \in Registration : s = job[w].reg
  BY DEF ForfeitSitting, On, Inv, JobsInv, JobTied, Writing
<1>2. sitting' = [sitting EXCEPT ![s].state = "FORFEITED"] /\ UNCHANGED paper
  BY <1>1 DEF ForfeitSitting
<1>3. \A r \in Registration : \/ sitting'[r] = sitting[r]
                              \/ sitting'[r].state = "FORFEITED"
  BY <1>2 DEF Inv, SittingsInv, SittingRow
<1>4. OverStay
  BY <1>3 DEF OverStay, Over
<1>5. SavedStay /\ NoneQueued /\ ReleasedIsMarked'
  BY <1>2, <1>3 DEF SavedStay, NoneQueued, paper, ReleaseInv, ReleasedIsMarked
<1>6. job' = [job EXCEPT ![w] = Idle]
  BY DEF ForfeitSitting, Ends
<1>7. AnswersInv'
  BY <1>4, <1>5, <1>6, IdleQuiet, Quiet DEF ReleaseInv
<1> QED BY <1>5, <1>7 DEF ReleaseInv

\* The release itself: what it asked the marks of covers all that is queued.
LEMMA ReleaseCovers ==
  ASSUME Inv, ReleaseInv, Inv', NEW w \in Worker, NEW item \in job[w].todo,
         NEW outcome \in {"PASS", "REFER"}, ReleaseSitting(w, item, outcome)
  PROVE  ReleaseInv'
<1>1. item.reg \in Registration /\ item.answers \in SUBSET Question /\ Covers(item)
  BY ItemTyped DEF ReleaseInv, AnswersInv, ItemsInv
<1>2. PICK s \in Registration : s = item.reg
  BY <1>1
<1>3. PICK row : row = [sitting[s] EXCEPT !.state = "RELEASED", !.outcome = outcome]
  OBVIOUS
<1>4. row.state = "RELEASED"
  BY <1>3 DEF Inv, SittingsInv, SittingRow
<1>5. sitting' = [sitting EXCEPT ![s] = row] /\ UNCHANGED paper
  BY <1>2, <1>3 DEF ReleaseSitting
<1>6. sitting'[s].state = "RELEASED" /\ \A r \in Registration : r # s => sitting'[r] = sitting[r]
  BY <1>4, <1>5 DEF Inv, SittingsInv
<1>7. OverStay
  BY <1>6 DEF OverStay, Over
<1>8. SavedStay /\ NoneQueued
  BY <1>5 DEF SavedStay, NoneQueued, paper
<1>9. \A q \in Question : mark[s][q] # "AWAITING"
  <2>1. \A q \in item.answers : mark[s][q] = "RETURNED"
    BY <1>2 DEF ReleaseSitting, Marked
  <2> QED BY <1>1, <1>2, <2>1 DEF Covers
<1>10. ReleasedIsMarked'
  BY <1>5, <1>6, <1>9 DEF paper, ReleaseInv, ReleasedIsMarked
<1>11. PICK n \in Job : /\ job' = [job EXCEPT ![w] = n]
                        /\ ~Queues(n) /\ n.todo \subseteq job[w].todo
  BY NextItemQuiet DEF ReleaseSitting
<1>12. AnswersInv'
  BY <1>7, <1>8, <1>11, Quiet DEF ReleaseInv
<1> QED BY <1>10, <1>12 DEF ReleaseInv

-----------------------------------------------------------------------------
(* Steps that take up answers, or queue marks.                             *)

\* A submission or an expiry reads a sitting in progress, one no release has read.
LEMMA ReadsAnswers ==
  ASSUME Inv, ReleaseInv, Inv', NEW w \in Worker, NEW s \in Registration,
         FindToSubmit(w, s) \/ FindToExpire(w, s)
  PROVE  ReleaseInv'
<1>1. /\ sitting[s].state = "IN_PROGRESS"
      /\ sitting' = sitting /\ answered' = answered /\ mark' = mark
  BY DEF FindToSubmit, FindToExpire, InTime, FindSitting, paper
<1>2. PICK n : /\ n.reg = s /\ n.answers = answered[s] /\ n.todo = {}
               /\ job' = [job EXCEPT ![w] = n]
  <2>1. PICK pc : job' = [job EXCEPT ![w] =
                            [Idle EXCEPT !.pc = pc, !.reg = s, !.answers = answered[s]]]
    BY DEF FindToSubmit, FindToExpire, FindSitting
  <2>2. PICK n : n = [Idle EXCEPT !.pc = pc, !.reg = s, !.answers = answered[s]]
    OBVIOUS
  <2>3. n.reg = s /\ n.answers = answered[s] /\ n.todo = {}
    BY <2>2 DEF Idle
  <2> QED BY <2>1, <2>2, <2>3
<1>3. job'[w] = n /\ \A v \in Worker : v # w => job'[v] = job[v]
  BY <1>2 DEF Inv, JobsInv
<1>4. ReadInv'
  BY <1>1, <1>2, <1>3 DEF ReleaseInv, AnswersInv, ReadInv, Queues
<1>5. MarksInv' /\ ReleasedIsMarked'
  BY <1>1 DEF ReleaseInv, AnswersInv, MarksInv, ReleasedIsMarked
<1>6. ItemsInv'
  <2> SUFFICES ASSUME NEW v \in Worker, NEW item \in job'[v].todo PROVE Covers(item)'
    BY DEF ItemsInv
  <2>1. v # w /\ item \in job[v].todo
    BY <1>2, <1>3
  <2>2. Covers(item)
    BY <2>1 DEF ReleaseInv, AnswersInv, ItemsInv
  <2>3. item.reg # s
    BY <1>1, <2>2 DEF Covers, Over
  <2>4. \A u \in Worker : Queues(job'[u]) /\ job'[u].reg = item.reg
                            => job'[u].answers \subseteq item.answers
    BY <1>2, <1>3, <2>2, <2>3 DEF Covers
  <2> QED BY <1>1, <2>2, <2>4 DEF Covers, Over, Queues
<1> QED BY <1>4, <1>5, <1>6 DEF ReleaseInv, AnswersInv

\* A release reads sittings that are over, with all the answers saved so far.
LEMMA ReadsWindow ==
  ASSUME Inv, ReleaseInv, Inv', NEW w \in Worker, NEW v \in Window, ReadWindow(w, v)
  PROVE  ReleaseInv'
<1>1. sitting' = sitting /\ answered' = answered /\ mark' = mark
  BY DEF ReadWindow, paper
<1>2. PICK n : /\ n.pc = "release"
               /\ \A item \in n.todo : /\ item.reg \in Registration
                                       /\ item.answers = answered[item.reg]
                                       /\ sitting[item.reg].state = "SUBMITTED"
               /\ job' = [job EXCEPT ![w] = n]
  <2>1. PICK ready : ready = {r \in Registration : /\ registration[r].window = v
                                                   /\ sitting[r].state = "SUBMITTED"
                                                   /\ ~sitting[r].referred}
    OBVIOUS
  <2>2. PICK items : items = {[reg |-> r, answers |-> answered[r]] : r \in ready}
    OBVIOUS
  <2>3. \A item \in items : /\ item.reg \in Registration
                            /\ item.answers = answered[item.reg]
                            /\ sitting[item.reg].state = "SUBMITTED"
    BY <2>1, <2>2
  <2>4. PICK n : n = [Idle EXCEPT !.pc = "release", !.todo = items]
    OBVIOUS
  <2>5. n.pc = "release" /\ n.todo = items
    BY <2>4 DEF Idle
  <2>6. job' = [job EXCEPT ![w] = n]
    BY <2>1, <2>2, <2>4 DEF ReadWindow
  <2> QED BY <2>3, <2>5, <2>6
<1>3. job'[w] = n /\ \A u \in Worker : u # w => job'[u] = job[u]
  BY <1>2 DEF Inv, JobsInv
<1>4. ReadInv'
  BY <1>1, <1>2, <1>3 DEF ReleaseInv, AnswersInv, ReadInv, Queues
<1>5. MarksInv' /\ ReleasedIsMarked'
  BY <1>1 DEF ReleaseInv, AnswersInv, MarksInv, ReleasedIsMarked
<1>6. ItemsInv'
  <2> SUFFICES ASSUME NEW u \in Worker, NEW item \in job'[u].todo PROVE Covers(item)'
    BY DEF ItemsInv
  <2>1. Covers(item)
    <3>1. CASE u = w
      <4>1. /\ item.reg \in Registration /\ item.answers = answered[item.reg]
            /\ sitting[item.reg].state = "SUBMITTED"
        BY <3>1, <1>2, <1>3
      <4>2. \A x \in Worker : Queues(job[x]) /\ job[x].reg = item.reg
                                => job[x].answers \subseteq item.answers
        BY <4>1 DEF ReleaseInv, AnswersInv, ReadInv
      <4> QED BY <4>1, <4>2 DEF Covers, Over, ReleaseInv, AnswersInv, MarksInv
    <3>2. CASE u # w
      BY <3>2, <1>3 DEF ReleaseInv, AnswersInv, ItemsInv
    <3> QED BY <3>1, <3>2
  <2>2. \A x \in Worker : Queues(job'[x]) /\ job'[x].reg = item.reg
                            => job'[x].answers \subseteq item.answers
    BY <1>2, <1>3, <2>1 DEF Covers, Queues
  <2> QED BY <1>1, <2>1, <2>2 DEF Covers, Over, Queues
<1> QED BY <1>4, <1>5, <1>6 DEF ReleaseInv, AnswersInv

\* The write queues what the request read, and takes the sitting out of RELEASED.
LEMMA CloseQueues ==
  ASSUME Inv, ReleaseInv, Inv', NEW w \in Worker, SubmitSitting(w) \/ ExpireSitting(w)
  PROVE  ReleaseInv'
<1>1. PICK s \in Registration : s = job[w].reg /\ Queues(job[w])
  BY DEF SubmitSitting, ExpireSitting, On, Queues, Inv, JobsInv, JobTied, Writing
<1>2. PICK read : read = job[w].answers
  OBVIOUS
<1>3. read \subseteq answered[s]
  BY <1>1, <1>2 DEF ReleaseInv, AnswersInv, ReadInv
<1>4. /\ answered' = answered /\ mark' = Queued(s, read)
      /\ job' = [job EXCEPT ![w] = Idle]
  BY <1>1, <1>2 DEF SubmitSitting, ExpireSitting, Ends
<1>5. PICK state \in {"SUBMITTED", "EXPIRED"} :
        sitting' = [sitting EXCEPT ![s].state = state]
  BY <1>1 DEF SubmitSitting, ExpireSitting
<1>6. /\ sitting'[s].state = state
      /\ \A r \in Registration : r # s => sitting'[r] = sitting[r]
  BY <1>5 DEF Inv, SittingsInv, SittingRow
<1>7. /\ \A q \in Question : mark'[s][q] # "NONE" => mark[s][q] # "NONE" \/ q \in read
      /\ \A r \in Registration : r # s => mark'[r] = mark[r]
  <2>1. PICK f : f = [q \in Question |-> IF q \in read /\ mark[s][q] = "NONE"
                                         THEN "AWAITING" ELSE mark[s][q]]
    OBVIOUS
  <2>2. mark' = [mark EXCEPT ![s] = f]
    BY <1>4, <2>1 DEF Queued
  <2> QED BY <2>1, <2>2 DEF Inv, PapersInv
<1>8. /\ \A v \in Worker : job'[v].todo \subseteq job[v].todo
      /\ \A v \in Worker : Queues(job'[v]) => job'[v] = job[v]
  BY <1>4, IdleQuiet DEF Inv, JobsInv
<1>9. ReadInv'
  BY <1>4, <1>8 DEF ReleaseInv, AnswersInv, ReadInv, Queues
<1>10. MarksInv'
  BY <1>3, <1>4, <1>7 DEF ReleaseInv, AnswersInv, MarksInv
<1>11. ReleasedIsMarked'
  BY <1>5, <1>6, <1>7 DEF ReleaseInv, ReleasedIsMarked
<1>12. ItemsInv'
  <2> SUFFICES ASSUME NEW u \in Worker, NEW item \in job'[u].todo PROVE Covers(item)'
    BY DEF ItemsInv
  <2>1. item \in job[u].todo
    BY <1>8
  <2>2. Covers(item) /\ item.reg \in Registration
    BY <2>1, ItemTyped DEF ReleaseInv, AnswersInv, ItemsInv
  <2>3. Over(item.reg)'
    BY <1>5, <1>6, <2>2 DEF Covers, Over
  <2>4. item.reg = s => read \subseteq item.answers
    BY <1>1, <1>2, <2>2 DEF Covers
  <2>5. \A q \in Question : mark'[item.reg][q] # "NONE" => q \in item.answers
    BY <1>7, <2>2, <2>4 DEF Covers
  <2>6. \A x \in Worker : Queues(job'[x]) /\ job'[x].reg = item.reg
                            => job'[x].answers \subseteq item.answers
    BY <1>8, <2>2 DEF Covers
  <2> QED BY <2>3, <2>5, <2>6 DEF Covers, Queues
<1> QED BY <1>9, <1>10, <1>11, <1>12 DEF ReleaseInv, AnswersInv

-----------------------------------------------------------------------------
LEMMA StepRelease == Inv /\ ReleaseInv /\ Inv' /\ [Next]_vars => ReleaseInv'
<1> SUFFICES ASSUME Inv, ReleaseInv, Inv', [Next]_vars PROVE ReleaseInv'
  OBVIOUS
<1>1. CASE UNCHANGED vars \/ ActivateTemplate
  BY <1>1, AsideQuiet
<1>2. ASSUME NEW r \in Registration, FeeConfirmed(r) \/ FeeDeclined(r) PROVE ReleaseInv'
  BY <1>2, AsideQuiet
<1>3. ASSUME NEW r \in Registration, TimeRunsOut(r) \/ ReviewSitting(r) PROVE ReleaseInv'
  BY <1>3, WatchQuiet
<1>4. ASSUME NEW r \in Registration, NEW q \in Question, ReturnMark(r, q)
      PROVE  ReleaseInv'
  BY <1>4, PaperQuiet
<1>5. ASSUME NEW w \in Worker, Arrive(w) PROVE ReleaseInv'
  <2>1. ASSUME NEW r \in Registration, FindToSubmit(w, r) \/ FindToExpire(w, r)
        PROVE  ReleaseInv'
    BY <2>1, ReadsAnswers
  <2>2. ASSUME NEW v \in Window, ReadWindow(w, v) PROVE ReleaseInv'
    BY <2>2, ReadsWindow
  <2> QED BY <1>5, <2>1, <2>2, ReadsQuiet DEF Arrive
<1>6. ASSUME NEW w \in Worker, Proceed(w) PROVE ReleaseInv'
  <2>1. ASSUME NEW item \in job[w].todo, NEW outcome \in {"PASS", "REFER"},
               ReleaseSitting(w, item, outcome)
        PROVE  ReleaseInv'
    BY <2>1, ReleaseCovers
  <2>2. CASE StartSitting(w) \/ SaveSittingAnswer(w)
    BY <2>2, WatchQuiet, PaperQuiet
  <2>3. CASE SubmitSitting(w) \/ ForfeitSitting(w) \/ ExpireSitting(w)
    BY <2>3, CloseQueues, ForfeitQuiet
  <2>4. CASE \/ RegisterForExam(w) \/ OpenCheckout(w) \/ CheckoutFailed(w)
             \/ CertifySitting(w) \/ \E item \in job[w].todo : SkipSitting(w, item)
    BY <2>4, EndsQuiet
  <2> QED BY <1>6, <2>1, <2>2, <2>3, <2>4 DEF Proceed
<1>7. ASSUME NEW w \in Worker, RequestDies(w) PROVE ReleaseInv'
  BY <1>7, EndsQuiet
<1> QED BY <1>1, <1>2, <1>3, <1>4, <1>5, <1>6, <1>7 DEF Next

\* No result is released while an answer of the paper awaits its mark, for any number of
\* candidates, submissions, expiries and releases at once (releaseResults).
THEOREM ReleasedAreMarked == Spec => []ReleasedIsMarked
<1>1. ReleaseInv => ReleasedIsMarked
  BY DEF ReleaseInv
<1>2. Inv /\ ReleaseInv /\ [Next]_vars => ReleaseInv'
  BY StepRelease, StepKeeps DEF Goal
<1> QED BY InitRelease, Invariance, <1>1, <1>2, PTL DEF Spec

-----------------------------------------------------------------------------
(***************************************************************************)
(* The refinement of Certificates: what this examination issues is what    *)
(* that module allows.                                                     *)
(*                                                                         *)
(* The argument: a result is recorded by a release alone and a candidate   *)
(* of record never changes, so that a row of Certificates, once there,     *)
(* stays as it is; no sitting is issued a certificate twice, so that fewer *)
(* numbers are taken than there are registrations while one has none.      *)
(***************************************************************************)

\* Nobody has a result for a paper never handed out.
Blank == \A r \in Registration : sitting[r].state = "NONE" => sitting[r].outcome = "NONE"

\* Certificates are for registrations on record, each at most once.
IssuedOnce ==
  /\ \A i \in 1 .. Len(issued) : Entered(issued[i])
  /\ \A i, j \in 1 .. Len(issued) : issued[i] = issued[j] => i = j

IssueInv == Blank /\ IssuedOnce

\* A step that leaves the credentials, the results and the candidates of record alone.
ResultsKept ==
  /\ issued' = issued /\ template' = template
  /\ \A r \in Registration :
       /\ Entered(r) => registration'[r].candidate = registration[r].candidate
       /\ sitting'[r].outcome = sitting[r].outcome
       /\ sitting'[r].state = "NONE" => sitting[r].state = "NONE"

LEMMA IssuedTyped ==
  ASSUME Inv
  PROVE  Len(issued) \in Nat /\ \A i \in 1 .. Len(issued) : issued[i] \in Registration
BY DEF Inv, CredentialsInv

\* A registration without a candidate has no result.
LEMMA NoResult ==
  ASSUME Inv, Blank, NEW r \in Registration, ~Entered(r)
  PROVE  sitting[r].outcome = "NONE"
BY DEF Inv, SittingsInv, Blank

LEMMA InitIssue == Init => IssueInv /\ Certs!Init
<1> SUFFICES ASSUME Init PROVE IssueInv /\ Certs!Init
  OBVIOUS
<1>1. issued = << >> /\ template = FALSE /\ \A r \in Registration : sitting[r].outcome = "NONE"
  BY DEF Init, NoSitting
<1>2. IssueInv
  BY <1>1 DEF IssueInv, Blank, IssuedOnce
<1>3. \A k \in Registration : CertificateOf(k) = Certs!NoCertificate
  <2>1. \A k \in Registration : ~(k <= Len(issued))
    BY <1>1 DEF Registration
  <2> QED BY <2>1 DEF CertificateOf, Certs!NoCertificate
<1>4. [k \in Registration |-> CertificateOf(k)] = [k \in Registration |-> Certs!NoCertificate]
  BY <1>3
<1>5. Passed = [r \in Registration |-> Null]
  BY <1>1 DEF Passed
<1> QED BY <1>1, <1>2, <1>4, <1>5
        DEF Certs!Init, Certs!Certificate, Certs!Idle, Registration

LEMMA KeptStutters ==
  ASSUME Inv, IssueInv, ResultsKept
  PROVE  IssueInv' /\ UNCHANGED Certs!vars
<1>1. \A i \in 1 .. Len(issued) :
        /\ issued[i] \in Registration /\ Entered(issued[i])
        /\ registration'[issued[i]].candidate = registration[issued[i]].candidate
  BY IssuedTyped DEF IssueInv, IssuedOnce, ResultsKept
<1>2. IssuedOnce'
  BY <1>1 DEF IssueInv, IssuedOnce, ResultsKept, Entered
<1>3. Blank'
  BY DEF IssueInv, Blank, ResultsKept
<1>4. ASSUME NEW k \in Registration PROVE CertificateOf(k)' = CertificateOf(k)
  <2>1. CASE k <= Len(issued)
    <3>1. k \in 1 .. Len(issued)
      BY <2>1, IssuedTyped DEF Registration
    <3> QED BY <1>1, <3>1 DEF CertificateOf, ResultsKept
  <2>2. CASE ~(k <= Len(issued))
    BY <2>2 DEF CertificateOf, ResultsKept
  <2> QED BY <2>1, <2>2
<1>5. UNCHANGED [k \in Registration |-> CertificateOf(k)]
  BY <1>4
<1>6. ASSUME NEW r \in Registration
      PROVE  (IF sitting'[r].outcome = "PASS" THEN registration'[r].candidate ELSE Null)
               = IF sitting[r].outcome = "PASS" THEN registration[r].candidate ELSE Null
  BY NoResult DEF ResultsKept, IssueInv
<1>7. Passed' = Passed
  BY <1>6 DEF Passed
<1> QED BY <1>2, <1>3, <1>5, <1>7 DEF IssueInv, Certs!vars, ResultsKept

\* Steps that touch no registration, sitting or credential.
LEMMA ElsewhereKept ==
  ASSUME registration' = registration, sitting' = sitting, UNCHANGED credentials
  PROVE  ResultsKept
BY DEF ResultsKept, credentials

\* A sitting is written, its result is not, and it is not taken back.
LEMMA SittingWritten ==
  ASSUME Inv, NEW r \in Registration, NEW row,
         sitting' = [sitting EXCEPT ![r] = row],
         row.outcome = sitting[r].outcome,
         row.state = "NONE" => sitting[r].state = "NONE",
         \A q \in Registration : registration'[q].candidate = registration[q].candidate,
         UNCHANGED credentials
  PROVE  ResultsKept
<1>1. sitting'[r] = row /\ \A q \in Registration : q # r => sitting'[q] = sitting[q]
  BY DEF Inv, SittingsInv
<1> QED BY <1>1 DEF ResultsKept, credentials

LEMMA StartIssues ==
  ASSUME Inv, IssueInv, NEW w \in Worker, StartSitting(w)
  PROVE  ResultsKept
<1>1. PICK r \in Registration : r = job[w].reg
  BY DEF StartSitting, On, Inv, JobsInv, JobTied, Writing
<1>2. PICK row : row = Started(r)
  OBVIOUS
<1>3. sitting' = [sitting EXCEPT ![r] = row] /\ registration' = registration
      /\ UNCHANGED credentials
  BY <1>1, <1>2 DEF StartSitting, entry
<1>4. row.outcome = sitting[r].outcome /\ (row.state = "NONE" => sitting[r].state = "NONE")
  BY <1>2 DEF Started, NoSitting, IssueInv, Blank
<1>5. \A q \in Registration : registration'[q].candidate = registration[q].candidate
  BY <1>3
<1> QED BY <1>3, <1>4, <1>5, SittingWritten

LEMMA CloseIssues ==
  ASSUME Inv, NEW w \in Worker, SubmitSitting(w) \/ ForfeitSitting(w) \/ ExpireSitting(w)
  PROVE  ResultsKept
<1>1. PICK r \in Registration : r = job[w].reg
  BY DEF SubmitSitting, ForfeitSitting, ExpireSitting, On, Inv, JobsInv, JobTied, Writing
<1>2. PICK to \in {"SUBMITTED", "FORFEITED", "EXPIRED"} :
        sitting' = [sitting EXCEPT ![r].state = to]
  BY <1>1 DEF SubmitSitting, ForfeitSitting, ExpireSitting
<1>3. PICK row : row = [sitting[r] EXCEPT !.state = to]
  OBVIOUS
<1>4. row.outcome = sitting[r].outcome /\ row.state # "NONE"
  BY <1>3 DEF Inv, SittingsInv, SittingRow
<1>5. sitting' = [sitting EXCEPT ![r] = row]
  BY <1>2, <1>3
<1>6. \A q \in Registration : registration'[q].candidate = registration[q].candidate
  BY <1>1 DEF SubmitSitting, ForfeitSitting, ExpireSitting, entry, Inv, EntriesInv, RegistrationRow
<1>7. UNCHANGED credentials
  BY DEF SubmitSitting, ForfeitSitting, ExpireSitting
<1> QED BY <1>4, <1>5, <1>6, <1>7, SittingWritten

LEMMA WatchIssues ==
  ASSUME Inv, NEW r \in Registration, TimeRunsOut(r) \/ ReviewSitting(r)
  PROVE  ResultsKept
<1>1. registration' = registration /\ UNCHANGED credentials
  BY DEF TimeRunsOut, ReviewSitting, entry
<1>2. PICK row : /\ sitting' = [sitting EXCEPT ![r] = row]
                 /\ row \in {[sitting[r] EXCEPT !.overdue = TRUE],
                             [sitting[r] EXCEPT !.referred = ~sitting[r].referred]}
  BY DEF TimeRunsOut, ReviewSitting
<1>3. row.outcome = sitting[r].outcome /\ row.state = sitting[r].state
  BY <1>2 DEF Inv, SittingsInv, SittingRow
<1> QED BY <1>1, <1>2, <1>3, SittingWritten

LEMMA RegisterIssues ==
  ASSUME Inv, NEW w \in Worker, RegisterForExam(w)
  PROVE  ResultsKept
<1>1. sitting' = sitting /\ UNCHANGED credentials
  BY DEF RegisterForExam
<1>2. \A q \in Registration : Entered(q) => registration'[q].candidate = registration[q].candidate
  <2>1. CASE UNCHANGED entry
    BY <2>1 DEF entry
  <2>2. CASE ~UNCHANGED entry
    <3>1. PICK r \in Registration :
            ~Entered(r) /\ \E row : registration' = [registration EXCEPT ![r] = row]
      BY <2>2 DEF RegisterForExam, NextRegistration
    <3> QED BY <3>1 DEF Inv, EntriesInv
  <2> QED BY <2>1, <2>2
<1> QED BY <1>1, <1>2 DEF ResultsKept, credentials

\* Requests that read, answers that are saved and marked, fees, the end of a request.
LEMMA ArriveIssues ==
  ASSUME NEW w \in Worker, Arrive(w)
  PROVE  ResultsKept
<1>1. registration' = registration /\ sitting' = sitting /\ UNCHANGED credentials
  BY DEF Arrive, FindPlace, FindToStart, FindToSubmit, FindToForfeit, FindToExpire,
         FindSitting, FindUncertified, FindToSave, ReadWindow, entry
<1> QED BY <1>1, ElsewhereKept

LEMMA OthersIssue ==
  ASSUME NEW w \in Worker,
         \/ OpenCheckout(w) \/ CheckoutFailed(w) \/ SaveSittingAnswer(w) \/ RequestDies(w)
         \/ \E item \in job[w].todo : SkipSitting(w, item)
  PROVE  ResultsKept
<1>1. registration' = registration /\ sitting' = sitting /\ UNCHANGED credentials
  BY DEF OpenCheckout, CheckoutFailed, SaveSittingAnswer, RequestDies, SkipSitting, entry
<1> QED BY <1>1, ElsewhereKept

LEMMA FeesIssue ==
  ASSUME NEW r \in Registration,
         FeeConfirmed(r) \/ FeeDeclined(r) \/ \E q \in Question : ReturnMark(r, q)
  PROVE  ResultsKept
<1>1. registration' = registration /\ sitting' = sitting /\ UNCHANGED credentials
  BY DEF FeeConfirmed, FeeDeclined, ReturnMark, entry
<1> QED BY <1>1, ElsewhereKept

-----------------------------------------------------------------------------
\* A release records a pass, or a referral over whatever was recorded before.
LEMMA ReleaseMaps ==
  ASSUME Inv, IssueInv, NEW w \in Worker, NEW item \in job[w].todo,
         NEW outcome \in {"PASS", "REFER"}, ReleaseSitting(w, item, outcome)
  PROVE  IssueInv' /\ [Certs!Next]_(Certs!vars)
<1>1. PICK r \in Registration : r = item.reg /\ Entered(r)
  BY NextItem DEF ReleaseSitting
<1>2. /\ registration' = registration /\ issued' = issued /\ template' = template
      /\ sitting' = [sitting EXCEPT ![r] = [@ EXCEPT !.state = "RELEASED", !.outcome = outcome]]
  BY <1>1 DEF ReleaseSitting, entry, credentials
<1>3. /\ sitting'[r].outcome = outcome /\ sitting'[r].state = "RELEASED"
      /\ \A q \in Registration : q # r => sitting'[q] = sitting[q]
  BY <1>2 DEF Inv, SittingsInv, SittingRow
<1>4. IssueInv'
  BY <1>2, <1>3 DEF IssueInv, Blank, IssuedOnce, Entered
<1>5. [k \in Registration |-> CertificateOf(k)]' = [k \in Registration |-> CertificateOf(k)]
  BY <1>2 DEF CertificateOf
<1>6. PICK h \in Candidate : h = registration[r].candidate
  BY <1>1 DEF Inv, EntriesInv, RegistrationRow, Entered
<1>7. h # Null
  BY ExamAssumption
<1>8. Passed' = [Passed EXCEPT ![r] = IF outcome = "PASS" THEN h ELSE Null]
  <2>1. Passed'[r] = IF outcome = "PASS" THEN h ELSE Null
    BY <1>2, <1>3, <1>6 DEF Passed
  <2>2. \A q \in Registration : q # r => Passed'[q] = Passed[q]
    BY <1>2, <1>3 DEF Passed
  <2> QED BY <2>1, <2>2 DEF Passed
<1>9. Passed[r] = IF sitting[r].outcome = "PASS" THEN h ELSE Null
  BY <1>6 DEF Passed
<1>10. CASE Passed[r] = (IF outcome = "PASS" THEN h ELSE Null)
  <2>1. Passed' = Passed
    BY <1>8, <1>10 DEF Passed
  <2> QED BY <1>2, <1>4, <1>5, <2>1 DEF Certs!vars
<1>11. CASE Passed[r] = Null /\ outcome = "PASS"
  <2>1. Certs!PassSitting(r, h)
    BY <1>2, <1>5, <1>8, <1>11 DEF Certs!PassSitting
  <2> QED BY <1>4, <2>1 DEF Certs!Next
<1>12. CASE Passed[r] # Null /\ outcome = "REFER"
  <2>1. Certs!ReferSitting(r)
    BY <1>2, <1>5, <1>8, <1>12 DEF Certs!ReferSitting
  <2> QED BY <1>4, <2>1 DEF Certs!Next
<1> QED BY <1>7, <1>9, <1>10, <1>11, <1>12

LEMMA ActivateMaps ==
  ASSUME Inv, IssueInv, ActivateTemplate
  PROVE  IssueInv' /\ Certs!Next
<1>1. /\ ~template /\ template' = TRUE /\ issued' = issued
      /\ registration' = registration /\ sitting' = sitting
  BY DEF ActivateTemplate, entry
<1>2. IssueInv'
  BY <1>1 DEF IssueInv, Blank, IssuedOnce, Entered
<1>3. [k \in Registration |-> CertificateOf(k)]' = [k \in Registration |-> CertificateOf(k)]
  BY <1>1 DEF CertificateOf
<1>4. Passed' = Passed
  BY <1>1 DEF Passed
<1>5. Certs!ActivateTemplate
  BY <1>1, <1>3, <1>4 DEF Certs!ActivateTemplate
<1> QED BY <1>2, <1>5 DEF Certs!Next

\* While a registration has no certificate, a number is left.
LEMMA RoomForOne ==
  ASSUME Inv, IssuedOnce, NEW r \in Registration, ~Contains(issued, r)
  PROVE  Len(issued) + 1 \in Registration
<1>1. PICK n \in Nat : n = Len(issued)
  BY IssuedTyped
<1>2. PICK N \in Nat : N = MaxRegistrations /\ Registration = 1 .. N
  BY ExamAssumption DEF Registration
<1>3. \A i \in 1 .. n : issued[i] \in Registration /\ issued[i] # r
  BY <1>1, IssuedTyped DEF Contains
<1>4. PICK f : f = [i \in 1 .. n + 1 |-> IF i = n + 1 THEN r ELSE issued[i]]
  OBVIOUS
<1>5. f \in [1 .. n + 1 -> 1 .. N]
  <2>1. \A i \in 1 .. n + 1 : i # n + 1 => i \in 1 .. n
    BY <1>1
  <2> QED BY <1>2, <1>3, <1>4, <2>1
<1>6. \A i, j \in 1 .. n + 1 : f[i] = f[j] => i = j
  <2>1. \A i \in 1 .. n + 1 : i # n + 1 => i \in 1 .. n
    BY <1>1
  <2> QED BY <1>1, <1>3, <1>4, <2>1 DEF IssuedOnce
<1>7. /\ IsFiniteSet(1 .. n + 1) /\ Cardinality(1 .. n + 1) = n + 1
      /\ IsFiniteSet(1 .. N) /\ Cardinality(1 .. N) = N
  BY FS_Interval
<1>8. ~(N < n + 1)
  <2>1. ASSUME N < n + 1 PROVE FALSE
    <3>1. \E i, j \in 1 .. n + 1 : i # j /\ f[i] = f[j]
      BY <1>5, <1>7, <2>1, FS_PigeonHole
    <3> QED BY <1>6, <3>1
  <2> QED BY <2>1
<1> QED BY <1>1, <1>2, <1>8

LEMMA IssuedRow ==
  ASSUME NEW h, NEW r
  PROVE  Certs!Issued(h, r) = [status |-> "ACTIVE", holder |-> h, sitting |-> r,
                               replaces |-> 0, supersededBy |-> 0]
<1>1. PICK a : a = [Certs!NoCertificate EXCEPT !.status = "ACTIVE"]
  OBVIOUS
<1>2. a = [status |-> "ACTIVE", holder |-> Null, sitting |-> Null,
           replaces |-> 0, supersededBy |-> 0]
  BY <1>1 DEF Certs!NoCertificate
<1>3. PICK b : b = [a EXCEPT !.holder = h]
  OBVIOUS
<1>4. b = [status |-> "ACTIVE", holder |-> h, sitting |-> Null,
           replaces |-> 0, supersededBy |-> 0]
  BY <1>2, <1>3
<1>5. [b EXCEPT !.sitting = r] = [status |-> "ACTIVE", holder |-> h, sitting |-> r,
                                  replaces |-> 0, supersededBy |-> 0]
  BY <1>4
<1> QED BY <1>1, <1>3, <1>5 DEF Certs!Issued

\* The certificate of a sitting is issued under the next number, to the candidate whose
\* pass is on record.
LEMMA IssueMaps ==
  ASSUME Inv, IssueInv, NEW r \in Registration, Entered(r), Issuable(r),
         issued' = Append(issued, r), template' = template,
         registration' = registration, sitting' = sitting
  PROVE  IssueInv' /\ Certs!Next
<1> DEFINE C == [k \in Registration |-> CertificateOf(k)]
<1>1. PICK n \in Nat : n = Len(issued)
  BY IssuedTyped
<1>2. n + 1 \in Registration
  BY <1>1, RoomForOne DEF IssueInv, Issuable
<1>3. /\ Len(issued') = n + 1 /\ issued'[n + 1] = r
      /\ \A i \in 1 .. n : issued'[i] = issued[i]
  BY <1>1 DEF Inv, CredentialsInv
<1>4. \A i \in 1 .. n : issued[i] \in Registration /\ issued[i] # r /\ Entered(issued[i])
  BY <1>1, IssuedTyped DEF Issuable, Contains, IssueInv, IssuedOnce
<1>5. IssueInv'
  <2>1. \A i \in 1 .. n + 1 : i # n + 1 => i \in 1 .. n
    OBVIOUS
  <2>2. IssuedOnce'
    BY <1>1, <1>3, <1>4, <2>1 DEF IssueInv, IssuedOnce, Entered
  <2> QED BY <2>2 DEF IssueInv, Blank
<1>6. ASSUME NEW k \in Registration
      PROVE  /\ C[k].status # "NONE" <=> k <= n
             /\ C[k].sitting # r
  <2>1. CASE k <= n
    <3>1. k \in 1 .. n
      BY <2>1 DEF Registration
    <3>2. C[k].status = "ACTIVE" /\ C[k].sitting = issued[k]
      BY <1>1, <2>1 DEF CertificateOf
    <3> QED BY <1>4, <2>1, <3>1, <3>2
  <2>2. CASE ~(k <= n)
    <3>1. C[k].status = "NONE" /\ C[k].sitting = Null
      BY <1>1, <2>2 DEF CertificateOf
    <3>2. Null # r
      BY ExamAssumption
    <3> QED BY <2>2, <3>1, <3>2
  <2> QED BY <2>1, <2>2
<1>7. PICK h \in Candidate : h = registration[r].candidate
  BY DEF Inv, EntriesInv, RegistrationRow, Entered
<1>8. Passed[r] = h /\ h # Null /\ template = TRUE
  BY <1>7, ExamAssumption DEF Passed, Issuable, Inv, CredentialsInv
<1>9. Passed' = Passed
  BY DEF Passed
<1>10. C' = [C EXCEPT ![n + 1] = Certs!Issued(h, r)]
  <2>1. C'[n + 1] = Certs!Issued(h, r)
    <3>1. C'[n + 1] = [status |-> "ACTIVE", holder |-> h, sitting |-> r,
                       replaces |-> 0, supersededBy |-> 0]
      BY <1>2, <1>3, <1>7 DEF CertificateOf
    <3> QED BY <3>1, IssuedRow
  <2>2. ASSUME NEW k \in Registration, k # n + 1 PROVE C'[k] = C[k]
    <3>1. CASE k <= n
      <4>1. k \in 1 .. n
        BY <3>1 DEF Registration
      <4> QED BY <1>1, <1>3, <3>1, <4>1 DEF CertificateOf
    <3>2. CASE ~(k <= n)
      <4>1. ~(k <= n + 1)
        BY <2>2, <3>2 DEF Registration
      <4> QED BY <1>1, <1>3, <3>2, <4>1 DEF CertificateOf
    <3> QED BY <3>1, <3>2
  <2> QED BY <1>2, <2>1, <2>2
<1>11. Certs!NextNumber(n + 1)
  <2>1. ~(C[n + 1].status # "NONE")
    BY <1>2, <1>6
  <2>2. \A j \in Registration : j < n + 1 => C[j].status # "NONE"
    BY <1>6 DEF Registration
  <2> QED BY <2>1, <2>2 DEF Certs!NextNumber, Certs!OnRecord, Certs!Certificate, Registration
<1>12. Certs!Uncertified(r)
  BY <1>6 DEF Certs!Uncertified, Certs!Certificate, Registration
<1>13. Certs!SpareCertificate
  <2>1. {w \in Worker : [v \in Worker |-> Certs!Idle][w].pc \in {"course", "reissue"}} = {}
    BY DEF Certs!Idle
  <2>2. PICK S : S = {k \in Registration : ~(C[k].status # "NONE")}
    OBVIOUS
  <2>3. n + 1 \in S /\ S \in SUBSET Registration
    BY <1>2, <1>6, <2>2
  <2>4. IsFiniteSet(S)
    <3>1. IsFiniteSet(Registration)
      BY ExamAssumption, FS_Interval DEF Registration
    <3> QED BY <2>3, <3>1, FS_Subset
  <2>5. Cardinality(S) \in Nat /\ Cardinality(S) # 0
    BY <2>3, <2>4, FS_CardinalityType, FS_EmptySet
  <2>6. Cardinality({}) = 0
    BY FS_EmptySet
  <2>7. 0 < Cardinality({k \in Registration : ~(C[k].status # "NONE")})
    BY <2>2, <2>5
  <2>8. Cardinality({w \in Worker : [v \in Worker |-> Certs!Idle][w].pc \in {"course", "reissue"}}) = 0
    BY <2>1, <2>6
  <2> QED BY <2>7, <2>8
          DEF Certs!SpareCertificate, Certs!OnRecord, Certs!Certificate, Registration, Certs!Idle,
              Cardinality, Certs!Cardinality
<1>14. Certs!IssueCertificate(r)
  BY <1>2, <1>8, <1>9, <1>10, <1>11, <1>12, <1>13
     DEF Certs!IssueCertificate, Certs!Certificate, Registration
<1> QED BY <1>5, <1>14 DEF Certs!Next

LEMMA CertifyMaps ==
  ASSUME Inv, IssueInv, NEW w \in Worker, CertifySitting(w)
  PROVE  IssueInv' /\ [Certs!Next]_(Certs!vars)
<1>1. PICK r \in Registration : r = job[w].reg /\ Entered(r)
  BY DEF CertifySitting, On, Inv, JobsInv, JobTied, Writing
<1>2. registration' = registration /\ sitting' = sitting /\ template' = template
  BY DEF CertifySitting, entry
<1>3. CASE issued' = issued
  <2>1. ResultsKept
    BY <1>2, <1>3, ElsewhereKept DEF credentials
  <2> QED BY <2>1, KeptStutters
<1>4. CASE Issuable(r) /\ issued' = Append(issued, r)
  BY <1>1, <1>2, <1>4, IssueMaps
<1> QED BY <1>1, <1>3, <1>4 DEF CertifySitting

LEMMA StepIssues ==
  Inv /\ IssueInv /\ [Next]_vars => IssueInv' /\ [Certs!Next]_(Certs!vars)
<1> SUFFICES ASSUME Inv, IssueInv, [Next]_vars
             PROVE  IssueInv' /\ [Certs!Next]_(Certs!vars)
  OBVIOUS
<1>1. CASE UNCHANGED vars
  <2>1. ResultsKept
    BY <1>1, ElsewhereKept DEF vars, entry
  <2> QED BY <2>1, KeptStutters
<1>2. ASSUME NEW r \in Registration,
             \/ FeeConfirmed(r) \/ FeeDeclined(r) \/ TimeRunsOut(r) \/ ReviewSitting(r)
             \/ \E q \in Question : ReturnMark(r, q)
      PROVE  ResultsKept
  BY <1>2, FeesIssue, WatchIssues
<1>3. ASSUME NEW w \in Worker, Arrive(w) \/ RequestDies(w) PROVE ResultsKept
  BY <1>3, ArriveIssues, OthersIssue
<1>4. ASSUME NEW w \in Worker, Proceed(w)
      PROVE  \/ ResultsKept
             \/ IssueInv' /\ [Certs!Next]_(Certs!vars)
  BY <1>4, RegisterIssues, OthersIssue, StartIssues, CloseIssues, ReleaseMaps, CertifyMaps
     DEF Proceed
<1>5. CASE ActivateTemplate
  BY <1>5, ActivateMaps
<1> QED BY <1>1, <1>2, <1>3, <1>4, <1>5, KeptStutters DEF Next

\* What an examination issues are certificates as Certificates promises them: for a
\* sitting whose result on record is a pass at that moment, at most one per sitting,
\* each under the next number, to the candidate who was entered - however two releases
\* of a window, a bulk issue and requests that die cross.
THEOREM CertificatesRefined == Spec => CertificatesAsPromised
<1>1. Init => IssueInv /\ Certs!Init
  BY InitIssue
<1>2. Spec => [](Inv /\ IssueInv)
  BY <1>1, StepIssues, Invariance, PTL DEF Spec
<1>3. [](Inv /\ IssueInv) /\ [][Next]_vars => [][Certs!Next]_(Certs!vars)
  BY StepIssues, PTL
<1> QED BY <1>1, <1>2, <1>3, PTL DEF Spec, CertificatesAsPromised, Certs!Spec

\* Certificates again, with what is proved about it.
CP == INSTANCE Certificates_proofs WITH
           Holder <- Candidate, Course <- {}, Sitting <- Registration,
           MaxCertificates <- MaxRegistrations,
           cert <- [k \in Registration |-> CertificateOf(k)],
           passed <- Passed,
           job <- [w \in Worker |-> [pc |-> "idle", cert |-> 0, holder |-> Null,
                                     status |-> "NONE"]]

\* The theorems of Certificates_proofs hold of the certificates of an examination, because
\* its specification implements that of Certificates: the step is only to see that the
\* two instances of the module are one.  However releases of a window, bulk issues and
\* requests that die cross, no sitting has two certificates.
THEOREM CertificatesValid == Spec => []Certs!OneValidPerAward
<1>1. CP!CertificateAssumption
  BY ExamAssumption DEF CP!CertificateAssumption
<1>2. CP!Spec => []CP!OneValidPerAward
  BY <1>1, CP!OneValid
<1>3. Certs!Init => CP!Init
  BY DEF Certs!Init, Certs!Certificate, Certs!NoCertificate, Certs!Idle,
         CP!Init, CP!Certificate, CP!NoCertificate, CP!Idle
<1>4. [Certs!Next]_(Certs!vars) => [CP!Next]_(CP!vars)
  BY DEF
       Certs!Next, Certs!Certificate, Certs!NoCertificate, Certs!Idle,
       Certs!OnRecord, Certs!NextNumber, Certs!SpareCertificate, Certs!Issued,
       Certs!Uncertified, Certs!SuccessorAdmitted, Certs!PassSitting,
       Certs!ReferSitting, Certs!ActivateTemplate, Certs!IssueCertificate,
       Certs!IssueCertificateManually, Certs!CompleteCourse,
       Certs!MintCourseCertificate, Certs!FindToRevoke, Certs!RevokeCertificate,
       Certs!FindToReissue, Certs!Replaced, Certs!ReissueCertificate,
       Certs!RequestDies, Certs!Arrive, Certs!Proceed, Certs!vars, Certs!Cardinality,
       CP!Next, CP!Certificate, CP!NoCertificate, CP!Idle, CP!OnRecord,
       CP!NextNumber, CP!SpareCertificate, CP!Issued, CP!Uncertified,
       CP!SuccessorAdmitted, CP!PassSitting, CP!ReferSitting, CP!ActivateTemplate,
       CP!IssueCertificate, CP!IssueCertificateManually, CP!CompleteCourse,
       CP!MintCourseCertificate, CP!FindToRevoke, CP!RevokeCertificate,
       CP!FindToReissue, CP!Replaced, CP!ReissueCertificate, CP!RequestDies, CP!Arrive,
       CP!Proceed, CP!vars, CP!Cardinality
<1>5. CP!OneValidPerAward => Certs!OneValidPerAward
  BY DEF CP!OneValidPerAward, CP!Line, CP!Successors, CP!Certificate,
         Certs!OneValidPerAward, Certs!Line, Certs!Successors, Certs!Certificate
<1>6. Spec => CP!Spec
  BY <1>3, <1>4, CertificatesRefined, PTL DEF CertificatesAsPromised, Certs!Spec, CP!Spec
<1> QED BY <1>2, <1>5, <1>6, PTL
=============================================================================
