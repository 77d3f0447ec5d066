----------------------------- MODULE ExamSittings -----------------------------
(***************************************************************************)
(* One examination (src/lib/exam-sitting-actions.ts): registration for a   *)
(* window, the sitting against the server's clock, marking of the written  *)
(* answers, the conduct review, and the release of a window's results with *)
(* the certificates they earn.                                             *)
(*                                                                         *)
(* A registration's id is also its sitting's: registrationId is unique.    *)
(* Submission, forfeiture, expiry, autosave and release each read a        *)
(* sitting without locking it and write it by id: between the two, such a  *)
(* request is a job of a worker.                                           *)
(***************************************************************************)
EXTENDS Naturals, FiniteSets, Sequences, SequencesExt

CONSTANTS
  Candidate,
  Null,              \* SQL's NULL where a candidate, window or sitting could stand
  Window,
  Capacity,          \* [Window -> Nat]
  AttemptPolicy,     \* of the examination
  Question,          \* the paper's written questions
  Worker,            \* requests in flight at once
  MaxRegistrations,  \* bound on rows created
  MaxDeaths          \* bound on requests that die half way

Registration == 1 .. MaxRegistrations

SittingState == {"NONE", "IN_PROGRESS", "SUBMITTED", "FORFEITED", "EXPIRED", "RELEASED"}

ASSUME ExamAssumption ==
  /\ Null \notin Candidate \cup Window \cup Registration
  /\ Capacity \in [Window -> Nat]
  /\ AttemptPolicy \in {"ONE_ATTEMPT", "TWO_ATTEMPTS", "ONE_RESIT_ON_REFERRAL"}
  /\ MaxRegistrations \in Nat
  /\ MaxDeaths \in Nat

VARIABLES
  registration,  \* ExamRegistration rows
  fee,           \* the status of a registration's payment
  sitting,       \* Sitting rows
  answered,      \* SittingAnswer rows for written questions, per sitting
  mark,          \* Mark rows of those answers
  issued,        \* the sittings that earned a certificate, in order of issue
  template,      \* whether an active certificate template covers the tier
  job,           \* what each worker is in the middle of
  deaths         \* requests that died so far

entry == <<registration, fee>>
paper == <<answered, mark>>
credentials == <<issued, template>>
vars == <<entry, sitting, paper, credentials, job, deaths>>

-----------------------------------------------------------------------------
NoRegistration == [candidate |-> Null, window |-> Null, cancelled |-> FALSE]
NoSitting == [state |-> "NONE", overdue |-> FALSE, referred |-> FALSE,
              outcome |-> "NONE"]
Idle == [pc |-> "idle", reg |-> 0, candidate |-> Null, window |-> Null,
         question |-> Null, answers |-> {}, todo |-> {}]

On(w, pc) == job[w].pc = pc
Ends(w) == job' = [job EXCEPT ![w] = Idle]

Entered(r) == registration[r].candidate # Null
NextRegistration(r) == ~Entered(r) /\ \A q \in Registration : q < r => Entered(q)

\* The bound on rows refuses a registration that starts, never one under way.
SpareRegistration ==
  Cardinality({w \in Worker : On(w, "register")})
    < Cardinality({r \in Registration : ~Entered(r)})

LiveIn(c, v) == {r \in Registration : /\ registration[r].candidate = c
                                      /\ registration[r].window = v
                                      /\ ~registration[r].cancelled}
Taken(v) == {r \in Registration : registration[r].window = v /\ ~registration[r].cancelled}
Attempts(c) == {r \in Registration : registration[r].candidate = c}

\* evaluateAttemptGate: a cancelled attempt is an attempt too.
AttemptAllowed(c) ==
  LET n == Cardinality(Attempts(c)) IN
  \/ n = 0
  \/ n = 1 /\ \/ AttemptPolicy = "TWO_ATTEMPTS"
              \/ /\ AttemptPolicy = "ONE_RESIT_ON_REFERRAL"
                 /\ \A r \in Attempts(c) : sitting[r].outcome = "REFER"

\* mutant: the partial index was never created
IndexAdmitsAll(c, v) == TRUE

\* exam_registration_one_live_per_window
IndexAdmits(c, v) == LiveIn(c, v) = {}

-----------------------------------------------------------------------------
Init ==
  /\ registration = [r \in Registration |-> NoRegistration]
  /\ fee = [r \in Registration |-> "NONE"]
  /\ sitting = [r \in Registration |-> NoSitting]
  /\ answered = [r \in Registration |-> {}]
  /\ mark = [r \in Registration |-> [q \in Question |-> "NONE"]]
  /\ issued = << >>
  /\ template = FALSE
  /\ job = [w \in Worker |-> Idle]
  /\ deaths = 0

-----------------------------------------------------------------------------
(* Registration and its fee.                                               *)

\* registerForExam checks room, live registrations and attempts ...
FindPlace(w, c, v) ==
  /\ On(w, "idle")
  /\ Cardinality(Taken(v)) < Capacity[v]
  /\ LiveIn(c, v) = {}
  /\ AttemptAllowed(c)
  /\ SpareRegistration
  /\ job' = [job EXCEPT ![w] =
       [Idle EXCEPT !.pc = "register", !.candidate = c, !.window = v]]
  /\ UNCHANGED <<entry, sitting, paper, credentials, deaths>>

\* ... and then creates registration and payment, whatever was created since; only
\* the unique index can still refuse.
RegisterForExam(w) ==
  /\ On(w, "register")
  /\ LET c == job[w].candidate
         v == job[w].window
     IN IF IndexAdmits(c, v)
        THEN \E r \in Registration :
               /\ NextRegistration(r)
               /\ registration' = [registration EXCEPT ![r] =
                    [NoRegistration EXCEPT !.candidate = c, !.window = v]]
               /\ fee' = [fee EXCEPT ![r] = "PENDING"]
               /\ job' = [job EXCEPT ![w] = [Idle EXCEPT !.pc = "checkout", !.reg = r]]
        ELSE Ends(w) /\ UNCHANGED entry
  /\ UNCHANGED <<sitting, paper, credentials, deaths>>

\* The provider's checkout opens, or throws: the payment is marked FAILED by id, the
\* registration stays, and with it the attempt.
OpenCheckout(w) ==
  /\ On(w, "checkout")
  /\ Ends(w)
  /\ UNCHANGED <<entry, sitting, paper, credentials, deaths>>

CheckoutFailed(w) ==
  /\ On(w, "checkout")
  /\ fee' = [fee EXCEPT ![job[w].reg] = "FAILED"]
  /\ Ends(w)
  /\ UNCHANGED <<registration, sitting, paper, credentials, deaths>>

\* confirmPayment of the examination fee (ConfirmExamFee of Enrolments), and the
\* provider's notice that it was declined.
FeeConfirmed(r) ==
  /\ fee[r] \in {"PENDING", "FAILED"}
  /\ fee' = [fee EXCEPT ![r] = "SUCCESS"]
  /\ UNCHANGED <<registration, sitting, paper, credentials, job, deaths>>

FeeDeclined(r) ==
  /\ fee[r] = "PENDING"
  /\ fee' = [fee EXCEPT ![r] = "FAILED"]
  /\ UNCHANGED <<registration, sitting, paper, credentials, job, deaths>>

-----------------------------------------------------------------------------
(* The sitting.                                                            *)

\* startSitting: a registration that has a sitting gets that one back.
FindToStart(w, r) ==
  /\ On(w, "idle")
  /\ Entered(r)
  /\ ~registration[r].cancelled
  /\ sitting[r].state = "NONE"
  /\ fee[r] = "SUCCESS"
  /\ job' = [job EXCEPT ![w] = [Idle EXCEPT !.pc = "start", !.reg = r]]
  /\ UNCHANGED <<entry, sitting, paper, credentials, deaths>>

\* mutant: started again, whatever is there
StartedAgain(r) == [NoSitting EXCEPT !.state = "IN_PROGRESS"]

\* Two starts race on the unique registrationId; the loser returns the winner's row.
Started(r) == IF sitting[r].state = "NONE"
              THEN [NoSitting EXCEPT !.state = "IN_PROGRESS"] ELSE sitting[r]

StartSitting(w) ==
  /\ On(w, "start")
  /\ sitting' = [sitting EXCEPT ![job[w].reg] = Started(job[w].reg)]
  /\ Ends(w)
  /\ UNCHANGED <<entry, paper, credentials, deaths>>

\* The server's clock passes expiresAt; of a sitting that is over nobody asks it.
TimeRunsOut(r) ==
  /\ sitting[r].state = "IN_PROGRESS"
  /\ ~sitting[r].overdue
  /\ sitting' = [sitting EXCEPT ![r].overdue = TRUE]
  /\ UNCHANGED <<entry, paper, credentials, job, deaths>>

InTime(r) == sitting[r].state = "IN_PROGRESS" /\ ~sitting[r].overdue

\* saveSittingAnswer: state and clock are read, then the answer is written.  Saving
\* it again changes what it says, which is nothing here.
FindToSave(w, r, q) ==
  /\ On(w, "idle")
  /\ InTime(r)
  /\ q \notin answered[r]
  /\ job' = [job EXCEPT ![w] = [Idle EXCEPT !.pc = "save", !.reg = r, !.question = q]]
  /\ UNCHANGED <<entry, sitting, paper, credentials, deaths>>

SaveSittingAnswer(w) ==
  /\ On(w, "save")
  /\ answered' = [answered EXCEPT ![job[w].reg] = @ \cup {job[w].question}]
  /\ Ends(w)
  /\ UNCHANGED <<entry, sitting, mark, credentials, deaths>>

\* submitSitting, forfeitSitting and expireOneSitting each open a transaction with
\* a read of the sitting and its answers.  The sweep and the candidate's own page
\* expire only what is overdue.
FindSitting(w, r, pc) ==
  /\ On(w, "idle")
  /\ job' = [job EXCEPT ![w] =
       [Idle EXCEPT !.pc = pc, !.reg = r, !.answers = answered[r]]]
  /\ UNCHANGED <<entry, sitting, paper, credentials, deaths>>

FindToSubmit(w, r) == InTime(r) /\ FindSitting(w, r, "submit")

FindToForfeit(w, r) == sitting[r].state = "IN_PROGRESS" /\ FindSitting(w, r, "forfeit")

\* mutant: the sweep looks for papers with something on them
FindToExpireAnswered(w, r) ==
  /\ sitting[r].state = "IN_PROGRESS" /\ sitting[r].overdue
  /\ answered[r] # {}
  /\ FindSitting(w, r, "expire")

FindToExpire(w, r) ==
  /\ sitting[r].state = "IN_PROGRESS" /\ sitting[r].overdue
  /\ FindSitting(w, r, "expire")

\* Written answers that were read and have no Mark yet enter the marking queue.
Queued(r, answers) ==
  [mark EXCEPT ![r] = [q \in Question |->
     IF q \in answers /\ mark[r][q] = "NONE" THEN "AWAITING" ELSE mark[r][q]]]

\* The write: by id, the row's state then being what it may.
SubmitSitting(w) ==
  /\ On(w, "submit")
  /\ sitting' = [sitting EXCEPT ![job[w].reg].state = "SUBMITTED"]
  /\ mark' = Queued(job[w].reg, job[w].answers)
  /\ Ends(w)
  /\ UNCHANGED <<entry, answered, credentials, deaths>>

ForfeitSitting(w) ==
  /\ On(w, "forfeit")
  /\ sitting' = [sitting EXCEPT ![job[w].reg].state = "FORFEITED"]
  /\ registration' = [registration EXCEPT ![job[w].reg].cancelled = TRUE]
  /\ Ends(w)
  /\ UNCHANGED <<fee, paper, credentials, deaths>>

ExpireSitting(w) ==
  /\ On(w, "expire")
  /\ sitting' = [sitting EXCEPT ![job[w].reg].state = "EXPIRED"]
  /\ mark' = Queued(job[w].reg, job[w].answers)
  /\ Ends(w)
  /\ UNCHANGED <<entry, answered, credentials, deaths>>

-----------------------------------------------------------------------------
(* Marking, conduct review, release.                                       *)

\* returnMark; that the mark was claimed before, or was not, changes nothing here.
ReturnMark(r, q) ==
  /\ mark[r][q] = "AWAITING"
  /\ mark' = [mark EXCEPT ![r][q] = "RETURNED"]
  /\ UNCHANGED <<entry, sitting, answered, credentials, job, deaths>>

\* clearSitting and referSitting ask for a finding, not for a state.  PENDING and
\* CLEARED are told apart nowhere: a sitting is with the panel, or it is not.
ReviewSitting(r) ==
  /\ sitting[r].state # "NONE"
  /\ sitting' = [sitting EXCEPT ![r].referred = ~@]
  /\ UNCHANGED <<entry, paper, credentials, job, deaths>>

\* releaseResults reads a window's submitted sittings with their answers, leaving
\* out those referred to the panel ...
ReadWindow(w, v) ==
  LET ready == {r \in Registration : /\ registration[r].window = v
                                     /\ sitting[r].state = "SUBMITTED"
                                     /\ ~sitting[r].referred}
  IN /\ On(w, "idle")
     /\ ready # {}
     /\ job' = [job EXCEPT ![w] =
          [Idle EXCEPT !.pc = "release",
                       !.todo = {[reg |-> r, answers |-> answered[r]] : r \in ready}]]
     /\ UNCHANGED <<entry, sitting, paper, credentials, deaths>>

\* mutant: a mark is a mark
MarkedByAnyone(r, answers) == \A q \in answers : mark[r][q] # "NONE"

\* Every written answer that was read has its mark, and it has been returned.
Marked(r, answers) == \A q \in answers : mark[r][q] = "RETURNED"

\* mutant: the certificate is asked for without the sitting
AfterItemUnnamed(w, item, outcome) ==
  LET rest == job[w].todo \ {item} IN
  IF outcome = "PASS" THEN [job[w] EXCEPT !.pc = "certify", !.todo = rest]
  ELSE IF rest = {} THEN Idle ELSE [job[w] EXCEPT !.todo = rest]

\* Where a release stands once a sitting is dealt with.
AfterItem(w, item, outcome) ==
  LET rest == job[w].todo \ {item} IN
  IF outcome = "PASS" THEN [job[w] EXCEPT !.pc = "certify", !.reg = item.reg, !.todo = rest]
  ELSE IF rest = {} THEN Idle ELSE [job[w] EXCEPT !.todo = rest]

\* ... and goes through them: one with marks outstanding waits for another pass,
\* the others are released, by id; the percentage decides between the outcomes.
\* Marks are read as each sitting comes up; a returned one stays returned, so that
\* the check and the write can be one step.
SkipSitting(w, item) ==
  /\ On(w, "release")
  /\ ~Marked(item.reg, item.answers)
  /\ job' = [job EXCEPT ![w] = AfterItem(w, item, "NONE")]
  /\ UNCHANGED <<entry, sitting, paper, credentials, deaths>>

ReleaseSitting(w, item, outcome) ==
  /\ On(w, "release")
  /\ Marked(item.reg, item.answers)
  /\ sitting' = [sitting EXCEPT ![item.reg] =
       [@ EXCEPT !.state = "RELEASED", !.outcome = outcome]]
  /\ job' = [job EXCEPT ![w] = AfterItem(w, item, outcome)]
  /\ UNCHANGED <<entry, paper, credentials, deaths>>

\* mutant: the caller's word is taken that the sitting was passed
IssuableToCaller(r) == template /\ ~Contains(issued, r)

\* issueCertificate, under the lock of the sitting: what is on record now counts.
Issuable(r) == /\ template
               /\ sitting[r].outcome = "PASS"
               /\ ~Contains(issued, r)

\* A sitting that has its certificate keeps it; without a template, or with a result
\* recorded otherwise meanwhile, the call throws and the rest of the release is lost.
CertifySitting(w) ==
  /\ On(w, "certify")
  /\ LET r == job[w].reg
         on == IF job[w].todo = {} THEN Idle
               ELSE [job[w] EXCEPT !.pc = "release", !.reg = 0]
     IN \/ /\ Issuable(r)
           /\ issued' = Append(issued, r)
           /\ job' = [job EXCEPT ![w] = on]
        \/ /\ Contains(issued, r)
           /\ issued' = issued
           /\ job' = [job EXCEPT ![w] = on]
        \/ /\ ~Issuable(r) /\ ~Contains(issued, r)
           /\ issued' = issued
           /\ Ends(w)
  /\ UNCHANGED <<entry, sitting, paper, template, deaths>>

\* bulkIssueCertificatesForWindow catches up, one sitting at a time: a failure of one
\* does not stop the others.
FindUncertified(w, r) ==
  /\ On(w, "idle")
  /\ sitting[r].state = "RELEASED"
  /\ sitting[r].outcome = "PASS"
  /\ ~Contains(issued, r)
  /\ job' = [job EXCEPT ![w] = [Idle EXCEPT !.pc = "certify", !.reg = r]]
  /\ UNCHANGED <<entry, sitting, paper, credentials, deaths>>

ActivateTemplate ==
  /\ ~template
  /\ template' = TRUE
  /\ UNCHANGED <<entry, sitting, paper, issued, job, deaths>>

-----------------------------------------------------------------------------
\* The server stops, a query fails, a transaction is rolled back.
RequestDies(w) ==
  /\ ~On(w, "idle")
  /\ deaths < MaxDeaths
  /\ deaths' = deaths + 1
  /\ Ends(w)
  /\ UNCHANGED <<entry, sitting, paper, credentials>>

Arrive(w) ==
  \/ \E c \in Candidate, v \in Window : FindPlace(w, c, v)
  \/ \E r \in Registration :
       \/ FindToStart(w, r) \/ FindToSubmit(w, r) \/ FindToForfeit(w, r)
       \/ FindToExpire(w, r) \/ FindUncertified(w, r)
       \/ \E q \in Question : FindToSave(w, r, q)
  \/ \E v \in Window : ReadWindow(w, v)

Proceed(w) ==
  \/ RegisterForExam(w) \/ OpenCheckout(w) \/ CheckoutFailed(w)
  \/ StartSitting(w) \/ SaveSittingAnswer(w)
  \/ SubmitSitting(w) \/ ForfeitSitting(w) \/ ExpireSitting(w)
  \/ \E item \in job[w].todo :
       \/ SkipSitting(w, item)
       \/ \E outcome \in {"PASS", "REFER"} : ReleaseSitting(w, item, outcome)
  \/ CertifySitting(w)

Next ==
  \/ \E r \in Registration :
       \/ FeeConfirmed(r) \/ FeeDeclined(r) \/ TimeRunsOut(r)
       \/ ReviewSitting(r)
       \/ \E q \in Question : ReturnMark(r, q)
  \/ ActivateTemplate
  \/ \E w \in Worker : Arrive(w) \/ Proceed(w) \/ RequestDies(w)

Spec == Init /\ [][Next]_vars

\* Time passes, and requests under way finish.
Fairness ==
  /\ \A w \in Worker : WF_vars(Proceed(w))
  /\ \A r \in Registration : WF_vars(TimeRunsOut(r))

\* An assumption on the deployment: something outside calls api/cron/expire-sittings
\* again and again.  No configuration or code of the repository does; docs/ARCHITECTURE.md
\* has it hourly, on "the deploy target's cron".  Strong fairness because the model's
\* workers are few, while the server takes every call.
SweepIsScheduled ==
  \A r \in Registration : SF_vars(\E w \in Worker : FindToExpire(w, r))

FairSpec == Spec /\ Fairness /\ SweepIsScheduled

-----------------------------------------------------------------------------
SittingRow == [state : SittingState, overdue : BOOLEAN,
               referred : BOOLEAN,
               outcome : {"NONE", "PASS", "REFER"}]
RegistrationRow == [candidate : Candidate \cup {Null}, window : Window \cup {Null},
                    cancelled : BOOLEAN]
Item == [reg : Registration, answers : SUBSET Question]
Job == [pc : {"idle", "register", "checkout", "start", "save", "submit", "forfeit",
              "expire", "release", "certify"},
        reg : {0} \cup Registration, candidate : Candidate \cup {Null},
        window : Window \cup {Null}, question : Question \cup {Null},
        answers : SUBSET Question, todo : SUBSET Item]

\* Type correctness: every row is one the schema admits; a sitting belongs to a
\* registration; a request under way names what it is about to write.
TypeOK ==
  /\ registration \in [Registration -> RegistrationRow]
  /\ fee \in [Registration -> {"NONE", "PENDING", "SUCCESS", "FAILED"}]
  /\ sitting \in [Registration -> SittingRow]
  /\ answered \in [Registration -> SUBSET Question]
  /\ mark \in [Registration -> [Question -> {"NONE", "AWAITING", "RETURNED"}]]
  /\ issued \in Seq(Registration)
  /\ template \in BOOLEAN
  /\ job \in [Worker -> Job]
  /\ \A r \in Registration : sitting[r].state # "NONE" => Entered(r)
  /\ \A w \in Worker :
       /\ job[w].pc = "register" => job[w].candidate # Null /\ job[w].window # Null
       /\ job[w].pc \in {"checkout", "start", "save", "submit", "forfeit", "expire",
                         "certify"} => job[w].reg \in Registration
       /\ job[w].pc = "save" => job[w].question \in Question
  /\ deaths \in Nat

\* A candidate is registered once for a window, whatever registrations race between
\* the checks and the insert; the fee would be taken twice.
OneLiveRegistration ==
  \A q, r \in Registration :
    /\ Entered(q) /\ Entered(r)
    /\ ~registration[q].cancelled /\ ~registration[r].cancelled
    /\ registration[q].candidate = registration[r].candidate
    /\ registration[q].window = registration[r].window
    => q = r

\* Nobody is given back the clock: a paper that was submitted, forfeited, expired or
\* released is never in progress again, however late a second start arrives.
NeverReopened ==
  [][\A r \in Registration :
       sitting[r].state \notin {"NONE", "IN_PROGRESS"} =>
         sitting'[r].state # "IN_PROGRESS"]_vars

\* No candidate reads a result while a marker still has an answer of theirs: not even
\* when submission, expiry and two releases of the window cross.
ReleasedIsMarked ==
  \A r \in Registration : sitting[r].state = "RELEASED" =>
    \A q \in Question : mark[r][q] # "AWAITING"

\* Every sitting comes to an end by itself, whether or not the candidate's browser is
\* ever heard of again and whichever request dies, in a deployment that schedules the
\* sweep (SweepIsScheduled): in one that does not, an abandoned sitting stays open.
SittingsEnd ==
  \A r \in Registration :
    (sitting[r].state = "IN_PROGRESS") ~> (sitting[r].state # "IN_PROGRESS")

\* Certificates as Certificates promises them: each for a sitting whose result on
\* record is a pass at that moment, once per sitting, under a fresh number.
CertificateOf(k) ==
  IF k <= Len(issued)
  THEN [status |-> "ACTIVE", holder |-> registration[issued[k]].candidate,
        sitting |-> issued[k], replaces |-> 0, supersededBy |-> 0]
  ELSE [status |-> "NONE", holder |-> Null, sitting |-> Null, replaces |-> 0,
        supersededBy |-> 0]
Passed == [r \in Registration |-> IF sitting[r].outcome = "PASS"
                                  THEN registration[r].candidate ELSE Null]

Certs == INSTANCE Certificates WITH
           Holder <- Candidate, Course <- {}, Sitting <- Registration,
           MaxCertificates <- MaxRegistrations,
           cert <- [k \in Registration |-> CertificateOf(k)],
           passed <- Passed,
           job <- [w \in Worker |-> [pc |-> "idle", cert |-> 0, holder |-> Null,
                                     status |-> "NONE"]]

CertificatesAsPromised == Certs!Spec

=============================================================================
