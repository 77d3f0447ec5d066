------------------------ MODULE CandidateAccess_proofs ------------------------
(***************************************************************************)
(* Theorems of CandidateAccess, for any number of codes, sessions,         *)
(* sittings and requests in flight: type correctness, the single use of a  *)
(* code, and the finality of its use and of a session's revocation.        *)
(***************************************************************************)
EXTENDS CandidateAccess, FiniteSetTheorems, TLAPS

\* Codes are sent in the order of their numbers.
InOrder == \E n \in Nat : Sent = 1 .. n

\* A request that holds a consumed code.
Holds(j) == j.pc \in {"account", "password"}

\* What a request under way relies on.
JobTied(j) ==
  /\ j.pc \in {"verify", "consume"} => j.code \in Code /\ code[j.code].state # "NONE"
  /\ Holds(j) => j.code \in Code /\ code[j.code].state = "GONE" /\ spent[j.code] = 0
  /\ j.pc \in {"carve", "admit"} => j.session \in Session /\ session[j.session].made
  /\ \A c \in j.doomed : code[c].state # "NONE"

\* One request at most holds a code it has consumed.
OneHolder ==
  \A v, w \in Worker : Holds(job[v]) /\ Holds(job[w]) /\ job[v].code = job[w].code => v = w

JobsInv == (\A w \in Worker : JobTied(job[w])) /\ OneHolder
\* What a code was used for, it was deleted for.
SpentIsGone == \A c \in Code : spent[c] > 0 => code[c].state = "GONE"

Inv == TypeOK /\ CodeUsedOnce /\ SpentIsGone /\ InOrder /\ JobsInv

\* The actions of GoneIsFinal and RevokedIsFinal.
StaysGone == \A c \in Code : code[c].state = "GONE" => code'[c].state = "GONE"
StaysRevoked == \A s \in Session : session[s].revoked => session'[s].revoked
Finality == StaysGone /\ StaysRevoked

-----------------------------------------------------------------------------
LEMMA Empties == /\ NoCode \in CodeRow /\ NoCode.state = "NONE"
                 /\ NoSession \in SessionRow /\ ~NoSession.revoked /\ ~NoSession.made
                 /\ Idle \in Job /\ Idle.pc = "idle" /\ Idle.doomed = {}
BY DEF NoCode, NoSession, Idle, CodeRow, SessionRow, Job, Purpose

LEMMA IdleIsTied == JobTied(Idle)
BY Empties DEF JobTied, Holds

\* The next number is that of a code never sent.
LEMMA NextIsFresh ==
  ASSUME InOrder
  PROVE  /\ Following(Sent) \in Nat /\ Following(Sent) \notin Sent
         /\ Sent \cup {Following(Sent)} = 1 .. Following(Sent)
<1>1. PICK n \in Nat : Sent = 1 .. n
  BY DEF InOrder
<1>2. Cardinality(1 .. n) = n
  BY FS_Interval
<1>3. Following(Sent) = n + 1
  BY <1>1, <1>2 DEF Following
<1> QED BY <1>1, <1>3

LEMMA InitInv == Init => Inv
<1> SUFFICES ASSUME Init PROVE Inv
  OBVIOUS
<1>1. /\ code = [c \in Code |-> NoCode]
      /\ spent = [c \in Code |-> 0]
      /\ session = [s \in Session |-> NoSession]
      /\ sitting = [k \in Sitting |-> "NONE"]
      /\ job = [w \in Worker |-> Idle]
      /\ account = "NONE"
  BY DEF Init
<1>2. TypeOK /\ CodeUsedOnce /\ SpentIsGone
  BY <1>1, Empties DEF TypeOK, CodeUsedOnce, SpentIsGone
<1>3. InOrder
  <2>1. Sent = 1 .. 0
    BY <1>1, Empties DEF Sent
  <2> QED BY <2>1 DEF InOrder
<1>4. JobsInv
  BY <1>1, Empties, IdleIsTied DEF JobsInv, OneHolder, Holds
<1> QED BY <1>2, <1>3, <1>4 DEF Inv

LEMMA JobIsTyped == ASSUME TypeOK, NEW w \in Worker PROVE job[w] \in Job
BY DEF TypeOK

LEMMA JobsTyped ==
  ASSUME TypeOK, NEW w \in Worker, NEW j \in Job, job' = [job EXCEPT ![w] = j]
  PROVE  /\ job' \in [Worker -> Job]
         /\ job'[w] = j
         /\ \A v \in Worker : v # w => job'[v] = job[v]
BY DEF TypeOK

-----------------------------------------------------------------------------
(* What a step may do to the rows.                                         *)

\* A code is sent once, one that is gone stays gone, and what was made with one is
\* kept count of.
CodesKept ==
  /\ code' \in [Code -> CodeRow] /\ spent' \in [Code -> Nat]
  /\ \A c \in Code : code[c].state # "NONE" => code'[c].state # "NONE"
  /\ StaysGone
  /\ \A c \in Code : spent'[c] <= 1 /\ (spent'[c] > 0 => code'[c].state = "GONE")
  /\ InOrder'

\* A session once made, and once revoked, stays so.
SessionsKept ==
  /\ session' \in [Session -> SessionRow]
  /\ \A s \in Session : session[s].made => session'[s].made
  /\ \A s \in Session : session'[s].made \/ session'[s] = NoSession
  /\ StaysRevoked

SittingsKept == sitting' \in [Sitting -> {"NONE", "IN_PROGRESS", "OVER"}]

LEMMA CodesSame == ASSUME Inv, UNCHANGED <<code, spent>> PROVE CodesKept
BY DEF Inv, TypeOK, CodeUsedOnce, SpentIsGone, CodesKept, StaysGone, InOrder, Sent

LEMMA SessionsSame == ASSUME Inv, UNCHANGED session PROVE SessionsKept
BY DEF Inv, TypeOK, SessionsKept, StaysRevoked

LEMMA SittingsSame == ASSUME Inv, UNCHANGED sitting PROVE SittingsKept
BY DEF Inv, TypeOK, SittingsKept

\* What a request relies on is kept as long as nobody else spends its code.
LEMMA TiedStays ==
  ASSUME Inv, CodesKept, SessionsKept, SittingsKept, NEW j \in Job, JobTied(j),
         Holds(j) => spent'[j.code] = spent[j.code]
  PROVE  JobTied(j)'
<1>1. j.doomed \subseteq Code
  BY DEF Job
<1> QED BY <1>1 DEF JobTied, Holds, CodesKept, StaysGone, SessionsKept

\* A step that touches no job.
LEMMA SparesJobs ==
  ASSUME Inv, CodesKept, SessionsKept, SittingsKept,
         account' \in {"NONE", "ACTIVE", "SUSPENDED"}, UNCHANGED <<job, spent>>
  PROVE  Inv'
<1>1. ASSUME NEW w \in Worker PROVE JobTied(job[w])'
  <2>1. job[w] \in Job /\ JobTied(job[w])
    BY DEF Inv, JobsInv, TypeOK
  <2>2. JobTied(job[w])' <=> (\E j \in Job : j = job[w] /\ JobTied(j)')
    BY <2>1 DEF JobTied, Holds
  <2> QED BY <2>1, <2>2, TiedStays
<1>2. JobsInv'
  BY <1>1 DEF Inv, JobsInv, OneHolder, Holds
<1>3. TypeOK' /\ CodeUsedOnce' /\ SpentIsGone' /\ InOrder'
  BY DEF Inv, TypeOK, CodesKept, SessionsKept, SittingsKept, CodeUsedOnce, SpentIsGone
<1> QED BY <1>2, <1>3 DEF Inv

\* A step of a request.
LEMMA GivesJob ==
  ASSUME Inv, CodesKept, SessionsKept, SittingsKept,
         account' \in {"NONE", "ACTIVE", "SUSPENDED"},
         NEW w \in Worker, NEW j \in Job, job' = [job EXCEPT ![w] = j],
         JobTied(j)',
         \A v \in Worker : v # w /\ Holds(job[v]) =>
           /\ spent'[job[v].code] = spent[job[v].code]
           /\ Holds(j) => job[v].code # j.code
  PROVE  Inv'
<1>1. /\ job' \in [Worker -> Job] /\ job'[w] = j
      /\ \A v \in Worker : v # w => job'[v] = job[v]
  BY JobsTyped DEF Inv
<1>2. ASSUME NEW v \in Worker PROVE JobTied(job[v])'
  <2>1. CASE v = w
    BY <1>1, <2>1 DEF JobTied, Holds
  <2>2. CASE v # w
    <3>1. PICK i \in Job : i = job[v]
      BY DEF Inv, TypeOK
    <3>2. JobTied(i)'
      BY <2>2, <3>1, TiedStays DEF Inv, JobsInv
    <3> QED BY <1>1, <2>2, <3>1, <3>2 DEF JobTied, Holds
  <2> QED BY <2>1, <2>2
<1>3. OneHolder'
  BY <1>1 DEF Inv, JobsInv, OneHolder, Holds
<1>4. TypeOK' /\ CodeUsedOnce' /\ SpentIsGone' /\ InOrder'
  BY <1>1 DEF Inv, TypeOK, CodesKept, SessionsKept, SittingsKept, CodeUsedOnce, SpentIsGone
<1> QED BY <1>2, <1>3, <1>4 DEF Inv, JobsInv

\* A step of a request that only takes up its next job.
LEMMA Takes ==
  ASSUME Inv, UNCHANGED <<account, code, spent, session, sitting>>,
         NEW w \in Worker, NEW j \in Job, job' = [job EXCEPT ![w] = j],
         JobTied(j), ~Holds(j)
  PROVE  Inv' /\ Finality
<1>1. CodesKept /\ SessionsKept /\ SittingsKept
  BY CodesSame, SessionsSame, SittingsSame
<1>2. JobTied(j)'
  BY <1>1, TiedStays
<1>3. account' \in {"NONE", "ACTIVE", "SUSPENDED"}
  BY DEF Inv, TypeOK
<1> QED BY <1>1, <1>2, <1>3, GivesJob DEF Finality, CodesKept, SessionsKept

\* A step of a request that writes the account or its sessions.
LEMMA Writes ==
  ASSUME Inv, UNCHANGED <<code, spent, sitting>>, SessionsKept,
         account' \in {"NONE", "ACTIVE", "SUSPENDED"},
         NEW w \in Worker, NEW j \in Job, job' = [job EXCEPT ![w] = j],
         JobTied(j), ~Holds(j)
  PROVE  Inv' /\ Finality
<1>1. CodesKept /\ SittingsKept
  BY CodesSame, SittingsSame
<1>2. JobTied(j)'
  BY <1>1, TiedStays
<1> QED BY <1>1, <1>2, GivesJob DEF Finality, CodesKept, SessionsKept

\* A job that only moves on to a step that relies on nothing.
LEMMA MovesOn ==
  ASSUME Inv, NEW w \in Worker, NEW pc \in {"send", "revoke", "session", "admit"}
  PROVE  /\ [job[w] EXCEPT !.pc = pc] \in Job
         /\ [job[w] EXCEPT !.pc = pc].pc = pc
         /\ [job[w] EXCEPT !.pc = pc].code = job[w].code
         /\ [job[w] EXCEPT !.pc = pc].session = job[w].session
         /\ [job[w] EXCEPT !.pc = pc].doomed = job[w].doomed
BY JobIsTyped DEF Inv, Job

LEMMA CreationKeeps == ASSUME Inv, NEW cookie \in {"browser", "day"}, CreateSessionRecord(cookie)
                         PROVE SessionsKept
<1>1. session \in [Session -> SessionRow]
  BY DEF Inv, TypeOK
<1>2. CASE Made = Session
  BY <1>2, SessionsSame DEF CreateSessionRecord
<1>3. CASE Made # Session
  <2>1. PICK n : n = Following(Made)
    OBVIOUS
  <2>2. session' = [session EXCEPT ![n].made = TRUE, ![n].cookie = cookie]
    BY <1>3, <2>1 DEF CreateSessionRecord
  <2>3. CASE n \in Session
    <3>1. PICK r : r = [session[n] EXCEPT !.made = TRUE, !.cookie = cookie]
      OBVIOUS
    <3>2. r \in SessionRow /\ r.made = TRUE /\ r.revoked = session[n].revoked
      BY <1>1, <2>3, <3>1 DEF SessionRow
    <3>3. session' = [session EXCEPT ![n] = r]
      BY <1>1, <2>2, <2>3, <3>1
    <3> QED BY <1>1, <2>3, <3>2, <3>3 DEF SessionsKept, StaysRevoked, Inv, TypeOK
  <2>4. CASE n \notin Session
    <3>1. session' = session
      BY <1>1, <2>2, <2>4
    <3> QED BY <3>1, SessionsSame
  <2> QED BY <2>3, <2>4
<1> QED BY <1>2, <1>3

LEMMA RevocationKeeps == ASSUME Inv, RevokeAllSessions PROVE SessionsKept
<1>1. ASSUME NEW s \in Session
      PROVE  /\ session'[s] \in SessionRow /\ session'[s].made = session[s].made
             /\ session'[s].revoked = session[s].made
             /\ ~session[s].made => session'[s] = NoSession
  <2>1. session[s] \in SessionRow
    BY DEF Inv, TypeOK
  <2>2. PICK r : r = [session[s] EXCEPT !.revoked = session[s].made]
    OBVIOUS
  <2>3. session'[s] = r
    BY <2>2 DEF RevokeAllSessions
  <2>4. r \in SessionRow /\ r.made = session[s].made /\ r.revoked = session[s].made
    BY <2>1, <2>2 DEF SessionRow
  <2>5. ASSUME ~session[s].made PROVE r = NoSession
    <3>1. session[s] = NoSession
      BY <2>5 DEF Inv, TypeOK
    <3>2. NoSession.made = NoSession.revoked
      BY DEF NoSession
    <3>3. PICK n \in SessionRow : n = NoSession
      BY Empties
    <3>4. [n EXCEPT !.revoked = n.revoked] = n
      BY DEF SessionRow
    <3>5. r = [n EXCEPT !.revoked = n.revoked]
      BY <2>2, <3>1, <3>2, <3>3
    <3> QED BY <3>3, <3>4, <3>5
  <2> QED BY <2>3, <2>4, <2>5
<1>2. ASSUME NEW s \in Session, session[s].revoked PROVE session[s].made
  <2>1. session[s].made \/ session[s] = NoSession
    BY DEF Inv, TypeOK
  <2> QED BY <1>2, <2>1, Empties
<1>3. session' = [s \in Session |-> session'[s]]
  BY DEF RevokeAllSessions
<1> QED BY <1>1, <1>2, <1>3 DEF SessionsKept, StaysRevoked

-----------------------------------------------------------------------------
(* One-time codes.                                                         *)

LEMMA RequestStep ==
  ASSUME Inv, NEW w \in Worker, NEW p \in Purpose, RequestCode(w, p)
  PROVE  Inv' /\ Finality
<1>1. PICK j : j = [Idle EXCEPT !.pc = "request", !.purpose = p]
  OBVIOUS
<1>2. j \in Job /\ j.pc = "request" /\ j.doomed = {}
  BY <1>1, Empties DEF Idle, Job
<1>3. JobTied(j) /\ ~Holds(j)
  BY <1>2 DEF JobTied, Holds
<1> QED BY <1>1, <1>2, <1>3, Takes DEF RequestCode, Becomes, codes

LEMMA DeleteStep ==
  ASSUME Inv, NEW w \in Worker, DeleteOutstanding(w) PROVE Inv' /\ Finality
<1>1. PICK j : j = [job[w] EXCEPT !.pc = "send", !.doomed = Outstanding(job[w].purpose)]
  OBVIOUS
<1>2. job[w] \in Job /\ JobTied(job[w]) /\ Outstanding(job[w].purpose) \subseteq Code
  BY JobIsTyped DEF Inv, JobsInv, Outstanding
<1>3. /\ j \in Job /\ j.pc = "send" /\ j.doomed = Outstanding(job[w].purpose)
  BY <1>1, <1>2 DEF Job
<1>4. JobTied(j) /\ ~Holds(j)
  BY <1>2, <1>3 DEF JobTied, Holds, Outstanding
<1> QED BY <1>1, <1>3, <1>4, Takes DEF DeleteOutstanding, Becomes, codes

\* The number of the code created was not in use, and the codes deleted stay deleted.
LEMMA CreateStep ==
  ASSUME Inv, NEW w \in Worker, CreateOtpChallenge(w) PROVE Inv' /\ Finality
<1> DEFINE n == Following(Sent)
<1>1. /\ UNCHANGED <<account, spent, session, sitting>>
      /\ job' = [job EXCEPT ![w] = Idle]
      /\ code' = [c \in Code |->
           IF c = n THEN [state |-> "SENT", purpose |-> job[w].purpose]
           ELSE IF c \in job[w].doomed THEN [code[c] EXCEPT !.state = "GONE"]
           ELSE code[c]]
  BY DEF CreateOtpChallenge, Ends, Becomes
<1>2. /\ code \in [Code -> CodeRow] /\ spent \in [Code -> Nat] /\ job[w] \in Job
      /\ \A c \in Code : spent[c] > 0 => code[c].state = "GONE"
      /\ \A c \in Code : spent[c] <= 1
  BY JobIsTyped DEF Inv, TypeOK, CodeUsedOnce, SpentIsGone
<1>3. n \notin Sent /\ Sent \cup {n} = 1 .. n /\ n \in Nat
  BY NextIsFresh DEF Inv
<1>4. \A c \in job[w].doomed : code[c].state # "NONE"
  BY DEF Inv, JobsInv, JobTied
<1>5. ASSUME NEW c \in Code
      PROVE  /\ code'[c] \in CodeRow
             /\ c = n => code'[c].state = "SENT"
             /\ c # n => code'[c].state \in {code[c].state, "GONE"}
             /\ c # n /\ code[c].state = "NONE" => code'[c].state = "NONE"
  <2>1. CASE c = n
    <3>1. code'[c] = [state |-> "SENT", purpose |-> job[w].purpose]
      BY <1>1, <2>1
    <3> QED BY <1>2, <2>1, <3>1 DEF CodeRow, Job
  <2>2. CASE c # n /\ c \in job[w].doomed
    <3>1. code'[c] = [code[c] EXCEPT !.state = "GONE"]
      BY <1>1, <2>2
    <3>2. code[c] \in CodeRow /\ code[c].state # "NONE"
      BY <1>2, <1>4, <2>2
    <3>3. code'[c] \in CodeRow /\ code'[c].state = "GONE"
      BY <3>1, <3>2 DEF CodeRow
    <3> QED BY <2>2, <3>2, <3>3
  <2>3. CASE c # n /\ c \notin job[w].doomed
    BY <1>1, <1>2, <2>3
  <2> QED BY <2>1, <2>2, <2>3
<1>6. CodesKept
  <2>1. code' = [c \in Code |-> code'[c]]
    BY <1>1
  <2>2. InOrder'
    <3>1. Sent' = (Sent \cup {n}) \cap Code
      BY <1>2, <1>5 DEF Sent
    <3>2. Sent' = 1 .. n \/ Sent' = Sent
      BY <3>1, <1>3 DEF Sent
    <3> QED BY <3>2, <1>3 DEF InOrder, Inv
  <2>3. \A c \in Code : code[c].state # "NONE" => c # n
    BY <1>3 DEF Sent
  <2> QED BY <1>1, <1>2, <1>5, <2>1, <2>2, <2>3 DEF CodesKept, StaysGone
<1>7. SessionsKept /\ SittingsKept
  BY <1>1, SessionsSame, SittingsSame
<1>8. JobTied(Idle)'
  BY <1>6, <1>7, Empties, IdleIsTied, TiedStays DEF Holds
<1> QED BY <1>1, <1>6, <1>7, <1>8, Empties, GivesJob
        DEF Holds, Inv, TypeOK, Finality, CodesKept, SessionsKept

LEMMA FindVerifyStep ==
  ASSUME Inv, NEW w \in Worker, NEW p \in Purpose, FindToVerify(w, p)
  PROVE  Inv' /\ Finality
<1>1. PICK c \in Code : /\ job' = [job EXCEPT ![w] = [Idle EXCEPT !.pc = "verify", !.code = c]]
                       /\ code[c].state # "NONE"
  BY DEF FindToVerify, Latest, Outstanding, Becomes
<1>2. PICK j : j = [Idle EXCEPT !.pc = "verify", !.code = c]
  OBVIOUS
<1>3. /\ j \in Job /\ j.pc = "verify" /\ j.code \in Code
      /\ j.doomed = {} /\ code[j.code].state # "NONE"
  BY <1>1, <1>2, Empties DEF Idle, Job
<1>4. JobTied(j) /\ ~Holds(j)
  BY <1>3 DEF JobTied, Holds
<1> QED BY <1>1, <1>2, <1>3, <1>4, Takes DEF FindToVerify, codes

\* A step of a request that writes codes and goes on to a step that holds none.
LEMMA Settles ==
  ASSUME Inv, UNCHANGED <<session, sitting>>, CodesKept,
         account' \in {"NONE", "ACTIVE", "SUSPENDED"},
         NEW w \in Worker, NEW j \in Job, job' = [job EXCEPT ![w] = j],
         JobTied(j), ~Holds(j),
         \A v \in Worker : v # w /\ Holds(job[v]) => spent'[job[v].code] = spent[job[v].code]
  PROVE  Inv' /\ Finality
<1>1. SessionsKept /\ SittingsKept
  BY SessionsSame, SittingsSame
<1>2. JobTied(j)'
  BY <1>1, TiedStays
<1> QED BY <1>1, <1>2, GivesJob DEF Finality, CodesKept, SessionsKept

\* One code changes its state, from one of those that are not NONE to GONE, or to
\* another while it is not gone.
LEMMA OneCodeMoves ==
  ASSUME Inv, NEW c \in Code, NEW st \in {"VERIFIED", "GONE"},
         code[c].state = "GONE" => st = "GONE", code[c].state # "NONE",
         code' = [code EXCEPT ![c].state = st], UNCHANGED spent
  PROVE  CodesKept /\ code'[c].state = st
<1>1. code \in [Code -> CodeRow]
  BY DEF Inv, TypeOK
<1>2. PICK r : r = [code[c] EXCEPT !.state = st]
  OBVIOUS
<1>3. r \in CodeRow /\ r.state = st
  BY <1>1, <1>2 DEF CodeRow
<1>4. code' = [code EXCEPT ![c] = r]
  BY <1>1, <1>2
<1>5. InOrder'
  <2>1. Sent' = Sent
    BY <1>1, <1>3, <1>4 DEF Sent
  <2> QED BY <2>1 DEF Inv, InOrder
<1> QED BY <1>1, <1>3, <1>4, <1>5 DEF CodesKept, StaysGone, SpentIsGone, Inv, TypeOK, CodeUsedOnce

\* The code of a request that verifies or consumes it has been sent.
LEMMA VerifyStep ==
  ASSUME Inv, NEW w \in Worker, VerifyOtpChallenge(w) PROVE Inv' /\ Finality
<1> DEFINE c == job[w].code
<1>1. c \in Code /\ code[c].state # "NONE"
  BY DEF VerifyOtpChallenge, On, Inv, JobsInv, JobTied
<1>2. /\ code' = [code EXCEPT ![c].state = Marked(c)]
      /\ job' = [job EXCEPT ![w] = Idle]
      /\ UNCHANGED <<account, spent, session, sitting>>
  BY DEF VerifyOtpChallenge, Ends, Becomes
<1>3. /\ Marked(c) \in {"VERIFIED", "GONE"}
      /\ code[c].state = "GONE" => Marked(c) = "GONE"
  BY DEF Marked
<1>4. CodesKept
  BY <1>1, <1>2, <1>3, OneCodeMoves
<1> QED BY <1>2, <1>4, Empties, IdleIsTied, Settles DEF Holds, Inv, TypeOK

LEMMA FindVerifiedStep ==
  ASSUME Inv, NEW w \in Worker, NEW p \in Purpose, FindVerified(w, p)
  PROVE  Inv' /\ Finality
<1>1. PICK c \in Usable(p) :
        job' = [job EXCEPT ![w] = [Idle EXCEPT !.pc = "consume", !.purpose = p, !.code = c]]
  BY DEF FindVerified, Becomes
<1>2. c \in Code /\ code[c].state # "NONE"
  BY DEF Usable
<1>3. PICK j : j = [Idle EXCEPT !.pc = "consume", !.purpose = p, !.code = c]
  OBVIOUS
<1>4. /\ j \in Job /\ j.pc = "consume" /\ j.code = c
      /\ j.doomed = {}
  BY <1>2, <1>3, Empties DEF Idle, Job
<1>5. JobTied(j) /\ ~Holds(j)
  BY <1>2, <1>4 DEF JobTied, Holds
<1> QED BY <1>1, <1>3, <1>4, <1>5, Takes DEF FindVerified, codes

\* Whoever finds the row still there deletes it: nobody held it before, and nothing
\* was made with it.
LEMMA ConsumeStep ==
  ASSUME Inv, NEW w \in Worker, ConsumeVerifiedOtp(w) PROVE Inv' /\ Finality
<1> DEFINE c == job[w].code
<1>1. /\ job[w] \in Job /\ JobTied(job[w])
      /\ UNCHANGED <<account, spent, session, sitting>>
      /\ job[w].pc = "consume"
  BY JobIsTyped DEF ConsumeVerifiedOtp, On, Inv, JobsInv
<1>2. c \in Code /\ code[c].state # "NONE"
  BY <1>1 DEF JobTied
<1>3. CASE StillThere(c)
  <2>1. PICK pc \in {"account", "password"} :
          /\ code' = [code EXCEPT ![c].state = "GONE"]
          /\ job' = [job EXCEPT ![w] = [job[w] EXCEPT !.pc = pc]]
    BY <1>3 DEF ConsumeVerifiedOtp, Goes, Becomes
  <2>2. PICK j : j = [job[w] EXCEPT !.pc = pc]
    OBVIOUS
  <2>3. /\ j \in Job /\ j.pc = pc /\ j.code = c
        /\ j.doomed = job[w].doomed
    BY <1>1, <2>2 DEF Job
  <2>4. CodesKept /\ code'[c].state = "GONE"
    BY <1>1, <1>2, <2>1, OneCodeMoves
  <2>5. spent[c] = 0 /\ spent'[c] = 0
    BY <1>1, <1>2, <1>3 DEF StillThere, Inv, TypeOK, SpentIsGone
  <2>6. SessionsKept /\ SittingsKept
    BY <1>1, SessionsSame, SittingsSame
  <2>7. JobTied(j)'
    <3>1. \A d \in j.doomed : code'[d].state # "NONE"
      BY <1>1, <2>3, <2>4 DEF JobTied, CodesKept, Job
    <3> QED BY <1>2, <2>3, <2>4, <2>5, <3>1 DEF JobTied, Holds
  <2>8. \A v \in Worker : Holds(job[v]) => job[v].code # c
    BY <1>3 DEF StillThere, Inv, JobsInv, JobTied
  <2>9. \A v \in Worker : v # w /\ Holds(job[v]) =>
          /\ spent'[job[v].code] = spent[job[v].code]
          /\ Holds(j) => job[v].code # j.code
    BY <1>1, <2>3, <2>8
  <2>10. account' \in {"NONE", "ACTIVE", "SUSPENDED"} /\ job' = [job EXCEPT ![w] = j]
    BY <1>1, <2>1, <2>2 DEF Inv, TypeOK
  <2>11. Inv'
    BY <2>3, <2>4, <2>6, <2>7, <2>9, <2>10, GivesJob
  <2> QED BY <2>4, <2>6, <2>11 DEF Finality, CodesKept, SessionsKept
<1>4. CASE ~StillThere(c)
  <2>1. UNCHANGED code /\ job' = [job EXCEPT ![w] = Idle]
    BY <1>4 DEF ConsumeVerifiedOtp, Ends, Becomes
  <2> QED BY <1>1, <2>1, Empties, IdleIsTied, Takes DEF Holds
<1> QED BY <1>3, <1>4

\* The code a request holds is counted once: it was counted by nobody, and nobody
\* else holds it.
LEMMA SpendKeeps ==
  ASSUME Inv, NEW w \in Worker, Holds(job[w]), UNCHANGED code,
         spent' = [spent EXCEPT ![job[w].code] = @ + 1]
  PROVE  /\ CodesKept
         /\ \A v \in Worker : v # w /\ Holds(job[v]) => spent'[job[v].code] = spent[job[v].code]
<1> DEFINE c == job[w].code
<1>1. c \in Code /\ code[c].state = "GONE" /\ spent[c] = 0
  BY DEF Inv, JobsInv, JobTied
<1>2. /\ spent \in [Code -> Nat] /\ code \in [Code -> CodeRow]
      /\ \A d \in Code : spent[d] <= 1 /\ (spent[d] > 0 => code[d].state = "GONE")
  BY DEF Inv, TypeOK, CodeUsedOnce, SpentIsGone
<1>3. /\ spent' \in [Code -> Nat] /\ spent'[c] = 1
      /\ \A d \in Code : d # c => spent'[d] = spent[d]
  BY <1>1, <1>2
<1>4. InOrder'
  BY DEF Inv, InOrder, Sent
<1>5. CodesKept
  BY <1>1, <1>2, <1>3, <1>4 DEF CodesKept, StaysGone
<1>6. ASSUME NEW v \in Worker, v # w, Holds(job[v]) PROVE spent'[job[v].code] = spent[job[v].code]
  BY <1>3, <1>6 DEF Inv, JobsInv, JobTied, OneHolder
<1> QED BY <1>5, <1>6

LEMMA RegisterStep ==
  ASSUME Inv, NEW w \in Worker, RegisterCandidate(w) PROVE Inv' /\ Finality
<1>1. /\ Holds(job[w]) /\ job' = [job EXCEPT ![w] = Idle]
      /\ UNCHANGED <<code, sitting>>
  BY DEF RegisterCandidate, On, Ends, Becomes, Holds
<1>2. CASE account = "NONE"
  <2>1. account' = "ACTIVE" /\ spent' = [spent EXCEPT ![job[w].code] = @ + 1]
    BY <1>2 DEF RegisterCandidate
  <2>2. SessionsKept
    BY <1>2, CreationKeeps DEF RegisterCandidate
  <2>3. CodesKept /\ SittingsKept
    BY <1>1, <2>1, SpendKeeps, SittingsSame
  <2>4. JobTied(Idle)'
    BY <2>2, <2>3, Empties, IdleIsTied, TiedStays DEF Holds
  <2>5. \A v \in Worker : v # w /\ Holds(job[v]) => spent'[job[v].code] = spent[job[v].code]
    BY <1>1, <2>1, SpendKeeps
  <2>6. ~Holds(Idle) /\ account' \in {"NONE", "ACTIVE", "SUSPENDED"}
    BY <2>1, Empties DEF Holds
  <2>7. \A v \in Worker : v # w /\ Holds(job[v]) =>
          /\ spent'[job[v].code] = spent[job[v].code]
          /\ Holds(Idle) => job[v].code # Idle.code
    BY <2>5, <2>6
  <2>8. Inv'
    BY <1>1, <2>2, <2>3, <2>4, <2>6, <2>7, Empties, GivesJob
  <2> QED BY <2>2, <2>3, <2>8 DEF Finality, CodesKept, SessionsKept
<1>3. CASE account # "NONE"
  <2>1. UNCHANGED <<account, spent, session>>
    BY <1>3 DEF RegisterCandidate
  <2> QED BY <1>1, <2>1, Empties, IdleIsTied, Takes DEF Holds
<1> QED BY <1>2, <1>3

LEMMA PasswordStep ==
  ASSUME Inv, NEW w \in Worker, WritePassword(w) PROVE Inv' /\ Finality
<1>1. /\ Holds(job[w]) /\ UNCHANGED <<account, code, session, sitting>>
      /\ spent' = [spent EXCEPT ![job[w].code] = @ + 1]
      /\ job' = [job EXCEPT ![w] = [job[w] EXCEPT !.pc = "revoke"]]
  BY DEF WritePassword, On, Goes, Becomes, Holds
<1>2. PICK j : j = [job[w] EXCEPT !.pc = "revoke"]
  OBVIOUS
<1>3. /\ j \in Job /\ j.pc = "revoke"
      /\ j.doomed = job[w].doomed
  BY <1>2, MovesOn
<1>4. JobTied(j) /\ ~Holds(j)
  BY <1>3 DEF JobTied, Holds, Inv, JobsInv
<1>5. /\ CodesKept
      /\ \A v \in Worker : v # w /\ Holds(job[v]) => spent'[job[v].code] = spent[job[v].code]
  BY <1>1, SpendKeeps
<1> QED BY <1>1, <1>2, <1>3, <1>4, <1>5, Settles DEF Inv, TypeOK

-----------------------------------------------------------------------------
(* The account and its sessions.                                           *)

\* A request that has written the account or its sessions and ends.
LEMMA Finishes ==
  ASSUME Inv, NEW w \in Worker, UNCHANGED <<code, spent, sitting>>, SessionsKept,
         account' \in {"NONE", "ACTIVE", "SUSPENDED"}, job' = [job EXCEPT ![w] = Idle]
  PROVE  Inv' /\ Finality
BY Empties, IdleIsTied, Writes DEF Holds

LEMMA RevokeForResetStep ==
  ASSUME Inv, NEW w \in Worker, RevokeForReset(w) PROVE Inv' /\ Finality
<1>1. PICK j : j = [job[w] EXCEPT !.pc = "session"]
  OBVIOUS
<1>2. /\ j \in Job /\ j.pc = "session"
      /\ j.doomed = job[w].doomed
  BY <1>1, MovesOn
<1>3. JobTied(j) /\ ~Holds(j)
  BY <1>2 DEF JobTied, Holds, Inv, JobsInv
<1>4. /\ SessionsKept /\ UNCHANGED <<account, code, spent, sitting>>
      /\ job' = [job EXCEPT ![w] = j]
  BY <1>1, RevocationKeeps DEF RevokeForReset, Goes, Becomes, codes
<1> QED BY <1>2, <1>3, <1>4, Writes DEF Inv, TypeOK

LEMMA SessionStep ==
  ASSUME Inv, NEW w \in Worker, CreateCandidateSession(w) \/ SignInCandidate(w)
  PROVE  Inv' /\ Finality
<1>1. /\ SessionsKept /\ UNCHANGED <<account, code, spent, sitting>>
      /\ job' = [job EXCEPT ![w] = Idle]
  BY CreationKeeps DEF CreateCandidateSession, SignInCandidate, Ends, Becomes, codes
<1> QED BY <1>1, Finishes DEF Inv, TypeOK

LEMMA FindSignInStep ==
  ASSUME Inv, NEW w \in Worker, FindToSignIn(w) \/ GoogleCallback(w) PROVE Inv' /\ Finality
<1>1. PICK j : /\ j \in {[Idle EXCEPT !.pc = "signin"], [Idle EXCEPT !.pc = "session"]}
               /\ job' = [job EXCEPT ![w] = j]
  BY DEF FindToSignIn, GoogleCallback, Becomes
<1>2. j \in Job /\ j.pc \in {"signin", "session"} /\ j.doomed = {}
  BY <1>1, Empties DEF Idle, Job
<1>3. JobTied(j) /\ ~Holds(j)
  BY <1>2 DEF JobTied, Holds
<1>4. /\ UNCHANGED <<code, spent, session, sitting>>
      /\ account' \in {"NONE", "ACTIVE", "SUSPENDED"}
  BY DEF FindToSignIn, GoogleCallback, codes, Inv, TypeOK
<1>5. SessionsKept
  BY <1>4, SessionsSame
<1> QED BY <1>1, <1>2, <1>3, <1>4, <1>5, Writes

LEMMA SuspendStep ==
  ASSUME Inv, NEW w \in Worker, SuspendCandidate(w) \/ FindToReactivate(w)
  PROVE  Inv' /\ Finality
<1>1. PICK j : /\ j \in {[Idle EXCEPT !.pc = "end"], [Idle EXCEPT !.pc = "reactivate"]}
               /\ job' = [job EXCEPT ![w] = j]
  BY DEF SuspendCandidate, FindToReactivate, Becomes
<1>2. j \in Job /\ j.pc \in {"end", "reactivate"} /\ j.doomed = {}
  BY <1>1, Empties DEF Idle, Job
<1>3. JobTied(j) /\ ~Holds(j)
  BY <1>2 DEF JobTied, Holds
<1>4. /\ UNCHANGED <<code, spent, session, sitting>>
      /\ account' \in {"NONE", "ACTIVE", "SUSPENDED"}
  BY DEF SuspendCandidate, FindToReactivate, codes, Inv, TypeOK
<1>5. SessionsKept
  BY <1>4, SessionsSame
<1> QED BY <1>1, <1>2, <1>3, <1>4, <1>5, Writes

LEMMA EndSessionsStep ==
  ASSUME Inv, NEW w \in Worker, EndSessions(w) PROVE Inv' /\ Finality
<1>1. /\ SessionsKept /\ UNCHANGED <<account, code, spent, sitting>>
      /\ job' = [job EXCEPT ![w] = Idle]
  BY RevocationKeeps DEF EndSessions, Ends, Becomes, codes
<1> QED BY <1>1, Finishes DEF Inv, TypeOK

LEMMA ReactivateStep ==
  ASSUME Inv, NEW w \in Worker, ReactivateCandidate(w) PROVE Inv' /\ Finality
<1>1. /\ UNCHANGED <<code, spent, session, sitting>> /\ account' = "ACTIVE"
      /\ job' = [job EXCEPT ![w] = Idle]
  BY DEF ReactivateCandidate, Ends, Becomes, codes
<1> QED BY <1>1, SessionsSame, Finishes

\* One session is written: none is unmade, none is brought back.
LEMMA OneSessionMoves ==
  ASSUME Inv, NEW s \in Session, NEW r \in SessionRow, session' = [session EXCEPT ![s] = r],
         r.made, session[s].revoked => r.revoked
  PROVE  SessionsKept
BY DEF SessionsKept, StaysRevoked, Inv, TypeOK

\* A request reads its session and its candidate.
LEMMA FindSessionStep ==
  ASSUME Inv, NEW w \in Worker, NEW s \in Session, FindSession(w, s)
  PROVE  Inv' /\ Finality
<1>1. PICK j : j = [Idle EXCEPT !.pc = IF session[s].expired THEN "carve" ELSE "admit",
                      !.session = s, !.row = session[s],
                      !.suspended = account = "SUSPENDED"]
  OBVIOUS
<1>2. session[s] \in SessionRow /\ session[s].made
  BY DEF FindSession, Made, Inv, TypeOK
<1>3. /\ j \in Job /\ j.pc = (IF session[s].expired THEN "carve" ELSE "admit")
      /\ j.session = s /\ j.doomed = {}
  BY <1>1, <1>2, Empties DEF Idle, Job
<1>4. JobTied(j) /\ ~Holds(j)
  BY <1>2, <1>3 DEF JobTied, Holds
<1> QED BY <1>1, <1>3, <1>4, Takes DEF FindSession, Becomes, codes

\* An extension leaves the row's revocation as it is.
LEMMA ExtendStep ==
  ASSUME Inv, NEW w \in Worker, NEW k \in Sitting, ExtendForSitting(w, k)
  PROVE  Inv' /\ Finality
<1> DEFINE s == job[w].session
           row == job[w].row
<1>1. /\ job[w] \in Job /\ JobTied(job[w]) /\ job[w].pc = "carve"
      /\ UNCHANGED <<account, code, spent, sitting>>
  BY JobIsTyped DEF ExtendForSitting, On, codes, Inv, JobsInv
<1>2. s \in Session /\ session[s].made
  BY <1>1 DEF JobTied
<1>3. /\ session' = [session EXCEPT ![s] = Extended(s, row, k)]
      /\ job' = [job EXCEPT ![w] = [job[w] EXCEPT !.pc = "admit"]]
  BY <1>2 DEF ExtendForSitting, Goes, Becomes
<1>4. PICK r : r = Extended(s, row, k)
  OBVIOUS
<1>5. r \in SessionRow /\ r.made = session[s].made /\ r.revoked = session[s].revoked
  BY <1>2, <1>4 DEF Extended, SessionRow, Inv, TypeOK
<1>6. SessionsKept
  BY <1>2, <1>3, <1>4, <1>5, OneSessionMoves
<1>7. PICK j : j = [job[w] EXCEPT !.pc = "admit"]
  OBVIOUS
<1>8. /\ j \in Job /\ j.pc = "admit" /\ j.session = s
      /\ j.doomed = job[w].doomed
  BY <1>7, MovesOn
<1>9. JobTied(j) /\ ~Holds(j)
  BY <1>1, <1>2, <1>8 DEF JobTied, Holds
<1> QED BY <1>1, <1>3, <1>6, <1>7, <1>8, <1>9, Writes DEF Inv, TypeOK

LEMMA AdmitStep ==
  ASSUME Inv, NEW w \in Worker, Admit(w) PROVE Inv' /\ Finality
<1> DEFINE s == job[w].session
<1>1. /\ s \in Session /\ session[s].made
      /\ UNCHANGED <<account, code, spent, sitting>>
      /\ job' = [job EXCEPT ![w] = Idle]
  BY DEF Admit, On, Ends, Becomes, codes, Inv, JobsInv, JobTied
<1>2. SessionsKept
  <2>1. CASE job[w].suspended
    <3>1. PICK r : r = [session[s] EXCEPT !.revoked = TRUE]
      OBVIOUS
    <3>2. r \in SessionRow /\ r.made = session[s].made /\ r.revoked = TRUE
      BY <1>1, <3>1 DEF SessionRow, Inv, TypeOK
    <3>3. session' = [session EXCEPT ![s] = r]
      BY <1>1, <2>1, <3>1 DEF Admit, Inv, TypeOK
    <3> QED BY <1>1, <3>2, <3>3, OneSessionMoves
  <2>2. CASE ~job[w].suspended
    BY <2>2, SessionsSame DEF Admit
  <2> QED BY <2>1, <2>2
<1> QED BY <1>1, <1>2, Finishes DEF Inv, TypeOK

\* A request that ends with nothing written, or dies.
LEMMA EndStep ==
  ASSUME Inv, NEW w \in Worker, RefuseExpired(w) \/ RequestDies(w) PROVE Inv' /\ Finality
<1>1. /\ UNCHANGED <<account, code, spent, session, sitting>>
      /\ job' = [job EXCEPT ![w] = Idle]
  BY DEF RefuseExpired, RequestDies, Ends, Becomes, codes
<1> QED BY <1>1, Empties, IdleIsTied, Takes DEF Holds

LEMMA AroundStep == ASSUME Inv, Around PROVE Inv' /\ Finality
<1>1. account' \in {"NONE", "ACTIVE", "SUSPENDED"} /\ UNCHANGED <<code, spent, job>>
  BY DEF Around, SessionExpires, CookieLapses, SignOutCandidate, StartSitting, EndSitting,
         codes, Inv, TypeOK
<1>2. CodesKept
  BY <1>1, CodesSame
<1>3. ASSUME NEW s \in Session, SessionExpires(s) PROVE SessionsKept /\ SittingsKept
  <2>1. PICK r : r = [session[s] EXCEPT !.expired = TRUE]
    OBVIOUS
  <2>2. r \in SessionRow /\ r.made = session[s].made /\ r.revoked = session[s].revoked
    BY <2>1 DEF SessionRow, Inv, TypeOK
  <2>3. session' = [session EXCEPT ![s] = r] /\ session[s].made /\ UNCHANGED sitting
    BY <1>3, <2>1 DEF SessionExpires, Made, Inv, TypeOK
  <2> QED BY <2>2, <2>3, OneSessionMoves, SittingsSame
<1>4. ASSUME NEW s \in Session, SignOutCandidate(s) PROVE SessionsKept /\ SittingsKept
  <2>1. PICK r : r = [session[s] EXCEPT !.revoked = TRUE]
    OBVIOUS
  <2>2. r \in SessionRow /\ r.made = session[s].made /\ r.revoked = TRUE
    BY <2>1 DEF SessionRow, Inv, TypeOK
  <2>3. session' = [session EXCEPT ![s] = r] /\ session[s].made /\ UNCHANGED sitting
    BY <1>4, <2>1 DEF SignOutCandidate, Made, Inv, TypeOK
  <2> QED BY <2>2, <2>3, OneSessionMoves, SittingsSame
<1>5. ASSUME NEW s \in Session, CookieLapses(s) PROVE SessionsKept /\ SittingsKept
  <2>1. PICK r : r = [session[s] EXCEPT !.cookie = "gone"]
    OBVIOUS
  <2>2. r \in SessionRow /\ r.made = session[s].made /\ r.revoked = session[s].revoked
    BY <2>1 DEF SessionRow, Inv, TypeOK
  <2>3. session' = [session EXCEPT ![s] = r] /\ session[s].made /\ UNCHANGED sitting
    BY <1>5, <2>1 DEF CookieLapses, NoSession, Inv, TypeOK
  <2> QED BY <2>2, <2>3, OneSessionMoves, SittingsSame
<1>6. ASSUME NEW k \in Sitting, StartSitting(k) \/ EndSitting(k)
      PROVE  SessionsKept /\ SittingsKept
  BY <1>6, SessionsSame DEF StartSitting, EndSitting, SittingsKept, Inv, TypeOK
<1>7. SessionsKept /\ SittingsKept
  BY <1>3, <1>4, <1>6, <1>5 DEF Around
<1> QED BY <1>1, <1>2, <1>7, SparesJobs DEF Finality, CodesKept, SessionsKept

-----------------------------------------------------------------------------
LEMMA NextKeeps == Inv /\ [Next]_vars => Inv' /\ Finality
<1> SUFFICES ASSUME Inv, [Next]_vars PROVE Inv' /\ Finality
  OBVIOUS
<1>1. ASSUME NEW w \in Worker, Arrive(w) PROVE Inv' /\ Finality
  BY <1>1, RequestStep, FindVerifyStep, FindVerifiedStep, FindSignInStep, SuspendStep,
     FindSessionStep DEF Arrive
<1>2. ASSUME NEW w \in Worker, Proceed(w) PROVE Inv' /\ Finality
  BY <1>2, DeleteStep, CreateStep, VerifyStep, ConsumeStep, RegisterStep, PasswordStep,
     RevokeForResetStep, SessionStep, EndSessionsStep, ReactivateStep, ExtendStep,
     AdmitStep, EndStep DEF Proceed
<1>3. CASE UNCHANGED vars
  <2>1. UNCHANGED <<account, code, spent, session, sitting, job>>
    BY <1>3 DEF vars, codes
  <2> QED BY <2>1, CodesSame, SessionsSame, SittingsSame, SparesJobs
          DEF Inv, TypeOK, Finality, CodesKept, SessionsKept
<1> QED BY <1>1, <1>2, <1>3, AroundStep DEF Next

\* The inductive invariant: types, single use, codes sent in order, and what the
\* requests under way rely on - a consumed code is gone, unspent and held by one of
\* them alone.
THEOREM Invariance == Spec => []Inv
BY InitInv, NextKeeps, PTL DEF Spec

\* Type correctness: every account, code, session, sitting and request under way is
\* one the schema and the code admit.
THEOREM TypeCorrect == Spec => []TypeOK
<1>1. Inv => TypeOK
  BY DEF Inv
<1> QED BY <1>1, Invariance, PTL

\* One account or one new password per code, however requests that hold the same
\* verified code cross (email-otp.ts, password-reset-otp.ts, consumeVerified...Otp).
THEOREM CodesAreUsedOnce == Spec => []CodeUsedOnce
<1>1. Inv => CodeUsedOnce
  BY DEF Inv
<1> QED BY <1>1, Invariance, PTL

\* A code used or replaced is never usable again, whichever verification found it before
\* (email-otp.ts, verifyOtpChallenge: an update by id).
THEOREM GoneCodesStayGone == Spec => GoneIsFinal
<1>1. Inv /\ [Next]_vars => [StaysGone]_vars
  BY NextKeeps DEF Finality
<1> QED BY <1>1, Invariance, PTL DEF Spec, GoneIsFinal, StaysGone

\* A revoked session is never live again, whichever requests read it before
\* (candidate-session.ts, candidate-status.ts).
THEOREM RevocationIsFinal == Spec => RevokedIsFinal
<1>1. Inv /\ [Next]_vars => [StaysRevoked]_vars
  BY NextKeeps DEF Finality
<1> QED BY <1>1, Invariance, PTL DEF Spec, RevokedIsFinal, StaysRevoked
=============================================================================
