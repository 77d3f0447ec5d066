---------------------------- MODULE CandidateAccess ----------------------------
(***************************************************************************)
(* One candidate's account (src/app/actions/candidate-auth.ts,             *)
(* src/lib/candidate-status.ts): the one-time codes that registration and  *)
(* a new password need (email-otp.ts, password-reset-otp.ts), suspension,  *)
(* and the database sessions a request is admitted by                      *)
(* (src/lib/candidate-session.ts), which end after a day unless an         *)
(* examination sitting holds one open, and the cookies that carry them.    *)
(*                                                                         *)
(* Passwords and tokens are taken to be right: this is about what the      *)
(* steps of several requests leave behind, not about guessing.  Every      *)
(* request is a job of a worker, and may die after any of its writes.      *)
(***************************************************************************)
EXTENDS Naturals, FiniteSets

CONSTANTS
  MaxCodes,     \* bound on codes sent
  MaxSessions,  \* bound on sessions created
  MaxSittings,  \* bound on sittings started
  Worker        \* requests in flight at once

Code == 1 .. MaxCodes
Session == 1 .. MaxSessions
Sitting == 1 .. MaxSittings
Purpose == {"register", "reset"}

ASSUME AccessAssumption ==
  MaxCodes \in Nat /\ MaxSessions \in Nat /\ MaxSittings \in Nat

VARIABLES
  account,   \* the Candidate row: NONE until registered, then its accountStatus
  code,      \* EmailOtpChallenge and PasswordResetOtpChallenge rows
  spent,     \* history: the accounts and passwords made on the strength of a code
  session,   \* Session rows, each with the cookie its browser holds of it
  sitting,   \* the candidate's Sitting rows, as far as a session asks about them
  job        \* what each request is in the middle of

codes == <<code, spent>>
vars == <<account, codes, session, sitting, job>>

-----------------------------------------------------------------------------
NoCode == [state |-> "NONE", purpose |-> "register"]
\* heldBy: the sitting whose end, and ten minutes, expiresAt was last set to.
\* cookie: one that goes with the browser's closing, or after a day; or no more.
NoSession == [made |-> FALSE, expired |-> FALSE, heldBy |-> 0, revoked |-> FALSE,
              cookie |-> "gone"]
Idle == [pc |-> "idle", purpose |-> "register", code |-> 0, doomed |-> {},
         session |-> 0, row |-> NoSession, suspended |-> FALSE]

On(w, pc) == job[w].pc = pc
Becomes(w, j) == job' = [job EXCEPT ![w] = j]
Goes(w, pc) == Becomes(w, [job[w] EXCEPT !.pc = pc])
Ends(w) == Becomes(w, Idle)

Sent == {c \in Code : code[c].state # "NONE"}
Made == {s \in Session : session[s].made}

\* The bound on codes refuses a request that starts, never one under way.
SpareCode == Cardinality({w \in Worker : job[w].pc \in {"request", "send"}})
               < Cardinality(Code \ Sent)

Following(used) == Cardinality(used) + 1

\* The row, and the cookie set from it.  The bound on sessions: beyond it, no row is
\* made.
CreateSessionRecord(cookie) ==
  session' = IF Made = Session THEN session
             ELSE [session EXCEPT ![Following(Made)].made = TRUE,
                                  ![Following(Made)].cookie = cookie]

\* mutant: the write is not restricted to the account's rows
RevokeEverything ==
  session' = [s \in Session |-> [session[s] EXCEPT !.revoked = TRUE]]

RevokeAllSessions ==
  session' = [s \in Session |-> [session[s] EXCEPT !.revoked = session[s].made]]

\* The sittings that hold a session open: in progress, and not yet out of time.
Holding == {k \in Sitting : sitting[k] = "IN_PROGRESS"}

Init ==
  /\ account = "NONE"
  /\ code = [c \in Code |-> NoCode]
  /\ spent = [c \in Code |-> 0]
  /\ session = [s \in Session |-> NoSession]
  /\ sitting = [k \in Sitting |-> "NONE"]
  /\ job = [w \in Worker |-> Idle]

-----------------------------------------------------------------------------
(* One-time codes.                                                         *)

\* requestRegistrationOtp wants no account, requestPasswordResetOtp an active one.
RequestCode(w, p) ==
  /\ On(w, "idle") /\ SpareCode
  /\ account = IF p = "register" THEN "NONE" ELSE "ACTIVE"
  /\ Becomes(w, [Idle EXCEPT !.pc = "request", !.purpose = p])
  /\ UNCHANGED <<account, codes, session, sitting>>

Outstanding(p) == {c \in Code : code[c].state = "SENT" /\ code[c].purpose = p}
Locked == UNION {job[w].doomed : w \in Worker}

\* createOtpChallenge: one transaction deletes the outstanding codes it sees ...
DeleteOutstanding(w) ==
  /\ On(w, "request")
  /\ Outstanding(job[w].purpose) \cap Locked = {}
  /\ Becomes(w, [job[w] EXCEPT !.pc = "send", !.doomed = Outstanding(job[w].purpose)])
  /\ UNCHANGED <<account, codes, session, sitting>>

\* ... and creates the new one.
CreateOtpChallenge(w) ==
  /\ On(w, "send")
  /\ LET n == Following(Sent)
     IN code' = [c \in Code |->
          IF c = n THEN [state |-> "SENT", purpose |-> job[w].purpose]
          ELSE IF c \in job[w].doomed THEN [code[c] EXCEPT !.state = "GONE"]
          ELSE code[c]]
  /\ Ends(w)
  /\ UNCHANGED <<account, spent, session, sitting>>

Latest(S) == {c \in S : \A d \in S : d <= c}

\* verifyOtpChallenge looks at the latest outstanding code; one found expired, or a
\* wrong guess, ends the request with no effect ...
FindToVerify(w, p) ==
  /\ On(w, "idle")
  /\ \E c \in Latest(Outstanding(p)) : Becomes(w, [Idle EXCEPT !.pc = "verify", !.code = c])
  /\ UNCHANGED <<account, codes, session, sitting>>

\* mutant: an upsert where the code updates
MarkedAnyway(c) == "VERIFIED"

\* The update by id throws when a newer request, or its use, has deleted the row.
Marked(c) == IF code[c].state = "GONE" THEN "GONE" ELSE "VERIFIED"

\* ... and marks it verified.
VerifyOtpChallenge(w) ==
  /\ On(w, "verify")
  /\ job[w].code \notin Locked
  /\ code' = [code EXCEPT ![job[w].code].state = Marked(job[w].code)]
  /\ Ends(w)
  /\ UNCHANGED <<account, spent, session, sitting>>

Usable(p) == {c \in Code : code[c].state = "VERIFIED" /\ code[c].purpose = p}

\* registerCandidate and resetPasswordWithOtp begin with a verified code ...
FindVerified(w, p) ==
  /\ On(w, "idle")
  /\ p = "reset" => account # "NONE"
  /\ \E c \in Usable(p) :
       Becomes(w, [Idle EXCEPT !.pc = "consume", !.purpose = p, !.code = c])
  /\ UNCHANGED <<account, codes, session, sitting>>

\* mutant: deleteMany where the code deletes by id
FoundOnce(c) == TRUE

\* delete throws on a row that is gone.
StillThere(c) == code[c].state # "GONE"

\* ... which they delete by id before anything else.
ConsumeVerifiedOtp(w) ==
  /\ On(w, "consume")
  /\ LET c == job[w].code
     IN IF StillThere(c)
        THEN /\ code' = [code EXCEPT ![c].state = "GONE"]
             /\ Goes(w, IF job[w].purpose = "register" THEN "account" ELSE "password")
        ELSE Ends(w) /\ UNCHANGED code
  /\ UNCHANGED <<account, spent, session, sitting>>

\* Candidate, profile and session in one transaction; the e-mail address is unique.
RegisterCandidate(w) ==
  /\ On(w, "account")
  /\ IF account = "NONE"
     THEN /\ account' = "ACTIVE"
          /\ spent' = [spent EXCEPT ![job[w].code] = @ + 1]
          /\ CreateSessionRecord("day")
     ELSE UNCHANGED <<account, spent, session>>
  /\ Ends(w)
  /\ UNCHANGED <<code, sitting>>

\* resetPasswordWithOtp writes the hash, ends every session, starts one of its own:
\* three writes, no transaction.
WritePassword(w) ==
  /\ On(w, "password")
  /\ spent' = [spent EXCEPT ![job[w].code] = @ + 1]
  /\ Goes(w, "revoke")
  /\ UNCHANGED <<account, code, session, sitting>>

RevokeForReset(w) ==
  /\ On(w, "revoke")
  /\ RevokeAllSessions
  /\ Goes(w, "session")
  /\ UNCHANGED <<account, codes, sitting>>

\* createCandidateSession, with a cookie that is remembered.
CreateCandidateSession(w) ==
  /\ On(w, "session")
  /\ CreateSessionRecord("day")
  /\ Ends(w)
  /\ UNCHANGED <<account, codes, sitting>>

-----------------------------------------------------------------------------
(* Signing in and out, suspension.                                         *)

\* signInCandidate reads the status ...
FindToSignIn(w) ==
  /\ On(w, "idle")
  /\ account = "ACTIVE"
  /\ Becomes(w, [Idle EXCEPT !.pc = "signin"])
  /\ UNCHANGED <<account, codes, session, sitting>>

\* ... and creates a session, whatever the status is by now, remembered or not.
SignInCandidate(w) ==
  /\ On(w, "signin")
  /\ \E cookie \in {"browser", "day"} : CreateSessionRecord(cookie)
  /\ Ends(w)
  /\ UNCHANGED <<account, codes, sitting>>

\* The Google callback makes an account where there is none, asks for no code and
\* looks at no status, and goes on to create a session.
GoogleCallback(w) ==
  /\ On(w, "idle")
  /\ account' = IF account = "NONE" THEN "ACTIVE" ELSE account
  /\ Becomes(w, [Idle EXCEPT !.pc = "session"])
  /\ UNCHANGED <<codes, session, sitting>>

SignOutCandidate(s) ==
  /\ s \in Made /\ ~session[s].revoked
  /\ session' = [session EXCEPT ![s].revoked = TRUE]
  /\ UNCHANGED <<account, codes, sitting, job>>

\* suspendCandidate: the status, then the sessions.
SuspendCandidate(w) ==
  /\ On(w, "idle")
  /\ account # "NONE"
  /\ account' = "SUSPENDED"
  /\ Becomes(w, [Idle EXCEPT !.pc = "end"])
  /\ UNCHANGED <<codes, session, sitting>>

EndSessions(w) ==
  /\ On(w, "end")
  /\ RevokeAllSessions
  /\ Ends(w)
  /\ UNCHANGED <<account, codes, sitting>>

FindToReactivate(w) ==
  /\ On(w, "idle")
  /\ account = "SUSPENDED"
  /\ Becomes(w, [Idle EXCEPT !.pc = "reactivate"])
  /\ UNCHANGED <<account, codes, session, sitting>>

ReactivateCandidate(w) ==
  /\ On(w, "reactivate")
  /\ account' = "ACTIVE"
  /\ Ends(w)
  /\ UNCHANGED <<codes, session, sitting>>

-----------------------------------------------------------------------------
(* A request with a session's cookie: resolveCandidateFromToken.           *)

\* The session of the cookie sent is read with its candidate; a revoked one is refused
\* at once.
FindSession(w, s) ==
  /\ On(w, "idle")
  /\ s \in Made /\ ~session[s].revoked
  /\ session[s].cookie # "gone"
  /\ Becomes(w, [Idle EXCEPT !.pc = IF session[s].expired THEN "carve" ELSE "admit",
                   !.session = s, !.row = session[s],
                   !.suspended = account = "SUSPENDED"])
  /\ UNCHANGED <<account, codes, session, sitting>>

\* mutant: the row is saved as it was read
RowSaved(s, row, k) == [row EXCEPT !.expired = FALSE, !.heldBy = k]

\* The update writes expiresAt alone.
Extended(s, row, k) == [session[s] EXCEPT !.expired = FALSE, !.heldBy = k]

\* An expired session is extended past the sitting in progress: that it expires before
\* the sitting does, as the code asks, is so of every one that has expired and a
\* sitting that has not ...
ExtendForSitting(w, k) ==
  /\ On(w, "carve")
  /\ k \in Holding
  /\ LET s == job[w].session
     IN session' = [session EXCEPT ![s] = Extended(s, job[w].row, k)]
  /\ Goes(w, "admit")
  /\ UNCHANGED <<account, codes, sitting>>

\* ... or refused, when there is none.
RefuseExpired(w) ==
  /\ On(w, "carve")
  /\ Holding = {}
  /\ Ends(w)
  /\ UNCHANGED <<account, codes, session, sitting>>

\* The session of an account read as suspended is revoked, any other is admitted.
Admit(w) ==
  /\ On(w, "admit")
  /\ session' = IF job[w].suspended
                THEN [session EXCEPT ![job[w].session].revoked = TRUE]
                ELSE session
  /\ Ends(w)
  /\ UNCHANGED <<account, codes, sitting>>

RequestDies(w) ==
  /\ ~On(w, "idle")
  /\ Ends(w)
  /\ UNCHANGED <<account, codes, session, sitting>>

-----------------------------------------------------------------------------
(* Around it: sittings start and end, time passes.                         *)

StartSitting(k) ==
  /\ account # "NONE"
  /\ \A j \in Sitting : sitting[j] = "NONE" <=> j >= k
  /\ sitting' = [sitting EXCEPT ![k] = "IN_PROGRESS"]
  /\ UNCHANGED <<account, codes, session, job>>

\* Submitted, forfeited, or out of time.
EndSitting(k) ==
  /\ sitting[k] = "IN_PROGRESS"
  /\ sitting' = [sitting EXCEPT ![k] = "OVER"]
  /\ UNCHANGED <<account, codes, session, job>>

\* expiresAt passes: a day after the session was made, or ten minutes after the
\* sitting that last held it open.  A cookie of a day does not live to see the second.
SessionExpires(s) ==
  /\ s \in Made /\ ~session[s].expired
  /\ session[s].heldBy \notin Holding
  /\ session[s].cookie = "day" => session[s].heldBy = 0
  /\ session' = [session EXCEPT ![s].expired = TRUE]
  /\ UNCHANGED <<account, codes, sitting, job>>

\* The browser is closed, or the cookie's day, begun as the row's, is over: extending
\* the row does not set the cookie again.
CookieLapses(s) ==
  /\ \/ session[s].cookie = "browser"
     \/ session[s].cookie = "day" /\ (session[s].expired \/ session[s].heldBy # 0)
  /\ session' = [session EXCEPT ![s].cookie = "gone"]
  /\ UNCHANGED <<account, codes, sitting, job>>

Arrive(w) ==
  \/ \E p \in Purpose : RequestCode(w, p) \/ FindToVerify(w, p) \/ FindVerified(w, p)
  \/ FindToSignIn(w) \/ GoogleCallback(w) \/ SuspendCandidate(w) \/ FindToReactivate(w)
  \/ \E s \in Session : FindSession(w, s)

Proceed(w) ==
  \/ DeleteOutstanding(w) \/ CreateOtpChallenge(w) \/ VerifyOtpChallenge(w)
  \/ ConsumeVerifiedOtp(w) \/ RegisterCandidate(w)
  \/ WritePassword(w) \/ RevokeForReset(w) \/ CreateCandidateSession(w)
  \/ SignInCandidate(w) \/ EndSessions(w) \/ ReactivateCandidate(w)
  \/ \E k \in Sitting : ExtendForSitting(w, k)
  \/ RefuseExpired(w) \/ Admit(w) \/ RequestDies(w)

Around ==
  \/ \E s \in Session : SessionExpires(s) \/ CookieLapses(s) \/ SignOutCandidate(s)
  \/ \E k \in Sitting : StartSitting(k) \/ EndSitting(k)

Next == Around \/ \E w \in Worker : Arrive(w) \/ Proceed(w)

Spec == Init /\ [][Next]_vars

-----------------------------------------------------------------------------
CodeRow == [state : {"NONE", "SENT", "VERIFIED", "GONE"}, purpose : Purpose]
SessionRow == [made : BOOLEAN, expired : BOOLEAN, heldBy : Sitting \cup {0},
               revoked : BOOLEAN, cookie : {"browser", "day", "gone"}]
Job == [pc : {"idle", "request", "send", "verify", "consume", "account", "password",
              "revoke", "session", "signin", "end", "reactivate", "carve", "admit"},
        purpose : Purpose, code : Code \cup {0}, doomed : SUBSET Code,
        session : Session \cup {0}, row : SessionRow, suspended : BOOLEAN]

\* Every variable holds rows of the shape the schema gives them; only rows that were
\* made have a history.
TypeOK ==
  /\ account \in {"NONE", "ACTIVE", "SUSPENDED"}
  /\ code \in [Code -> CodeRow]
  /\ spent \in [Code -> Nat]
  /\ session \in [Session -> SessionRow]
  /\ sitting \in [Sitting -> {"NONE", "IN_PROGRESS", "OVER"}]
  /\ job \in [Worker -> Job]
  /\ \A s \in Session : session[s].made \/ session[s] = NoSession

\* An account or a new password takes a code of its own: however two requests with
\* one verified code cross, and wherever either dies, one of them at most uses it.
CodeUsedOnce == \A c \in Code : spent[c] <= 1

\* A code that was used, or that a newer one replaced, is never usable again, although
\* a verification that found it before goes on to mark it (email-otp.ts:66-70).
GoneIsFinal ==
  [][\A c \in Code : code[c].state = "GONE" => code'[c].state = "GONE"]_vars

\* A session once revoked, by signing out, suspension, a new password or the check
\* that finds its account suspended, is never live again, although requests that
\* read it before go on to write it (candidate-session.ts:186-211).
RevokedIsFinal ==
  [][\A s \in Session : session[s].revoked => session'[s].revoked]_vars
==============================================================================
