----------------------------- MODULE StaffAccess -----------------------------
(***************************************************************************)
(* Staff accounts: who is a super admin, who is suspended, and which       *)
(* permissions each member holds (src/lib/rbac.ts, src/lib/staff-invite.ts,*)
(* src/lib/staff-auth-actions.ts, src/lib/staff-session.ts).               *)
(*                                                                         *)
(* Presets, deactivations and suspensions run at PostgreSQL's SERIALIZABLE *)
(* isolation: such a transaction reads from the snapshot of its first      *)
(* statement and commits only if no row it writes has changed since, and   *)
(* if it is not the pivot of two read-write conflicts between serializable *)
(* transactions.  Only conflicts the database is certain to see are        *)
(* modelled (a row one transaction counted and the other wrote); it may    *)
(* roll back more, as any request here may.  Every other write is READ     *)
(* COMMITTED and takes no part in this detection.                          *)
(***************************************************************************)
EXTENDS Naturals

CONSTANTS
  Staff,
  Nobody,
  SeededRole,   \* the role of each account there is from the start, else "NONE"
  MaxLinks,     \* bound on invitation links
  MaxRequests,  \* bound on requests
  Requests,     \* the kinds of request made
  Worker        \* requests in flight at once

Role == {"SUPER_ADMIN", "FACULTY"}
Permission == {"MANAGE_STAFF", "MARK_SUBMISSIONS"}
Preset == [SUPER_ADMIN |-> Permission, FACULTY |-> {"MARK_SUBMISSIONS"}]
Link == 1 .. MaxLinks

\* What staff with MANAGE_STAFF ask for; the first three are SERIALIZABLE.
Guarded == {"preset", "deactivate", "suspend"}
Managed == Guarded \cup {"lift", "toggle", "invite", "resend"}
Kind == Managed \cup {"activate", "signIn", "reset"}

ASSUME StaffAssumption ==
  /\ Nobody \notin Staff
  /\ SeededRole \in [Staff -> Role \cup {"NONE"}]
  /\ \E s \in Staff : SeededRole[s] = "SUPER_ADMIN"
  /\ MaxLinks \in Nat /\ MaxRequests \in Nat
  /\ Requests \subseteq Kind

VARIABLES
  staff,     \* Staff rows: role, and status ("NONE" before the invitation)
  grants,    \* StaffPermission rows
  toggled,   \* history: permissions set by hand since the last preset
  signedIn,  \* the accounts with a live session
  link,      \* StaffInvitationToken rows: whose
  spent,     \* those of them that were consumed
  proof,     \* EmailOtpChallenge rows: a one-time code verified for the address
  asked,     \* how many requests were made
  job        \* what each request is in the middle of

people == <<staff, grants, toggled>>
doors == <<signedIn, link, spent, proof>>
vars == <<staff, grants, toggled, signedIn, link, spent, proof, asked, job>>

-----------------------------------------------------------------------------
(* A transaction that is open has counted the other active super admins    *)
(* (none, if it need not), and knows the permission rows there were.       *)
(* since: what was toggled since its snapshot.  conflicts: "lost", a row   *)
(* it writes was changed, or it would complete a cycle; "in" and "out", a  *)
(* committed transaction counted the row this one writes, or wrote a row   *)
(* it counted.                                                             *)

Conflict == {"lost", "in", "out"}

Idle == [pc |-> "idle", kind |-> "signIn", actor |-> Nobody, target |-> Nobody,
         role |-> "FACULTY", was |-> "ACTIVE", link |-> 0, counted |-> {}, had |-> {},
         since |-> {}, conflicts |-> {}]

On(w, pc) == job[w].pc = pc
Has(w, c) == c \in job[w].conflicts
When(condition, c) == IF condition THEN {c} ELSE {}
Does(w, kind) == On(w, "authorised") /\ job[w].kind = kind
Becomes(w, j) == job' = [job EXCEPT ![w] = j]
Ends(w) == Becomes(w, Idle)
Row(r, st) == [role |-> r, status |-> st]

\* One more request of this kind, within the bound.
Asks(w, kind) ==
  /\ On(w, "idle") /\ kind \in Requests
  /\ asked < MaxRequests /\ asked' = asked + 1

Hired == {s \in Staff : staff[s].status # "NONE"}
ActiveSuper(s) == staff[s].role = "SUPER_ADMIN" /\ staff[s].status = "ACTIVE"
Supers == {s \in Staff : ActiveSuper(s)}

\* The jobs after a READ COMMITTED write to s's row by w, which goes on as j.
Overtaken(w, s, j) ==
  [x \in Worker |->
     IF x = w THEN j
     ELSE [job[x] EXCEPT !.conflicts =
             @ \cup When(On(x, "open") /\ job[x].target = s, "lost")]]

Init ==
  /\ staff = [s \in Staff |->
       IF SeededRole[s] = "NONE" THEN Row("FACULTY", "NONE")
       ELSE Row(SeededRole[s], "ACTIVE")]
  /\ grants = [s \in Staff |->
       IF SeededRole[s] = "NONE" THEN {} ELSE Preset[SeededRole[s]]]
  /\ toggled = [s \in Staff |-> {}]
  /\ signedIn = {}
  /\ link = [l \in Link |-> Nobody]
  /\ spent = {}
  /\ proof = [s \in Staff |-> "NONE"]
  /\ asked = 0
  /\ job = [w \in Worker |-> Idle]

-----------------------------------------------------------------------------
(* Managing staff.                                                         *)

\* requireStaffPermission admits the holder of a live session and of the permission;
\* nobody sets their own permissions, and only a super admin makes another one.
Authorise(w, k, a, t, r) ==
  /\ Asks(w, k) /\ k \in Managed
  /\ a \in signedIn /\ staff[a].status \notin {"SUSPENDED", "DEACTIVATED"}
  /\ "MANAGE_STAFF" \in grants[a]
  /\ k \in {"preset", "toggle"} => a # t
  /\ k = "preset" /\ r = "SUPER_ADMIN" => staff[a].role = "SUPER_ADMIN"
  /\ (t \in Hired) = (k # "invite")
  /\ Becomes(w, [Idle EXCEPT !.pc = "authorised", !.kind = k, !.actor = a,
                             !.target = t, !.role = r])
  /\ UNCHANGED <<people, doors>>

\* Whether a preset, a deactivation or a suspension unseats a super admin: it reads
\* the target's role, unless it promotes.
Unseats(w) ==
  /\ job[w].kind = "preset" => job[w].role # "SUPER_ADMIN"
  /\ staff[job[w].target].role = "SUPER_ADMIN"

Others(w) == Supers \ {job[w].target}

\* The snapshot: assertNotLastActiveSuperAdminTx throws where it counts no other.
OpenTransaction(w) ==
  /\ On(w, "authorised") /\ job[w].kind \in Guarded
  /\ IF Unseats(w) /\ Others(w) = {}
     THEN Ends(w)
     ELSE Becomes(w, [job[w] EXCEPT !.pc = "open",
            !.counted = IF Unseats(w) THEN Others(w) ELSE {},
            !.had = grants[job[w].target]])
  /\ UNCHANGED <<people, doors, asked>>

\* mutant: the transaction run at the default isolation
AnyOrder(w) == TRUE

\* No row it writes has changed, and it is no pivot.
Serializable(w) == ~Has(w, "lost") /\ ~(Has(w, "in") /\ Has(w, "out"))

\* What the other open transactions are left with when w commits.
Conflicts(w) ==
  [x \in Worker |->
     IF x = w THEN Idle
     ELSE IF ~On(x, "open") THEN job[x]
     ELSE LET missed == job[w].target \in job[x].counted
          IN [job[x] EXCEPT !.conflicts = @
                \cup When(job[x].target = job[w].target \/ (missed /\ Has(w, "out")), "lost")
                \cup When(missed, "out")
                \cup When(job[x].target \in job[w].counted, "in")]]

\* Permission rows made since its snapshot: a preset neither sees nor deletes them.
Unseen(w) == grants[job[w].target] \ job[w].had

\* mutant: createMany, skipping duplicates, without the deleteMany
Kept(w) == grants[job[w].target] \cup Preset[job[w].role]

Replaced(w) == Preset[job[w].role] \cup Unseen(w)

\* createMany fails on a row that a crossing toggle has made.
ApplyRolePreset(w) ==
  /\ On(w, "open") /\ job[w].kind = "preset" /\ Serializable(w)
  /\ Unseen(w) \cap Preset[job[w].role] = {}
  /\ staff' = [staff EXCEPT ![job[w].target].role = job[w].role]
  /\ grants' = [grants EXCEPT ![job[w].target] = Replaced(w)]
  /\ toggled' = [toggled EXCEPT ![job[w].target] = job[w].since]
  /\ job' = Conflicts(w)
  /\ UNCHANGED <<doors, asked>>

\* deactivateStaff and suspendStaff revoke the sessions in the same transaction.
EndStanding(w) ==
  /\ On(w, "open") /\ job[w].kind \in {"deactivate", "suspend"} /\ Serializable(w)
  /\ staff' = [staff EXCEPT ![job[w].target].status =
       IF job[w].kind = "suspend" THEN "SUSPENDED" ELSE "DEACTIVATED"]
  /\ signedIn' = signedIn \ {job[w].target}
  /\ job' = Conflicts(w)
  /\ UNCHANGED <<grants, toggled, link, spent, proof, asked>>

\* liftSuspension looks at no status.
LiftSuspension(w) ==
  /\ Does(w, "lift")
  /\ staff' = [staff EXCEPT ![job[w].target].status = "ACTIVE"]
  /\ job' = Overtaken(w, job[w].target, Idle)
  /\ UNCHANGED <<grants, toggled, doors, asked>>

\* The presets that a toggle of p crosses; one whose rows it deletes cannot commit.
Crossed(w, p, gone) ==
  [x \in Worker |->
     IF x = w THEN Idle
     ELSE IF On(x, "open") /\ job[x].target = job[w].target
     THEN [job[x] EXCEPT !.since = @ \cup {p},
             !.conflicts = @ \cup When(gone /\ job[x].kind = "preset", "lost")]
     ELSE job[x]]

SetPermission(w, p, granted) ==
  /\ Does(w, "toggle")
  /\ LET t == job[w].target
     IN /\ grants' = [grants EXCEPT ![t] = IF granted THEN @ \cup {p} ELSE @ \ {p}]
        /\ toggled' = [toggled EXCEPT ![t] = @ \cup {p}]
        /\ job' = Crossed(w, p, ~granted /\ p \in grants[t])
  /\ UNCHANGED <<staff, doors, asked>>

\* A revocation that waits for a preset's deletion finds its row gone, and does not
\* see the one the preset made.
RevokeTooLate(w, p) ==
  /\ Does(w, "toggle")
  /\ \E x \in Worker : On(x, "open") /\ job[x].kind = "preset"
                       /\ job[x].target = job[w].target
  /\ toggled' = [toggled EXCEPT ![job[w].target] = @ \cup {p}]
  /\ job' = Crossed(w, p, FALSE)
  /\ UNCHANGED <<staff, grants, doors, asked>>

Free == {l \in Link : link[l] = Nobody}

\* mutant: an updateMany that forgets whose links
Anyones(s) == Link \ spent

Live(s) == {l \in Link : link[l] = s} \ spent

\* The links that an activation has locked.
Held == {job[w].link : w \in {x \in Worker : On(x, "consumed")}}

\* createInvitationTokenRecord, within the bound.
SendLink(s) == \E l \in Free : link' = [link EXCEPT ![l] = s]

\* The account, its preset and its link in one transaction; the address is unique.
InviteStaff(w) ==
  /\ Does(w, "invite") /\ job[w].target \notin Hired
  /\ staff' = [staff EXCEPT ![job[w].target] = Row(job[w].role, "INVITED")]
  /\ grants' = [grants EXCEPT ![job[w].target] = Preset[job[w].role]]
  /\ SendLink(job[w].target)
  /\ Ends(w)
  /\ UNCHANGED <<toggled, signedIn, spent, proof, asked>>

\* Resending first spends the outstanding links ...
InvalidateOutstanding(w) ==
  /\ Does(w, "resend") /\ Live(job[w].target) \cap Held = {}
  /\ spent' = spent \cup Live(job[w].target)
  /\ Becomes(w, [job[w] EXCEPT !.pc = "send"])
  /\ UNCHANGED <<people, signedIn, link, proof, asked>>

\* ... and then makes a new one, in no transaction with the first.
ResendInvitation(w) ==
  /\ On(w, "send") /\ SendLink(job[w].target)
  /\ Ends(w)
  /\ UNCHANGED <<people, signedIn, spent, proof, asked>>

-----------------------------------------------------------------------------
(* Coming in.                                                              *)

Usable == {l \in Link : link[l] # Nobody} \ spent

\* setStaffPassword finds a live link ...
FindLink(w, l) ==
  /\ Asks(w, "activate") /\ l \in Usable
  /\ Becomes(w, [Idle EXCEPT !.pc = "activate", !.kind = "activate", !.link = l,
                             !.target = link[l]])
  /\ UNCHANGED <<people, doors>>

\* ... consumes it, spent by another or not, and then reads the account's status ...
ConsumeLink(w) ==
  /\ On(w, "activate") /\ job[w].link \notin Held
  /\ staff[job[w].target].status \in {"INVITED", "ACTIVE"}
  /\ Becomes(w, [job[w] EXCEPT !.pc = "consumed", !.was = staff[job[w].target].status])
  /\ UNCHANGED <<people, doors, asked>>

\* ... (that of an account suspended or deactivated is spent for nothing) ...
RefuseLink(w) ==
  /\ On(w, "activate") /\ job[w].link \notin Held
  /\ staff[job[w].target].status \in {"SUSPENDED", "DEACTIVATED"}
  /\ spent' = spent \cup {job[w].link}
  /\ Ends(w)
  /\ UNCHANGED <<people, signedIn, link, proof, asked>>

\* Sessions after a password is set: an activation signs in, a reset signs out.
LetIn(w) == IF job[w].was = "INVITED" THEN signedIn \cup {job[w].target}
            ELSE signedIn \ {job[w].target}

\* ... and activates, whatever has become of the account since, and commits.
SetStaffPassword(w) ==
  /\ On(w, "consumed")
  /\ spent' = spent \cup {job[w].link}
  /\ staff' = [staff EXCEPT ![job[w].target].status = "ACTIVE"]
  /\ signedIn' = LetIn(w)
  /\ job' = Overtaken(w, job[w].target, Idle)
  /\ UNCHANGED <<grants, toggled, link, proof, asked>>

\* The address is proved by a one-time code, asked for by staff or by a candidate.
ProveAddress(s) ==
  /\ s \in Hired /\ proof[s] = "NONE" /\ "reset" \in Requests
  /\ proof' = [proof EXCEPT ![s] = "VERIFIED"]
  /\ UNCHANGED <<people, signedIn, link, spent, asked, job>>

\* setStaffPasswordAfterOtpReset reads the account and uses the code ...
ConsumeProof(w, s) ==
  /\ Asks(w, "reset") /\ s \in Hired /\ proof[s] = "VERIFIED"
  /\ proof' = [proof EXCEPT ![s] = "USED"]
  /\ Becomes(w, [Idle EXCEPT !.pc = "reset", !.kind = "reset", !.target = s,
                             !.was = staff[s].status])
  /\ UNCHANGED <<people, signedIn, link, spent>>

\* ... activates, looking at no status ...
WritePassword(w) ==
  /\ On(w, "reset")
  /\ staff' = [staff EXCEPT ![job[w].target].status = "ACTIVE"]
  /\ job' = Overtaken(w, job[w].target, [job[w] EXCEPT !.pc = "sessions"])
  /\ UNCHANGED <<grants, toggled, doors, asked>>

\* ... and settles the sessions, each in a transaction of its own.
SettleSessions(w) ==
  /\ On(w, "sessions")
  /\ signedIn' = LetIn(w)
  /\ Ends(w)
  /\ UNCHANGED <<people, link, spent, proof, asked>>

\* A sign-in, by password or by code, finds an active account ...
FindToSignIn(w, s) ==
  /\ Asks(w, "signIn") /\ staff[s].status = "ACTIVE"
  /\ Becomes(w, [Idle EXCEPT !.pc = "signIn", !.target = s])
  /\ UNCHANGED <<people, doors>>

\* ... makes a session ...
CreateSession(w) ==
  /\ On(w, "signIn")
  /\ signedIn' = signedIn \cup {job[w].target}
  /\ Becomes(w, [job[w] EXCEPT !.pc = "touch"])
  /\ UNCHANGED <<people, link, spent, proof, asked>>

\* ... and notes the time in the Staff row, which no open transaction survives.
TouchLastActive(w) ==
  /\ On(w, "touch")
  /\ job' = Overtaken(w, job[w].target, Idle)
  /\ UNCHANGED <<people, doors, asked>>

\* Signing out, the end of the day, or a request that finds the account suspended.
EndSession(s) ==
  /\ s \in signedIn
  /\ signedIn' = signedIn \ {s}
  /\ UNCHANGED <<people, link, spent, proof, asked, job>>

\* A request dies, or the database rolls its transaction back.
RequestDies(w) ==
  /\ ~On(w, "idle")
  /\ Ends(w)
  /\ UNCHANGED <<people, doors, asked>>

-----------------------------------------------------------------------------
Manages(w) ==
  \/ \E k \in Managed, a, t \in Staff, r \in Role : Authorise(w, k, a, t, r)
  \/ OpenTransaction(w)
  \/ ApplyRolePreset(w)
  \/ EndStanding(w)
  \/ LiftSuspension(w)
  \/ \E p \in Permission, granted \in BOOLEAN : SetPermission(w, p, granted)
  \/ \E p \in Permission : RevokeTooLate(w, p)
  \/ InviteStaff(w)
  \/ InvalidateOutstanding(w)
  \/ ResendInvitation(w)

ComesIn(w) ==
  \/ \E l \in Link : FindLink(w, l)
  \/ ConsumeLink(w)
  \/ RefuseLink(w)
  \/ SetStaffPassword(w)
  \/ \E s \in Staff : ConsumeProof(w, s) \/ FindToSignIn(w, s)
  \/ WritePassword(w)
  \/ SettleSessions(w)
  \/ CreateSession(w)
  \/ TouchLastActive(w)

Next ==
  \/ \E w \in Worker : Manages(w) \/ ComesIn(w) \/ RequestDies(w)
  \/ \E s \in Staff : ProveAddress(s) \/ EndSession(s)

Spec == Init /\ [][Next]_vars

-----------------------------------------------------------------------------
(* Types.                                                                  *)

Status == {"NONE", "INVITED", "ACTIVE", "SUSPENDED", "DEACTIVATED"}
Pc == {"idle", "authorised", "open", "send", "activate", "consumed", "reset", "sessions",
       "signIn", "touch"}

Job == [pc : Pc, kind : Kind, actor : Staff \cup {Nobody},
        target : Staff \cup {Nobody}, role : Role, was : Status,
        link : Link \cup {0}, counted : SUBSET Staff, had : SUBSET Permission,
        since : SUBSET Permission, conflicts : SUBSET Conflict]

\* Every account, link and request is one the schema admits; permissions, sessions and
\* links are of accounts there are, and only a link that was sent is spent.
TypeOK ==
  /\ staff \in [Staff -> [role : Role, status : Status]]
  /\ grants \in [Staff -> SUBSET Permission]
  /\ \A s \in Staff \ Hired : grants[s] = {}
  /\ toggled \in [Staff -> SUBSET Permission]
  /\ signedIn \subseteq Hired
  /\ link \in [Link -> Hired \cup {Nobody}]
  /\ spent \subseteq Link \ Free
  /\ proof \in [Staff -> {"NONE", "VERIFIED", "USED"}]
  /\ asked \in 0 .. MaxRequests
  /\ job \in [Worker -> Job]

-----------------------------------------------------------------------------
(* Properties.                                                             *)

\* There is always an active super admin, however many of them are demoted, suspended
\* or deactivated at once while accounts come and go: "At least one active super admin
\* must always exist." (LastSuperAdminError).
SuperAdminRemains == Supers # {}

\* A member holds exactly the preset of their role, but for what was set by hand since:
\* presets applied at once leave one of them, never a mixture (applyRolePreset).
GrantsFollowRole ==
  \A s \in Hired, p \in Permission :
    p \notin toggled[s] => (p \in grants[s] <=> p \in Preset[staff[s].role])
==============================================================================
