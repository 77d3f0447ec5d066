-------------------------- MODULE StaffAccess_proofs --------------------------
(***************************************************************************)
(* There is always an active super admin, and permissions follow the role: *)
(* both for every number of accounts and of requests at once.              *)
(*                                                                         *)
(* Serialization is the work of CountInv and PairInv.  A transaction that  *)
(* may still commit and would unseat a super admin has counted others: as  *)
(* long as none of these was unseated they are all there (out), and as     *)
(* long as nobody who counted its target has committed somebody is (into); *)
(* of two such transactions the later counted the target of the earlier.   *)
(***************************************************************************)
EXTENDS StaffAccess, TLAPS

-----------------------------------------------------------------------------
(* The inductive invariant.                                                *)

\* Whom a request is about, and which link an activation holds.
Tied(j) ==
  /\ j.pc \notin {"idle", "authorised"} => j.target \in Hired
  /\ j.pc = "authorised" => j.target \in Staff /\ j.kind \in Managed
  /\ j.pc = "authorised" /\ j.kind # "invite" => j.target \in Hired
  /\ j.pc = "open" => j.kind \in Guarded
  /\ j.pc \in {"activate", "consumed"} => j.link \in Link \ Free
TargetInv == \A w \in Worker : Tied(job[w])

\* An open transaction that would unseat a super admin, and may still commit.
Unseating(w) ==
  /\ On(w, "open") /\ ~Has(w, "lost")
  /\ ActiveSuper(job[w].target)
  /\ job[w].kind = "preset" => job[w].role # "SUPER_ADMIN"

CountInv ==
  \A w \in Worker : Unseating(w) =>
    /\ job[w].counted # {}
    /\ job[w].target \notin job[w].counted
    /\ Has(w, "out") \/ job[w].counted \subseteq Supers
    /\ Has(w, "in") \/ Others(w) # {}

PairInv ==
  \A w, x \in Worker :
    Unseating(w) /\ Unseating(x) /\ job[w].target # job[x].target =>
      job[w].target \in job[x].counted \/ job[x].target \in job[w].counted

\* The rows a preset does not see were toggled since its snapshot.
UnseenInv ==
  \A w \in Worker : On(w, "open") /\ ~Has(w, "lost") => Unseen(w) \subseteq job[w].since

Inv == TypeOK /\ TargetInv /\ CountInv /\ PairInv /\ SuperAdminRemains
             /\ UnseenInv /\ GrantsFollowRole

-----------------------------------------------------------------------------
LEMMA PresetType == Preset \in [Role -> SUBSET Permission]
BY DEF Preset, Role, Permission

LEMMA IdleType == Idle \in Job /\ Idle.pc = "idle"
BY DEF Idle, Job, Pc, Kind, Managed, Guarded, Role, Status

LEMMA WhenType == \A c : \A condition \in BOOLEAN : When(condition, c) \subseteq {c}
BY DEF When

\* What no other request changes of a job.
SameRequest(j, k) ==
  /\ k.pc = j.pc /\ k.kind = j.kind /\ k.target = j.target /\ k.role = j.role
  /\ k.link = j.link /\ k.counted = j.counted /\ k.had = j.had

\* A job with other conflicts.
LEMMA Reconflicted ==
  ASSUME NEW j \in Job, NEW D \in SUBSET Conflict
  PROVE  LET k == [j EXCEPT !.conflicts = D]
         IN k \in Job /\ k.conflicts = D /\ SameRequest(j, k) /\ k.since = j.since
BY DEF Job, SameRequest

\* The jobs after a write stay jobs, and how they differ from those before.
LEMMA OvertakenJobs ==
  ASSUME job \in [Worker -> Job], NEW w \in Worker, NEW s \in Staff, NEW j \in Job
  PROVE  LET after == Overtaken(w, s, j)
         IN /\ after \in [Worker -> Job]
            /\ after[w] = j
            /\ \A x \in Worker \ {w} :
                 /\ SameRequest(job[x], after[x]) /\ after[x].since = job[x].since
                 /\ job[x].conflicts \subseteq after[x].conflicts
                 /\ On(x, "open") /\ job[x].target = s => "lost" \in after[x].conflicts
<1> DEFINE C(x) == job[x].conflicts \cup When(On(x, "open") /\ job[x].target = s, "lost")
           after == Overtaken(w, s, j)
<1>1. \A x \in Worker \ {w} : after[x] = [job[x] EXCEPT !.conflicts = C(x)]
  BY DEF Overtaken
<1>2. \A x \in Worker : C(x) \in SUBSET Conflict /\ job[x].conflicts \subseteq C(x)
  BY DEF Job, Conflict, When
<1>3. after[w] = j
  BY DEF Overtaken
<1> HIDE DEF C, after
<1>4. \A x \in Worker \ {w} : /\ after[x].conflicts = C(x) /\ after[x] \in Job
                              /\ SameRequest(job[x], after[x]) /\ after[x].since = job[x].since
  <2> TAKE x \in Worker \ {w}
  <2>1. job[x] \in Job /\ C(x) \in SUBSET Conflict /\ after[x] = [job[x] EXCEPT !.conflicts = C(x)]
    BY <1>1, <1>2
  <2> QED  BY <2>1, Reconflicted
<1> USE DEF C, after
<1>5. after \in [Worker -> Job]
  BY <1>3, <1>4 DEF Overtaken
<1> HIDE DEF after
<1>6. \A x \in Worker : On(x, "open") /\ job[x].target = s => "lost" \in C(x)
  BY DEF When
<1> QED  BY <1>2, <1>3, <1>4, <1>5, <1>6 DEF after

LEMMA ConflictsJobs ==
  ASSUME job \in [Worker -> Job], NEW w \in Worker
  PROVE  LET after == Conflicts(w)
         IN /\ after \in [Worker -> Job]
            /\ after[w] = Idle
            /\ \A x \in Worker \ {w} :
                 /\ SameRequest(job[x], after[x]) /\ after[x].since = job[x].since
                 /\ job[x].conflicts \subseteq after[x].conflicts
                 /\ On(x, "open") /\ job[x].target = job[w].target
                      => "lost" \in after[x].conflicts
                 /\ On(x, "open") /\ job[w].target \in job[x].counted
                      => /\ "out" \in after[x].conflicts
                         /\ Has(w, "out") => "lost" \in after[x].conflicts
                 /\ On(x, "open") /\ job[x].target \in job[w].counted
                      => "in" \in after[x].conflicts
<1> DEFINE missed(x) == job[w].target \in job[x].counted
           C(x) == job[x].conflicts
             \cup When(job[x].target = job[w].target \/ (missed(x) /\ Has(w, "out")), "lost")
             \cup When(missed(x), "out")
             \cup When(job[x].target \in job[w].counted, "in")
           after == Conflicts(w)
<1>1. \A x \in Worker \ {w} :
        after[x] = IF On(x, "open") THEN [job[x] EXCEPT !.conflicts = C(x)] ELSE job[x]
  BY DEF Conflicts
<1>2. \A x \in Worker :
        /\ C(x) \in SUBSET Conflict /\ job[x].conflicts \subseteq C(x)
        /\ job[x].target = job[w].target => "lost" \in C(x)
        /\ missed(x) => "out" \in C(x) /\ (Has(w, "out") => "lost" \in C(x))
        /\ job[x].target \in job[w].counted => "in" \in C(x)
  BY DEF Job, Conflict, When
<1>3. after[w] = Idle
  BY DEF Conflicts
<1> HIDE DEF C, after
<1>4. \A x \in Worker \ {w} :
        after[x].conflicts = (IF On(x, "open") THEN C(x) ELSE job[x].conflicts)
        /\ after[x] \in Job
        /\ SameRequest(job[x], after[x]) /\ after[x].since = job[x].since
  <2> TAKE x \in Worker \ {w}
  <2>1. job[x] \in Job /\ C(x) \in SUBSET Conflict
    BY <1>2
  <2>2. CASE On(x, "open")
    <3>1. after[x] = [job[x] EXCEPT !.conflicts = C(x)]
      BY <1>1, <2>2
    <3> QED  BY <3>1, <2>1, <2>2, Reconflicted
  <2>3. CASE ~On(x, "open")
    BY <1>1, <2>1, <2>3 DEF SameRequest
  <2> QED  BY <2>2, <2>3
<1> USE DEF C, after
<1>5. after \in [Worker -> Job]
  BY <1>3, <1>4, IdleType DEF Conflicts
<1> HIDE DEF after, C
<1> QED  BY <1>2, <1>3, <1>4, <1>5 DEF after, missed

LEMMA CrossedJobs ==
  ASSUME job \in [Worker -> Job], NEW w \in Worker, NEW p \in Permission,
         NEW gone \in BOOLEAN
  PROVE  LET after == Crossed(w, p, gone)
         IN /\ after \in [Worker -> Job]
            /\ after[w] = Idle
            /\ \A x \in Worker \ {w} :
                 /\ SameRequest(job[x], after[x])
                 /\ job[x].conflicts \subseteq after[x].conflicts
                 /\ job[x].since \subseteq after[x].since
                 /\ On(x, "open") /\ job[x].target = job[w].target
                      => p \in after[x].since
<1> DEFINE C(x) == job[x].conflicts \cup When(gone /\ job[x].kind = "preset", "lost")
           P(x) == job[x].since \cup {p}
           after == Crossed(w, p, gone)
           hit(x) == On(x, "open") /\ job[x].target = job[w].target
<1>1. \A x \in Worker \ {w} :
        after[x] = IF hit(x) THEN [job[x] EXCEPT !.since = P(x), !.conflicts = C(x)]
                   ELSE job[x]
  BY DEF Crossed
<1>2. \A x \in Worker : /\ C(x) \in SUBSET Conflict /\ job[x].conflicts \subseteq C(x)
                        /\ P(x) \in SUBSET Permission
                        /\ job[x].since \subseteq P(x) /\ p \in P(x)
  BY DEF Job, Conflict, When
<1>3. after[w] = Idle /\ after = [x \in Worker |-> after[x]]
  BY DEF Crossed
<1> HIDE DEF after, C, P
<1>4. ASSUME NEW x \in Worker \ {w}
      PROVE  /\ after[x] \in Job
             /\ SameRequest(job[x], after[x])
             /\ job[x].conflicts \subseteq after[x].conflicts
             /\ job[x].since \subseteq after[x].since
             /\ hit(x) => p \in after[x].since
  <2>1. job[x] \in Job
    OBVIOUS
  <2>2. CASE hit(x)
    <3>1. after[x] = [job[x] EXCEPT !.since = P(x), !.conflicts = C(x)]
      BY <1>1, <2>2
    <3>2. C(x) \in SUBSET Conflict /\ P(x) \in SUBSET Permission
      BY <1>2
    <3>3. after[x] \in Job
      BY <3>1, <2>1, <3>2 DEF Job
    <3>4. after[x].since = P(x) /\ after[x].conflicts = C(x)
      BY <3>1, <2>1 DEF Job
    <3>5. SameRequest(job[x], after[x])
      BY <3>1, <2>1 DEF Job, SameRequest
    <3> QED  BY <3>3, <3>4, <3>5, <1>2
  <2>3. CASE ~hit(x)
    <3>1. after[x] = job[x]
      BY <1>1, <2>3
    <3> QED  BY <3>1, <2>1, <2>3 DEF SameRequest
  <2> QED  BY <2>2, <2>3
<1>5. after \in [Worker -> Job]
  BY <1>3, <1>4, IdleType
<1> QED  BY <1>3, <1>4, <1>5 DEF after

-----------------------------------------------------------------------------
(* Types.                                                                  *)

\* A row written keeps its account an account.
LEMMA Rewritten ==
  ASSUME staff \in [Staff -> [role : Role, status : Status]], NEW s \in Hired,
         NEW st \in Status \ {"NONE"}, staff' = [staff EXCEPT ![s].status = st]
  PROVE  staff' \in [Staff -> [role : Role, status : Status]] /\ Hired' = Hired
BY DEF Hired, Status

\* Requests stay tied as long as accounts and links stay.
LEMMA StayTied ==
  ASSUME NEW w \in Worker, TargetInv, Hired \subseteq Hired', Free' \subseteq Free,
         Tied(job[w])',
         \A x \in Worker \ {w} : SameRequest(job[x], job'[x])
  PROVE  TargetInv'
BY DEF TargetInv, Tied, Hired, Free, SameRequest

LEMMA InitTypes == Init => TypeOK /\ TargetInv
<1> SUFFICES ASSUME Init PROVE TypeOK /\ TargetInv
  OBVIOUS
<1>1. staff \in [Staff -> [role : Role, status : Status]]
  BY StaffAssumption DEF Init, Row, Role, Status
<1>2. grants \in [Staff -> SUBSET Permission] /\ \A s \in Staff \ Hired : grants[s] = {}
  BY StaffAssumption, PresetType DEF Init, Row, Hired
<1>3. /\ link \in [Link -> Hired \cup {Nobody}] /\ spent \subseteq Link \ Free
      /\ toggled \in [Staff -> SUBSET Permission] /\ signedIn \subseteq Hired
      /\ proof \in [Staff -> {"NONE", "VERIFIED", "USED"}]
      /\ asked \in 0 .. MaxRequests
  BY StaffAssumption DEF Init
<1>4. job \in [Worker -> Job] /\ TargetInv
  BY IdleType DEF Init, TargetInv, Tied
<1> QED  BY <1>1, <1>2, <1>3, <1>4 DEF TypeOK

LEMMA TypesPreserved ==
  ASSUME TypeOK, TargetInv, [Next]_vars
  PROVE  TypeOK' /\ TargetInv'
<1> USE DEF TypeOK
<1>w. ASSUME NEW w \in Worker, NEW j \in Job, Becomes(w, j)
      PROVE  /\ job' \in [Worker -> Job] /\ job'[w] = j
             /\ \A x \in Worker \ {w} : SameRequest(job[x], job'[x])
  BY <1>w DEF Becomes, SameRequest
<1>e. ASSUME NEW w \in Worker, Ends(w)
      PROVE  /\ job' \in [Worker -> Job] /\ job'[w] = Idle
             /\ \A x \in Worker \ {w} : SameRequest(job[x], job'[x])
  BY <1>e, <1>w, IdleType DEF Ends
<1>t. ASSUME NEW w \in Worker
      PROVE  job[w] \in Job /\ Tied(job[w])
  BY DEF TargetInv
<1>1. CASE UNCHANGED vars
  BY <1>1 DEF vars, TargetInv, Tied, Hired, Free
<1>2. ASSUME NEW w \in Worker, NEW k \in Managed, NEW a \in Staff, NEW t \in Staff,
             NEW r \in Role, Authorise(w, k, a, t, r)
      PROVE  TypeOK' /\ TargetInv'
  <2> DEFINE j == [Idle EXCEPT !.pc = "authorised", !.kind = k, !.actor = a,
                               !.target = t, !.role = r]
  <2>1. j \in Job /\ j.pc = "authorised" /\ j.kind = k /\ j.target = t
    BY IdleType DEF Job, Pc, Kind
  <2>2. UNCHANGED <<people, doors>> /\ Becomes(w, j) /\ (k # "invite" => t \in Hired)
        /\ asked' \in 0 .. MaxRequests
    BY <1>2, StaffAssumption DEF Authorise, Asks
  <2> HIDE DEF j
  <2>3. /\ job' \in [Worker -> Job] /\ job'[w] = j
        /\ \A x \in Worker \ {w} : SameRequest(job[x], job'[x])
    BY <2>1, <2>2, <1>w
  <2>4. Hired' = Hired /\ Free' = Free
    BY <2>2 DEF people, doors, Hired, Free
  <2>5. Tied(job[w])'
    BY <2>1, <2>2, <2>3, <2>4 DEF Tied
  <2> QED  BY <2>2, <2>3, <2>4, <2>5, StayTied DEF people, doors
<1>3. ASSUME NEW w \in Worker, OpenTransaction(w) PROVE TypeOK' /\ TargetInv'
  <2> DEFINE j == [job[w] EXCEPT !.pc = "open",
            !.counted = IF Unseats(w) THEN Others(w) ELSE {},
            !.had = grants[job[w].target]]
  <2>1. UNCHANGED <<people, doors, asked>> /\ (Ends(w) \/ Becomes(w, j))
        /\ job[w].kind \in Guarded /\ job[w].target \in Hired
    BY <1>3, <1>t DEF OpenTransaction, On, Tied, Guarded
  <2>2. j \in Job /\ j.pc = "open" /\ j.kind \in Guarded /\ j.target \in Hired
    <3>1. (IF Unseats(w) THEN Others(w) ELSE {}) \in SUBSET Staff
          /\ grants[job[w].target] \in SUBSET Permission
      BY <2>1 DEF Others, Supers, Hired
    <3> QED  BY <2>1, <3>1, <1>t DEF Job, Pc
  <2> HIDE DEF j
  <2>3. /\ job' \in [Worker -> Job] /\ job'[w] \in {Idle, j}
        /\ \A x \in Worker \ {w} : SameRequest(job[x], job'[x])
    BY <2>1, <2>2, <1>w, <1>e
  <2>4. Hired' = Hired /\ Free' = Free
    BY <2>1 DEF people, doors, Hired, Free
  <2>5. Tied(job[w])'
    BY <2>2, <2>3, <2>4, IdleType DEF Tied
  <2> QED  BY <2>1, <2>3, <2>4, <2>5, StayTied DEF people, doors
<1>4. ASSUME NEW w \in Worker, ApplyRolePreset(w) PROVE TypeOK' /\ TargetInv'
  <2> DEFINE t == job[w].target
  <2>1. t \in Hired /\ t \in Staff /\ job[w].role \in Role /\ job[w].since \in SUBSET Permission
    BY <1>4, <1>t DEF ApplyRolePreset, On, Tied, Job, Hired
  <2>2. /\ staff' = [staff EXCEPT ![t].role = job[w].role]
        /\ grants' = [grants EXCEPT ![t] = Replaced(w)]
        /\ toggled' = [toggled EXCEPT ![t] = job[w].since]
        /\ job' = Conflicts(w) /\ UNCHANGED <<doors, asked>>
    BY <1>4 DEF ApplyRolePreset
  <2> HIDE DEF t
  <2>3. staff' \in [Staff -> [role : Role, status : Status]] /\ Hired' = Hired
    BY <2>1, <2>2 DEF Hired
  <2>4. grants' \in [Staff -> SUBSET Permission] /\ \A s \in Staff \ Hired : grants'[s] = {}
    <3>1. Replaced(w) \in SUBSET Permission
      BY <2>1, PresetType DEF Replaced, Unseen, t
    <3> QED  BY <3>1, <2>1, <2>2
  <2>5. toggled' \in [Staff -> SUBSET Permission]
    BY <2>1, <2>2
  <2>6. Free' = Free
    BY <2>2 DEF doors, Free
  <2>7. /\ job' \in [Worker -> Job] /\ job'[w] = Idle
        /\ \A x \in Worker \ {w} : SameRequest(job[x], job'[x])
    BY <2>2, ConflictsJobs
  <2>8. TargetInv'
    <3>1. Tied(job[w])'
      BY <2>7, IdleType DEF Tied
    <3> QED  BY <3>1, <2>3, <2>6, <2>7, StayTied
  <2> QED  BY <2>2, <2>3, <2>4, <2>5, <2>6, <2>7, <2>8 DEF doors
<1>5. ASSUME NEW w \in Worker, EndStanding(w) PROVE TypeOK' /\ TargetInv'
  <2> DEFINE t == job[w].target
             st == IF job[w].kind = "suspend" THEN "SUSPENDED" ELSE "DEACTIVATED"
  <2>1. t \in Hired /\ st \in Status \ {"NONE"}
    BY <1>5, <1>t DEF EndStanding, On, Tied, Status
  <2>2. /\ staff' = [staff EXCEPT ![t].status = st] /\ signedIn' = signedIn \ {t}
        /\ job' = Conflicts(w) /\ UNCHANGED <<grants, toggled, link, spent, proof, asked>>
    BY <1>5 DEF EndStanding
  <2> HIDE DEF t, st
  <2>3. staff' \in [Staff -> [role : Role, status : Status]] /\ Hired' = Hired
    BY <2>1, <2>2, Rewritten
  <2>4. Free' = Free
    BY <2>2 DEF Free
  <2>5. /\ job' \in [Worker -> Job] /\ job'[w] = Idle
        /\ \A x \in Worker \ {w} : SameRequest(job[x], job'[x])
    BY <2>2, ConflictsJobs
  <2>6. TargetInv'
    <3>1. Tied(job[w])'
      BY <2>5, IdleType DEF Tied
    <3> QED  BY <3>1, <2>3, <2>4, <2>5, StayTied
  <2> QED  BY <2>2, <2>3, <2>4, <2>5, <2>6
<1>o. ASSUME NEW w \in Worker, NEW s \in Hired, NEW j \in Job, job' = Overtaken(w, s, j)
      PROVE  /\ job' \in [Worker -> Job] /\ job'[w] = j
             /\ \A x \in Worker \ {w} : SameRequest(job[x], job'[x])
  <2>1. s \in Staff
    BY DEF Hired
  <2> QED  BY <1>o, <2>1, OvertakenJobs
<1>6. ASSUME NEW w \in Worker, LiftSuspension(w) PROVE TypeOK' /\ TargetInv'
  <2> DEFINE t == job[w].target
  <2>1. t \in Hired
    BY <1>6, <1>t DEF LiftSuspension, Does, On, Tied
  <2>2. /\ staff' = [staff EXCEPT ![t].status = "ACTIVE"]
        /\ job' = Overtaken(w, t, Idle) /\ UNCHANGED <<grants, toggled, doors, asked>>
    BY <1>6 DEF LiftSuspension
  <2> HIDE DEF t
  <2>3. staff' \in [Staff -> [role : Role, status : Status]] /\ Hired' = Hired
    BY <2>1, <2>2, Rewritten DEF Status
  <2>4. Free' = Free
    BY <2>2 DEF doors, Free
  <2>5. /\ job' \in [Worker -> Job] /\ job'[w] = Idle
        /\ \A x \in Worker \ {w} : SameRequest(job[x], job'[x])
    BY <2>1, <2>2, <1>o, IdleType
  <2>6. Tied(job[w])'
    BY <2>5, IdleType DEF Tied
  <2> QED  BY <2>2, <2>3, <2>4, <2>5, <2>6, StayTied DEF doors
<1>7. ASSUME NEW w \in Worker, NEW p \in Permission, NEW granted \in BOOLEAN,
             SetPermission(w, p, granted) \/ RevokeTooLate(w, p)
      PROVE  TypeOK' /\ TargetInv'
  <2> DEFINE t == job[w].target
             gone == ~granted /\ p \in grants[t]
  <2>1. t \in Hired /\ t \in Staff
    BY <1>7, <1>t DEF SetPermission, RevokeTooLate, Does, On, Tied, Hired
  <2>2. /\ grants' \in [Staff -> SUBSET Permission] /\ \A s \in Staff \ Hired : grants'[s] = {}
        /\ toggled' \in [Staff -> SUBSET Permission]
    <3>1. toggled' = [toggled EXCEPT ![t] = @ \cup {p}]
      BY <1>7 DEF SetPermission, RevokeTooLate
    <3>2. \E G \in SUBSET Permission : grants' = [grants EXCEPT ![t] = G]
      <4>1. CASE SetPermission(w, p, granted)
        <5>1. (IF granted THEN grants[t] \cup {p} ELSE grants[t] \ {p}) \in SUBSET Permission
          BY <2>1
        <5>2. grants' = [grants EXCEPT ![t] = IF granted THEN grants[t] \cup {p} ELSE grants[t] \ {p}]
          BY <4>1, <2>1 DEF SetPermission
        <5> QED  BY <5>1, <5>2
      <4>2. CASE RevokeTooLate(w, p)
        <5>1. grants' = [grants EXCEPT ![t] = grants[t]] /\ grants[t] \in SUBSET Permission
          BY <4>2, <2>1 DEF RevokeTooLate
        <5> QED  BY <5>1
      <4> QED  BY <1>7, <4>1, <4>2
    <3>3. PICK G \in SUBSET Permission : grants' = [grants EXCEPT ![t] = G]
      BY <3>2
    <3> HIDE DEF t
    <3> QED  BY <2>1, <3>1, <3>3
  <2>3. UNCHANGED <<staff, doors, asked>>
    BY <1>7 DEF SetPermission, RevokeTooLate
  <2>4. /\ job' \in [Worker -> Job] /\ job'[w] = Idle
        /\ \A x \in Worker \ {w} : SameRequest(job[x], job'[x])
    <3>1. gone \in BOOLEAN
      OBVIOUS
    <3>2. job' = Crossed(w, p, gone) \/ job' = Crossed(w, p, FALSE)
      BY <1>7 DEF SetPermission, RevokeTooLate
    <3> HIDE DEF gone
    <3>3. CASE job' = Crossed(w, p, gone)
      BY <3>1, <3>3, CrossedJobs
    <3>4. CASE job' = Crossed(w, p, FALSE)
      BY <3>4, CrossedJobs
    <3> QED  BY <3>2, <3>3, <3>4
  <2>5. Hired' = Hired /\ Free' = Free
    BY <2>3 DEF doors, Hired, Free
  <2>6. Tied(job[w])'
    BY <2>4, IdleType DEF Tied
  <2> QED  BY <2>2, <2>3, <2>4, <2>5, <2>6, StayTied DEF doors
<1>8. ASSUME NEW w \in Worker, InviteStaff(w) PROVE TypeOK' /\ TargetInv'
  <2> DEFINE t == job[w].target
  <2>1. t \in Staff /\ t \notin Hired /\ job[w].role \in Role
    BY <1>8, <1>t DEF InviteStaff, Does, On, Tied, Job
  <2>2. /\ staff' = [staff EXCEPT ![t] = Row(job[w].role, "INVITED")]
        /\ grants' = [grants EXCEPT ![t] = Preset[job[w].role]]
        /\ UNCHANGED <<toggled, signedIn, spent, proof, asked>> /\ Ends(w)
    BY <1>8 DEF InviteStaff
  <2>3. PICK l \in Free : link' = [link EXCEPT ![l] = t]
    BY <1>8 DEF InviteStaff, SendLink
  <2> HIDE DEF t
  <2>4. staff' \in [Staff -> [role : Role, status : Status]] /\ Hired' = Hired \cup {t}
    BY <2>1, <2>2 DEF Hired, Row, Status
  <2>5. grants' \in [Staff -> SUBSET Permission] /\ \A s \in Staff \ Hired' : grants'[s] = {}
    BY <2>1, <2>2, <2>4, PresetType
  <2>6. link' \in [Link -> Hired' \cup {Nobody}] /\ Free' = Free \ {l}
    <3>1. t # Nobody
      BY <2>1, StaffAssumption
    <3> QED  BY <2>1, <2>3, <2>4, <3>1 DEF Free
  <2>7. /\ job' \in [Worker -> Job] /\ job'[w] = Idle
        /\ \A x \in Worker \ {w} : SameRequest(job[x], job'[x])
    BY <2>2, <1>e
  <2>8. Tied(job[w])'
    BY <2>7, IdleType DEF Tied
  <2>9. TargetInv'
    BY <2>4, <2>6, <2>7, <2>8, StayTied
  <2>10. spent' \subseteq Link \ Free'
    BY <2>2, <2>6
  <2>11. signedIn' \subseteq Hired' /\ toggled' \in [Staff -> SUBSET Permission]
         /\ proof' \in [Staff -> {"NONE", "VERIFIED", "USED"}] /\ asked' \in 0 .. MaxRequests
    BY <2>2, <2>4
  <2> QED  BY <2>4, <2>5, <2>6, <2>7, <2>9, <2>10, <2>11
<1>9. ASSUME NEW w \in Worker, InvalidateOutstanding(w) PROVE TypeOK' /\ TargetInv'
  <2> DEFINE t == job[w].target
             j == [job[w] EXCEPT !.pc = "send"]
  <2>1. t \in Hired /\ j \in Job /\ j.pc = "send" /\ j.target = t
    BY <1>9, <1>t DEF InvalidateOutstanding, Does, On, Tied, Job, Pc
  <2>2. /\ spent' = spent \cup Live(t) /\ Becomes(w, j)
        /\ UNCHANGED <<people, signedIn, link, proof, asked>>
    BY <1>9 DEF InvalidateOutstanding
  <2> HIDE DEF t, j
  <2>3. Hired' = Hired /\ Free' = Free
    BY <2>2 DEF people, Hired, Free
  <2>4. spent' \subseteq Link \ Free
    <3>1. t # Nobody
      BY <2>1, StaffAssumption DEF Hired
    <3> QED  BY <2>2, <3>1 DEF Live, Free
  <2>5. /\ job' \in [Worker -> Job] /\ job'[w] = j
        /\ \A x \in Worker \ {w} : SameRequest(job[x], job'[x])
    BY <2>1, <2>2, <1>w
  <2>6. Tied(job[w])'
    BY <2>1, <2>3, <2>5 DEF Tied
  <2> QED  BY <2>2, <2>3, <2>4, <2>5, <2>6, StayTied DEF people
<1>10. ASSUME NEW w \in Worker, ResendInvitation(w) PROVE TypeOK' /\ TargetInv'
  <2> DEFINE t == job[w].target
  <2>1. t \in Hired
    BY <1>10, <1>t DEF ResendInvitation, On, Tied
  <2>2. PICK l \in Free : link' = [link EXCEPT ![l] = t]
    BY <1>10 DEF ResendInvitation, SendLink
  <2>3. Ends(w) /\ UNCHANGED <<people, signedIn, spent, proof, asked>>
    BY <1>10 DEF ResendInvitation
  <2> HIDE DEF t
  <2>4. Hired' = Hired
    BY <2>3 DEF people, Hired
  <2>5. link' \in [Link -> Hired' \cup {Nobody}] /\ Free' = Free \ {l}
    <3>1. t # Nobody
      BY <2>1, StaffAssumption DEF Hired
    <3> QED  BY <2>1, <2>2, <2>4, <3>1 DEF Free
  <2>6. /\ job' \in [Worker -> Job] /\ job'[w] = Idle
        /\ \A x \in Worker \ {w} : SameRequest(job[x], job'[x])
    BY <2>3, <1>e
  <2>7. Tied(job[w])'
    BY <2>6, IdleType DEF Tied
  <2>8. TargetInv'
    BY <2>4, <2>5, <2>6, <2>7, StayTied
  <2> QED  BY <2>3, <2>4, <2>5, <2>6, <2>8 DEF people
<1>11. ASSUME NEW w \in Worker, NEW l \in Link, FindLink(w, l) PROVE TypeOK' /\ TargetInv'
  <2> DEFINE j == [Idle EXCEPT !.pc = "activate", !.kind = "activate", !.link = l,
                               !.target = link[l]]
  <2>1. link[l] \in Hired /\ l \notin Free /\ Becomes(w, j) /\ UNCHANGED <<people, doors>>
        /\ asked' \in 0 .. MaxRequests
    BY <1>11, StaffAssumption DEF FindLink, Usable, Asks, Free
  <2>2. j \in Job /\ j.pc = "activate" /\ j.link = l /\ j.target = link[l]
    <3>1. link[l] \in Staff
      BY <2>1 DEF Hired
    <3> QED  BY <3>1, IdleType DEF Job, Pc, Kind
  <2> HIDE DEF j
  <2>3. /\ job' \in [Worker -> Job] /\ job'[w] = j
        /\ \A x \in Worker \ {w} : SameRequest(job[x], job'[x])
    BY <2>1, <2>2, <1>w
  <2>4. Hired' = Hired /\ Free' = Free
    BY <2>1 DEF people, doors, Hired, Free
  <2>5. Tied(job[w])'
    BY <2>1, <2>2, <2>3, <2>4 DEF Tied
  <2> QED  BY <2>1, <2>3, <2>4, <2>5, StayTied DEF people, doors
<1>12. ASSUME NEW w \in Worker, ConsumeLink(w) \/ RefuseLink(w)
       PROVE  TypeOK' /\ TargetInv'
  <2> DEFINE j == [job[w] EXCEPT !.pc = "consumed", !.was = staff[job[w].target].status]
  <2>1. job[w].target \in Hired /\ job[w].link \in Link \ Free
    BY <1>12, <1>t DEF ConsumeLink, RefuseLink, On, Tied
  <2>2. /\ Becomes(w, j) \/ Ends(w)
        /\ spent' \subseteq spent \cup {job[w].link}
        /\ UNCHANGED <<people, signedIn, link, proof, asked>>
    BY <1>12 DEF ConsumeLink, RefuseLink, doors
  <2>3. j \in Job /\ j.pc = "consumed" /\ j.target = job[w].target /\ j.link = job[w].link
    <3>1. staff[job[w].target].status \in Status
      BY <2>1 DEF Hired
    <3> QED  BY <3>1, <1>t DEF Job, Pc
  <2> HIDE DEF j
  <2>4. /\ job' \in [Worker -> Job] /\ job'[w] \in {Idle, j}
        /\ \A x \in Worker \ {w} : SameRequest(job[x], job'[x])
    BY <2>2, <2>3, <1>w, <1>e
  <2>5. Hired' = Hired /\ Free' = Free
    BY <2>2 DEF people, Hired, Free
  <2>6. Tied(job[w])'
    BY <2>1, <2>3, <2>4, <2>5, IdleType DEF Tied
  <2> QED  BY <2>1, <2>2, <2>4, <2>5, <2>6, StayTied DEF people
<1>13. ASSUME NEW w \in Worker, SetStaffPassword(w) \/ WritePassword(w)
       PROVE  TypeOK' /\ TargetInv'
  <2> DEFINE t == job[w].target
             k == [job[w] EXCEPT !.pc = "sessions"]
  <2>1. t \in Hired /\ On(w, "consumed") => job[w].link \in Link \ Free
    BY <1>13, <1>t DEF Tied, On
  <2>2. t \in Hired
    BY <1>13, <1>t DEF SetStaffPassword, WritePassword, On, Tied
  <2>3. k \in Job /\ k.pc = "sessions" /\ k.target = t
    BY <1>t DEF Job, Pc
  <2>4. /\ staff' = [staff EXCEPT ![t].status = "ACTIVE"]
        /\ UNCHANGED <<grants, toggled, link, proof, asked>>
    BY <1>13 DEF SetStaffPassword, WritePassword, doors
  <2>5. staff' \in [Staff -> [role : Role, status : Status]] /\ Hired' = Hired
    <3> HIDE DEF t
    <3> QED  BY <2>2, <2>4, Rewritten DEF Status
  <2>6. Free' = Free
    BY <2>4 DEF Free
  <2>7. spent' \subseteq Link \ Free
    BY <1>13, <2>1, <2>2 DEF SetStaffPassword, WritePassword, doors, On
  <2>8. signedIn' \subseteq Hired
    BY <1>13, <2>2 DEF SetStaffPassword, WritePassword, doors, LetIn
  <2>9. \E j \in Job : /\ job' = Overtaken(w, t, j)
                       /\ j.pc = "idle" \/ (j.pc = "sessions" /\ j.target = t)
    BY <1>13, <2>3, IdleType DEF SetStaffPassword, WritePassword
  <2>10. PICK j \in Job : /\ job' = Overtaken(w, t, j)
                          /\ j.pc = "idle" \/ (j.pc = "sessions" /\ j.target = t)
    BY <2>9
  <2> HIDE DEF t, k
  <2>11. /\ job' \in [Worker -> Job] /\ job'[w] = j
         /\ \A x \in Worker \ {w} : SameRequest(job[x], job'[x])
    BY <2>2, <2>10, <1>o
  <2>12. Tied(job[w])'
    BY <2>2, <2>5, <2>10, <2>11 DEF Tied
  <2>13. TargetInv'
    BY <2>5, <2>6, <2>11, <2>12, StayTied
  <2> QED  BY <2>4, <2>5, <2>6, <2>7, <2>8, <2>11, <2>13
<1>14. ASSUME NEW s \in Staff, ProveAddress(s) \/ EndSession(s) PROVE TypeOK' /\ TargetInv'
  <2>1. /\ UNCHANGED <<people, link, spent, asked, job>> /\ signedIn' \subseteq signedIn
        /\ proof' \in [Staff -> {"NONE", "VERIFIED", "USED"}]
    BY <1>14 DEF ProveAddress, EndSession
  <2>2. Hired' = Hired /\ Free' = Free
    BY <2>1 DEF people, Hired, Free
  <2>3. TargetInv'
    BY <2>1, <2>2 DEF TargetInv, Tied
  <2> QED  BY <2>1, <2>2, <2>3 DEF people
<1>15. ASSUME NEW w \in Worker, NEW s \in Staff, ConsumeProof(w, s) \/ FindToSignIn(w, s)
       PROVE  TypeOK' /\ TargetInv'
  <2> DEFINE j == [Idle EXCEPT !.pc = "reset", !.kind = "reset", !.target = s,
                               !.was = staff[s].status]
             k == [Idle EXCEPT !.pc = "signIn", !.target = s]
  <2>1. /\ UNCHANGED <<people, signedIn, link, spent>> /\ asked' \in 0 .. MaxRequests
        /\ proof' \in [Staff -> {"NONE", "VERIFIED", "USED"}]
        /\ Becomes(w, j) \/ Becomes(w, k)
    BY <1>15, StaffAssumption DEF ConsumeProof, FindToSignIn, Asks, doors
  <2>2. s \in Hired
    <3>1. CASE FindToSignIn(w, s)
      BY <3>1 DEF FindToSignIn, Hired
    <3>2. CASE ConsumeProof(w, s)
      BY <3>2 DEF ConsumeProof
    <3> QED  BY <1>15, <3>1, <3>2
  <2>3. j \in Job /\ k \in Job /\ j.target = s /\ k.target = s
        /\ j.pc = "reset" /\ k.pc = "signIn"
    BY IdleType DEF Job, Pc, Kind
  <2> HIDE DEF j, k
  <2>4. /\ job' \in [Worker -> Job] /\ job'[w] \in {j, k}
        /\ \A x \in Worker \ {w} : SameRequest(job[x], job'[x])
    BY <2>1, <2>3, <1>w
  <2>5. Hired' = Hired /\ Free' = Free
    BY <2>1 DEF people, Hired, Free
  <2>6. Tied(job[w])'
    BY <2>2, <2>3, <2>4, <2>5 DEF Tied
  <2> QED  BY <2>1, <2>4, <2>5, <2>6, StayTied DEF people
<1>16. ASSUME NEW w \in Worker, SettleSessions(w) \/ TouchLastActive(w) \/ RequestDies(w)
       PROVE  TypeOK' /\ TargetInv'
  <2>1. UNCHANGED <<people, link, spent, proof, asked>>
    BY <1>16 DEF SettleSessions, TouchLastActive, RequestDies, doors
  <2>2. signedIn' \subseteq Hired
    BY <1>16, <1>t DEF SettleSessions, TouchLastActive, RequestDies, doors, LetIn, On, Tied
  <2>3. /\ job' \in [Worker -> Job] /\ job'[w] = Idle
        /\ \A x \in Worker \ {w} : SameRequest(job[x], job'[x])
    <3>1. CASE Ends(w)
      BY <3>1, <1>e
    <3>2. CASE TouchLastActive(w)
      <4>1. job[w].target \in Hired /\ job' = Overtaken(w, job[w].target, Idle)
        BY <3>2, <1>t DEF TouchLastActive, On, Tied
      <4> QED  BY <4>1, <1>o, IdleType
    <3> QED  BY <1>16, <3>1, <3>2 DEF SettleSessions, RequestDies
  <2>4. Hired' = Hired /\ Free' = Free
    BY <2>1 DEF people, Hired, Free
  <2>5. Tied(job[w])'
    BY <2>3, IdleType DEF Tied
  <2> QED  BY <2>1, <2>2, <2>3, <2>4, <2>5, StayTied DEF people
<1>17. ASSUME NEW w \in Worker, CreateSession(w) PROVE TypeOK' /\ TargetInv'
  <2> DEFINE j == [job[w] EXCEPT !.pc = "touch"]
  <2>1. job[w].target \in Hired /\ j \in Job /\ j.pc = "touch" /\ j.target = job[w].target
    BY <1>17, <1>t DEF CreateSession, On, Tied, Job, Pc
  <2>2. /\ Becomes(w, j) /\ signedIn' = signedIn \cup {job[w].target}
        /\ UNCHANGED <<people, link, spent, proof, asked>>
    BY <1>17 DEF CreateSession
  <2> HIDE DEF j
  <2>3. /\ job' \in [Worker -> Job] /\ job'[w] = j
        /\ \A x \in Worker \ {w} : SameRequest(job[x], job'[x])
    BY <2>1, <2>2, <1>w
  <2>4. Hired' = Hired /\ Free' = Free
    BY <2>2 DEF people, Hired, Free
  <2>5. Tied(job[w])'
    BY <2>1, <2>3, <2>4 DEF Tied
  <2> QED  BY <2>1, <2>2, <2>3, <2>4, <2>5, StayTied DEF people
<1> QED  BY <1>1, <1>2, <1>3, <1>4, <1>5, <1>6, <1>7, <1>8, <1>9, <1>10, <1>11, <1>12,
            <1>13, <1>14, <1>15, <1>16, <1>17 DEF Next, Manages, ComesIn

-----------------------------------------------------------------------------
(* An active super admin remains.                                          *)

CountsInv == CountInv /\ PairInv /\ SuperAdminRemains

\* What is open after the step was so before, knows of no fewer conflicts and toggles,
\* and is lost if the row it writes has changed.
Undisturbed ==
  \A x \in Worker : job'[x].pc = "open" =>
    /\ SameRequest(job[x], job'[x])
    /\ job[x].conflicts \subseteq job'[x].conflicts
    /\ job[x].since \subseteq job'[x].since
    /\ "lost" \notin job'[x].conflicts => staff'[job[x].target] = staff[job[x].target]

\* A step that commits no serializable transaction, opens none, and unseats nobody.
LEMMA NobodyUnseated ==
  ASSUME CountsInv, Supers \subseteq Supers',
         Undisturbed
  PROVE  CountsInv'
<1>1. ASSUME NEW x \in Worker, Unseating(x)'
      PROVE  Unseating(x) /\ SameRequest(job[x], job'[x])
             /\ job[x].conflicts \subseteq job'[x].conflicts
  <2>1. job'[x].pc = "open" /\ "lost" \notin job'[x].conflicts
    BY <1>1 DEF Unseating, On, Has
  <2>2. /\ SameRequest(job[x], job'[x]) /\ job[x].conflicts \subseteq job'[x].conflicts
        /\ staff'[job[x].target] = staff[job[x].target]
    BY <2>1 DEF Undisturbed
  <2> QED  BY <1>1, <2>1, <2>2 DEF Unseating, On, Has, ActiveSuper, SameRequest
<1>2. CountInv'
  <2> SUFFICES ASSUME NEW x \in Worker, Unseating(x)'
               PROVE  /\ job'[x].counted # {}
                      /\ job'[x].target \notin job'[x].counted
                      /\ Has(x, "out")' \/ job'[x].counted \subseteq Supers'
                      /\ Has(x, "in")' \/ Others(x)' # {}
    BY DEF CountInv
  <2> QED  BY <1>1 DEF CountsInv, CountInv, SameRequest, Has, Others
<1>3. PairInv'
  <2> SUFFICES ASSUME NEW x \in Worker, NEW y \in Worker, Unseating(x)', Unseating(y)',
                      job'[x].target # job'[y].target
               PROVE  job'[x].target \in job'[y].counted \/ job'[y].target \in job'[x].counted
    BY DEF PairInv
  <2> QED  BY <1>1 DEF CountsInv, PairInv, SameRequest
<1> QED  BY <1>2, <1>3 DEF CountsInv, SuperAdminRemains

\* A snapshot counts all others there are, and so the targets of those open already.
LEMMA SnapshotCounts ==
  ASSUME TypeOK, TargetInv, CountsInv, NEW w \in Worker, OpenTransaction(w)
  PROVE  CountsInv'
<1> DEFINE C == IF Unseats(w) THEN Others(w) ELSE {}
           j == [job[w] EXCEPT !.pc = "open", !.counted = C, !.had = grants[job[w].target]]
<1>1. staff' = staff /\ Supers' = Supers
  BY DEF OpenTransaction, people, Supers, ActiveSuper
<1>2. CASE Ends(w)
  <2>1. \A x \in Worker : job'[x].pc = "open" => job'[x] = job[x]
    BY <1>2, IdleType DEF Ends, Becomes, TypeOK
  <2>2. Undisturbed
    BY <1>1, <2>1 DEF Undisturbed, SameRequest
  <2> QED  BY <1>1, <2>2, NobodyUnseated
<1>3. CASE ~(Unseats(w) /\ Others(w) = {}) /\ Becomes(w, j)
  <2>1. /\ j.pc = "open" /\ j.kind = job[w].kind /\ j.target = job[w].target
        /\ j.role = job[w].role /\ j.counted = C /\ j.conflicts = job[w].conflicts
    BY DEF TypeOK, Job
  <2>2. job'[w] = j /\ \A x \in Worker \ {w} : job'[x] = job[x]
    BY <1>3 DEF Becomes, TypeOK
  <2> HIDE DEF j
  <2>3. Unseating(w)' => Unseats(w)
    BY <1>1, <2>1, <2>2 DEF Unseating, Unseats, ActiveSuper
  <2>4. Unseating(w)' => /\ job'[w].counted = Supers \ {job'[w].target}
                         /\ Others(w)' = job'[w].counted /\ job'[w].counted # {}
    BY <1>1, <1>3, <2>1, <2>2, <2>3 DEF Others
  <2>5. ASSUME NEW x \in Worker \ {w}, Unseating(x)'
        PROVE  Unseating(x) /\ job'[x] = job[x] /\ job'[x].target \in Supers
    <3>1. job'[x] = job[x]
      BY <2>2
    <3>2. Unseating(x)
      BY <2>5, <3>1, <1>1 DEF Unseating, On, Has, ActiveSuper
    <3>3. job[x].target \in Staff
      BY <3>2 DEF Unseating, On, TargetInv, Tied, Hired
    <3> QED  BY <3>1, <3>2, <3>3 DEF Unseating, Supers
  <2>6. CountInv'
    <3> SUFFICES ASSUME NEW x \in Worker, Unseating(x)'
                 PROVE  /\ job'[x].counted # {}
                        /\ job'[x].target \notin job'[x].counted
                        /\ Has(x, "out")' \/ job'[x].counted \subseteq Supers'
                        /\ Has(x, "in")' \/ Others(x)' # {}
      BY DEF CountInv
    <3>1. CASE x = w
      BY <3>1, <2>4, <1>1
    <3>2. CASE x # w
      BY <3>2, <2>5, <1>1 DEF CountsInv, CountInv, Has, Others
    <3> QED  BY <3>1, <3>2
  <2>7. PairInv'
    <3> SUFFICES ASSUME NEW x \in Worker, NEW y \in Worker, Unseating(x)', Unseating(y)',
                        job'[x].target # job'[y].target
                 PROVE  job'[x].target \in job'[y].counted \/ job'[y].target \in job'[x].counted
      BY DEF PairInv
    <3>1. CASE x # w /\ y # w
      BY <3>1, <2>5 DEF CountsInv, PairInv
    <3>2. CASE x = w /\ y # w
      BY <3>2, <2>4, <2>5
    <3>3. CASE x # w /\ y = w
      BY <3>3, <2>4, <2>5
    <3> QED  BY <3>1, <3>2, <3>3
  <2> QED  BY <2>6, <2>7, <1>1 DEF CountsInv, SuperAdminRemains
<1> QED  BY <1>2, <1>3 DEF OpenTransaction

\* A commit writes one row; whom it unseats leaves somebody behind, and a
\* transaction still open that relied on them knows.
LEMMA CommitLeavesOne ==
  ASSUME TypeOK, TargetInv, CountsInv, NEW w \in Worker, On(w, "open"), Serializable(w),
         job[w].target \in Staff, job' = Conflicts(w),
         \A s \in Staff \ {job[w].target} : staff'[s] = staff[s],
         Unseating(w) \/ Supers \subseteq Supers'
  PROVE  CountsInv'
<1> DEFINE t == job[w].target
<1>1. Supers \ {t} \subseteq Supers'
  BY DEF Supers, ActiveSuper
<1>2. /\ job'[w] = Idle
      /\ \A x \in Worker \ {w} :
           /\ SameRequest(job[x], job'[x]) /\ job[x].conflicts \subseteq job'[x].conflicts
           /\ On(x, "open") /\ job[x].target = t => "lost" \in job'[x].conflicts
           /\ On(x, "open") /\ t \in job[x].counted
                => /\ "out" \in job'[x].conflicts
                   /\ Has(w, "out") => "lost" \in job'[x].conflicts
           /\ On(x, "open") /\ job[x].target \in job[w].counted
                => "in" \in job'[x].conflicts
  BY ConflictsJobs DEF TypeOK
<1>3. Unseating(w) => Others(w) # {}
  BY DEF CountsInv, CountInv, Serializable, Others
<1>4. SuperAdminRemains'
  BY <1>1, <1>3 DEF CountsInv, SuperAdminRemains, Others
<1>5. ASSUME NEW x \in Worker, Unseating(x)'
      PROVE  /\ x # w /\ Unseating(x) /\ job[x].target # t /\ job[x].target \in Staff
             /\ SameRequest(job[x], job'[x]) /\ job[x].conflicts \subseteq job'[x].conflicts
  <2>1. x # w
    BY <1>2, <1>5, IdleType DEF Unseating, On
  <2>2. On(x, "open") /\ "lost" \notin job'[x].conflicts
    BY <1>2, <1>5, <2>1 DEF Unseating, On, Has, SameRequest
  <2>3. job[x].target # t
    BY <1>2, <2>1, <2>2
  <2>4. job[x].target \in Staff
    <3>1. job[x] \in Job
      BY DEF TypeOK
    <3> QED  BY <3>1, <2>2 DEF TargetInv, Tied, On, Hired
  <2>5. staff'[job[x].target] = staff[job[x].target]
    BY <2>3, <2>4
  <2> QED  BY <1>2, <1>5, <2>1, <2>2, <2>3, <2>4, <2>5
         DEF Unseating, On, Has, SameRequest, ActiveSuper
<1>6. CountInv'
  <2> SUFFICES ASSUME NEW x \in Worker, Unseating(x)'
               PROVE  /\ job'[x].counted # {}
                      /\ job'[x].target \notin job'[x].counted
                      /\ Has(x, "out")' \/ job'[x].counted \subseteq Supers'
                      /\ Has(x, "in")' \/ Others(x)' # {}
    BY DEF CountInv
  <2>1. /\ x # w /\ Unseating(x) /\ job[x].target # t /\ On(x, "open")
        /\ SameRequest(job[x], job'[x]) /\ job[x].conflicts \subseteq job'[x].conflicts
        /\ "lost" \notin job'[x].conflicts
    BY <1>5 DEF Unseating, Has, On
  <2>2. /\ job[x].counted # {} /\ job[x].target \notin job[x].counted
        /\ Has(x, "out") \/ job[x].counted \subseteq Supers
        /\ Has(x, "in") \/ Others(x) # {}
    BY <2>1 DEF CountsInv, CountInv
  <2>3. job'[x].counted = job[x].counted /\ job'[x].target = job[x].target
    BY <2>1 DEF SameRequest
  <2>4. Has(x, "out")' \/ job'[x].counted \subseteq Supers'
    <3>1. CASE t \in job[x].counted
      BY <1>2, <2>1, <3>1 DEF Has
    <3>2. CASE t \notin job[x].counted
      BY <1>1, <2>1, <2>2, <2>3, <3>2 DEF Has
    <3> QED  BY <3>1, <3>2
  <2>5. Has(x, "in")' \/ Others(x)' # {}
    <3> SUFFICES ASSUME ~Has(x, "in")' PROVE Others(x)' # {}
      OBVIOUS
    <3>1. Others(x) # {} /\ job[x].target \notin job[w].counted
      BY <1>2, <2>1, <2>2 DEF Has
    <3>2. CASE Supers \subseteq Supers'
      BY <3>1, <3>2, <2>3 DEF Others
    <3>3. CASE Unseating(w)
      <4>1. job[w].counted # {} /\ t \notin job[w].counted
            /\ (Has(w, "out") \/ job[w].counted \subseteq Supers)
        BY <3>3 DEF CountsInv, CountInv
      <4>2. CASE ~Has(w, "out")
        BY <4>1, <4>2, <3>1, <2>3, <1>1 DEF Others
      <4>3. CASE Has(w, "out")
        <5>1. t \notin job[x].counted
          BY <4>3, <1>2, <2>1
        <5>2. job[x].target \in job[w].counted
          BY <5>1, <2>1, <3>3 DEF CountsInv, PairInv
        <5> QED  BY <5>2, <3>1
      <4> QED  BY <4>2, <4>3
    <3> QED  BY <3>2, <3>3
  <2> QED  BY <2>2, <2>3, <2>4, <2>5
<1>7. PairInv'
  <2> SUFFICES ASSUME NEW x \in Worker, NEW y \in Worker, Unseating(x)', Unseating(y)',
                      job'[x].target # job'[y].target
               PROVE  job'[x].target \in job'[y].counted \/ job'[y].target \in job'[x].counted
    BY DEF PairInv
  <2> QED  BY <1>5 DEF CountsInv, PairInv, SameRequest
<1> QED  BY <1>4, <1>6, <1>7 DEF CountsInv

-----------------------------------------------------------------------------
(* Permissions follow the role.                                            *)

GrantsInv == UnseenInv /\ GrantsFollowRole

\* A step that changes no role and no permission.
LEMMA GrantsKept ==
  ASSUME GrantsInv, UNCHANGED <<grants, toggled>>, Hired' = Hired, Undisturbed,
         \A s \in Staff : staff'[s].role = staff[s].role
  PROVE  GrantsInv'
<1>1. GrantsFollowRole'
  BY DEF GrantsInv, GrantsFollowRole, Hired
<1>2. UnseenInv'
  <2> SUFFICES ASSUME NEW x \in Worker, On(x, "open")', ~Has(x, "lost")'
               PROVE  Unseen(x)' \subseteq job'[x].since
    BY DEF UnseenInv
  <2>1. /\ SameRequest(job[x], job'[x]) /\ job[x].since \subseteq job'[x].since
        /\ job[x].conflicts \subseteq job'[x].conflicts
    BY DEF Undisturbed, On
  <2>2. Unseen(x) \subseteq job[x].since
    BY <2>1 DEF GrantsInv, UnseenInv, On, Has, SameRequest
  <2> QED  BY <2>1, <2>2 DEF Unseen, SameRequest
<1> QED  BY <1>1, <1>2 DEF GrantsInv

\* Nothing is unseen at the snapshot.
LEMMA SnapshotSees ==
  ASSUME TypeOK, GrantsInv, NEW w \in Worker, OpenTransaction(w)
  PROVE  GrantsInv'
<1>1. UNCHANGED <<staff, grants, toggled>>
  BY DEF OpenTransaction, people
<1>2. \A x \in Worker \ {w} : job'[x] = job[x]
  BY DEF OpenTransaction, Ends, Becomes, TypeOK
<1>3. On(w, "open")' => job'[w].had = grants[job'[w].target]
  <2> DEFINE C == IF Unseats(w) THEN Others(w) ELSE {}
             j == [job[w] EXCEPT !.pc = "open", !.counted = C, !.had = grants[job[w].target]]
  <2>1. j.had = grants[job[w].target] /\ j.target = job[w].target
    BY DEF TypeOK, Job
  <2>2. job' = [job EXCEPT ![w] = Idle] \/ job' = [job EXCEPT ![w] = j]
    BY DEF OpenTransaction, Ends, Becomes
  <2> HIDE DEF j
  <2>3. job'[w] = Idle \/ job'[w] = j
    BY <2>2 DEF TypeOK
  <2> QED  BY <2>1, <2>3, IdleType DEF On
<1>4. UnseenInv'
  <2> SUFFICES ASSUME NEW x \in Worker, On(x, "open")', ~Has(x, "lost")'
               PROVE  Unseen(x)' \subseteq job'[x].since
    BY DEF UnseenInv
  <2>1. CASE x = w
    BY <1>1, <1>3, <2>1 DEF Unseen
  <2>2. CASE x # w
    BY <1>1, <1>2, <2>2 DEF GrantsInv, UnseenInv, Unseen, On, Has
  <2> QED  BY <2>1, <2>2
<1> QED  BY <1>1, <1>4 DEF GrantsInv, GrantsFollowRole, Hired

\* A preset leaves its own permissions and those toggled since its snapshot.
LEMMA PresetReplaces ==
  ASSUME TypeOK, TargetInv, GrantsInv, NEW w \in Worker, ApplyRolePreset(w)
  PROVE  GrantsInv'
<1> DEFINE t == job[w].target
<1>1. t \in Hired /\ t \in Staff /\ job[w].role \in Role
  BY DEF ApplyRolePreset, On, TargetInv, Tied, Hired, TypeOK, Job
<1>2. /\ staff' = [staff EXCEPT ![t].role = job[w].role]
      /\ grants' = [grants EXCEPT ![t] = Replaced(w)]
      /\ toggled' = [toggled EXCEPT ![t] = job[w].since]
      /\ job' = Conflicts(w)
  BY DEF ApplyRolePreset
<1>3. Unseen(w) \subseteq job[w].since
  BY DEF ApplyRolePreset, Serializable, GrantsInv, UnseenInv
<1>4. /\ job'[w] = Idle
      /\ \A x \in Worker \ {w} :
           /\ SameRequest(job[x], job'[x]) /\ job'[x].since = job[x].since
           /\ job[x].conflicts \subseteq job'[x].conflicts
           /\ On(x, "open") /\ job[x].target = t => "lost" \in job'[x].conflicts
  BY <1>2, ConflictsJobs DEF TypeOK
<1> HIDE DEF t
<1>5. GrantsFollowRole'
  <2> SUFFICES ASSUME NEW s \in Hired', NEW p \in Permission, p \notin toggled'[s]
               PROVE  p \in grants'[s] <=> p \in Preset[staff'[s].role]
    BY DEF GrantsFollowRole
  <2>0. s \in Staff
    BY DEF Hired
  <2>1. CASE s = t
    <3>1. grants'[s] = Replaced(w) /\ toggled'[s] = job[w].since /\ staff'[s].role = job[w].role
      BY <1>1, <1>2, <2>1 DEF TypeOK
    <3> QED  BY <3>1, <1>3 DEF Replaced
  <2>2. CASE s # t
    <3>1. grants'[s] = grants[s] /\ toggled'[s] = toggled[s] /\ staff'[s] = staff[s]
      BY <1>2, <2>0, <2>2 DEF TypeOK
    <3> QED  BY <3>1, <2>0 DEF GrantsInv, GrantsFollowRole, Hired
  <2> QED  BY <2>1, <2>2
<1>6. UnseenInv'
  <2> SUFFICES ASSUME NEW x \in Worker, On(x, "open")', ~Has(x, "lost")'
               PROVE  Unseen(x)' \subseteq job'[x].since
    BY DEF UnseenInv
  <2>1. x # w
    BY <1>4, IdleType DEF On
  <2>2. On(x, "open") /\ ~Has(x, "lost") /\ job[x].target # t
    BY <1>4, <2>1 DEF On, Has, SameRequest
  <2>3. job[x].target \in Staff
    BY <2>2 DEF TargetInv, Tied, On, Hired
  <2>4. grants'[job[x].target] = grants[job[x].target]
    BY <1>2, <2>2, <2>3 DEF TypeOK
  <2> QED  BY <1>4, <2>1, <2>2, <2>4 DEF GrantsInv, UnseenInv, Unseen, SameRequest
<1> QED  BY <1>5, <1>6 DEF GrantsInv

\* A toggle is known to the presets it crosses.
LEMMA ToggleIsNoted ==
  ASSUME TypeOK, TargetInv, GrantsInv, NEW w \in Worker, NEW p \in Permission,
         NEW granted \in BOOLEAN, SetPermission(w, p, granted) \/ RevokeTooLate(w, p)
  PROVE  GrantsInv'
<1> DEFINE t == job[w].target
           gone == ~granted /\ p \in grants[t]
<1>1. t \in Staff
  BY DEF SetPermission, RevokeTooLate, Does, On, TargetInv, Tied, Hired
<1>2. /\ staff' = staff /\ toggled' = [toggled EXCEPT ![t] = @ \cup {p}]
      /\ \A s \in Staff \ {t} : grants'[s] = grants[s]
      /\ \A q \in Permission \ {p} : q \in grants'[t] <=> q \in grants[t]
      /\ grants'[t] \subseteq grants[t] \cup {p}
  <2>1. CASE SetPermission(w, p, granted)
    BY <2>1, <1>1 DEF SetPermission, TypeOK
  <2>2. CASE RevokeTooLate(w, p)
    BY <2>2, <1>1 DEF RevokeTooLate, TypeOK
  <2> QED  BY <2>1, <2>2
<1>3. /\ job'[w] = Idle
      /\ \A x \in Worker \ {w} :
           /\ SameRequest(job[x], job'[x]) /\ job[x].since \subseteq job'[x].since
           /\ job[x].conflicts \subseteq job'[x].conflicts
           /\ On(x, "open") /\ job[x].target = t => p \in job'[x].since
  <2>1. gone \in BOOLEAN /\ job \in [Worker -> Job]
    BY DEF TypeOK
  <2>2. job' = Crossed(w, p, gone) \/ job' = Crossed(w, p, FALSE)
    BY DEF SetPermission, RevokeTooLate
  <2> HIDE DEF gone
  <2>3. CASE job' = Crossed(w, p, gone)
    BY <2>1, <2>3, CrossedJobs
  <2>4. CASE job' = Crossed(w, p, FALSE)
    BY <2>1, <2>4, CrossedJobs
  <2> QED  BY <2>2, <2>3, <2>4
<1> HIDE DEF t, gone
<1>4. GrantsFollowRole'
  <2> SUFFICES ASSUME NEW s \in Hired, NEW q \in Permission, q \notin toggled'[s]
               PROVE  q \in grants'[s] <=> q \in Preset[staff[s].role]
    BY <1>2 DEF GrantsFollowRole, Hired
  <2>0. s \in Staff
    BY DEF Hired
  <2>1. CASE s = t
    BY <1>1, <1>2, <2>0, <2>1 DEF TypeOK, GrantsInv, GrantsFollowRole
  <2>2. CASE s # t
    BY <1>1, <1>2, <2>0, <2>2 DEF TypeOK, GrantsInv, GrantsFollowRole
  <2> QED  BY <2>1, <2>2
<1>5. UnseenInv'
  <2> SUFFICES ASSUME NEW x \in Worker, On(x, "open")', ~Has(x, "lost")'
               PROVE  Unseen(x)' \subseteq job'[x].since
    BY DEF UnseenInv
  <2>1. x # w
    BY <1>3, IdleType DEF On
  <2>2. On(x, "open") /\ ~Has(x, "lost")
    BY <1>3, <2>1 DEF On, Has, SameRequest
  <2>3. job[x].target \in Staff
    BY <2>2 DEF TargetInv, Tied, On, Hired
  <2>4. Unseen(x) \subseteq job[x].since
    BY <2>2 DEF GrantsInv, UnseenInv
  <2>5. grants'[job[x].target] \subseteq grants[job[x].target]
        \/ (job[x].target = t /\ grants'[t] \subseteq grants[t] \cup {p})
    BY <1>2, <2>3
  <2> QED  BY <1>3, <2>1, <2>2, <2>4, <2>5 DEF Unseen, SameRequest
<1> QED  BY <1>4, <1>5 DEF GrantsInv

\* A new account holds its preset.
LEMMA InvitedWithPreset ==
  ASSUME TypeOK, TargetInv, GrantsInv, NEW w \in Worker, InviteStaff(w), Undisturbed
  PROVE  GrantsInv'
<1> DEFINE t == job[w].target
<1>1. t \in Staff /\ t \notin Hired /\ job[w].role \in Role
  BY DEF InviteStaff, Does, On, TargetInv, Tied, TypeOK, Job
<1>2. /\ staff' = [staff EXCEPT ![t] = Row(job[w].role, "INVITED")]
      /\ grants' = [grants EXCEPT ![t] = Preset[job[w].role]] /\ toggled' = toggled
  BY DEF InviteStaff
<1> HIDE DEF t
<1>3. GrantsFollowRole'
  <2> SUFFICES ASSUME NEW s \in Hired', NEW p \in Permission, p \notin toggled'[s]
               PROVE  p \in grants'[s] <=> p \in Preset[staff'[s].role]
    BY DEF GrantsFollowRole
  <2>0. s \in Staff
    BY DEF Hired
  <2>1. CASE s = t
    BY <1>1, <1>2, <2>1 DEF TypeOK, Row
  <2>2. CASE s # t
    <3>1. grants'[s] = grants[s] /\ toggled'[s] = toggled[s] /\ staff'[s] = staff[s]
      BY <1>2, <2>0, <2>2 DEF TypeOK
    <3> QED  BY <3>1, <2>0 DEF GrantsInv, GrantsFollowRole, Hired
  <2> QED  BY <2>1, <2>2
<1>4. UnseenInv'
  <2> SUFFICES ASSUME NEW x \in Worker, On(x, "open")', ~Has(x, "lost")'
               PROVE  Unseen(x)' \subseteq job'[x].since
    BY DEF UnseenInv
  <2>1. /\ SameRequest(job[x], job'[x]) /\ job[x].since \subseteq job'[x].since
        /\ job[x].conflicts \subseteq job'[x].conflicts
    BY DEF Undisturbed, On
  <2>2. On(x, "open") /\ ~Has(x, "lost")
    BY <2>1 DEF On, Has, SameRequest
  <2>3. job[x].target \in Hired /\ job[x].target # t
    BY <2>2, <1>1 DEF TargetInv, Tied, On
  <2>4. grants'[job[x].target] = grants[job[x].target]
    BY <1>2, <2>3 DEF TypeOK, Hired
  <2> QED  BY <2>1, <2>2, <2>4 DEF GrantsInv, UnseenInv, Unseen, SameRequest
<1> QED  BY <1>3, <1>4 DEF GrantsInv
-----------------------------------------------------------------------------
(* Steps that disturb nothing open.                                        *)

\* A request that goes on without having opened a transaction.
LEMMA OneMoves ==
  ASSUME TypeOK, NEW w \in Worker, NEW j \in Job, Becomes(w, j), j.pc # "open",
         staff' = staff
  PROVE  Undisturbed
<1>1. job'[w] = j /\ \A x \in Worker \ {w} : job'[x] = job[x]
  BY DEF Becomes, TypeOK
<1> QED  BY <1>1 DEF Undisturbed, SameRequest

\* A row written outside the serializable transactions.
LEMMA OneOvertakes ==
  ASSUME TypeOK, TargetInv, NEW w \in Worker, NEW t \in Staff, NEW j \in Job,
         job' = Overtaken(w, t, j), j.pc # "open",
         \A s \in Staff \ {t} : staff'[s] = staff[s]
  PROVE  Undisturbed
<1>1. /\ job'[w] = j
      /\ \A x \in Worker \ {w} :
           /\ SameRequest(job[x], job'[x]) /\ job'[x].since = job[x].since
           /\ job[x].conflicts \subseteq job'[x].conflicts
           /\ On(x, "open") /\ job[x].target = t => "lost" \in job'[x].conflicts
  BY OvertakenJobs DEF TypeOK
<1> SUFFICES ASSUME NEW x \in Worker, job'[x].pc = "open"
             PROVE  /\ SameRequest(job[x], job'[x])
                    /\ job[x].conflicts \subseteq job'[x].conflicts
                    /\ job[x].since \subseteq job'[x].since
                    /\ "lost" \notin job'[x].conflicts =>
                         staff'[job[x].target] = staff[job[x].target]
  BY DEF Undisturbed
<1>2. x # w /\ On(x, "open")
  BY <1>1 DEF SameRequest, On
<1>3. job[x].target \in Staff
  BY <1>2 DEF TargetInv, Tied, On, Hired
<1> QED  BY <1>1, <1>2, <1>3

\* A suspension or deactivation that commits.
LEMMA CommitOvertakes ==
  ASSUME TypeOK, TargetInv, NEW w \in Worker, job' = Conflicts(w),
         \A s \in Staff \ {job[w].target} : staff'[s] = staff[s]
  PROVE  Undisturbed
<1>1. /\ job'[w] = Idle
      /\ \A x \in Worker \ {w} :
           /\ SameRequest(job[x], job'[x]) /\ job'[x].since = job[x].since
           /\ job[x].conflicts \subseteq job'[x].conflicts
           /\ On(x, "open") /\ job[x].target = job[w].target => "lost" \in job'[x].conflicts
  BY ConflictsJobs DEF TypeOK
<1> SUFFICES ASSUME NEW x \in Worker, job'[x].pc = "open"
             PROVE  /\ SameRequest(job[x], job'[x])
                    /\ job[x].conflicts \subseteq job'[x].conflicts
                    /\ job[x].since \subseteq job'[x].since
                    /\ "lost" \notin job'[x].conflicts =>
                         staff'[job[x].target] = staff[job[x].target]
  BY DEF Undisturbed
<1>2. x # w /\ On(x, "open")
  BY <1>1, IdleType DEF SameRequest, On
<1>3. job[x].target \in Staff
  BY <1>2 DEF TargetInv, Tied, On, Hired
<1> QED  BY <1>1, <1>2, <1>3

\* A toggle writes no Staff row.
LEMMA ToggleDisturbsNothing ==
  ASSUME TypeOK, NEW w \in Worker, NEW p \in Permission, NEW gone \in BOOLEAN,
         job' = Crossed(w, p, gone), staff' = staff
  PROVE  Undisturbed
<1>1. /\ job'[w] = Idle
      /\ \A x \in Worker \ {w} :
           /\ SameRequest(job[x], job'[x]) /\ job[x].since \subseteq job'[x].since
           /\ job[x].conflicts \subseteq job'[x].conflicts
  BY CrossedJobs DEF TypeOK
<1>2. Idle.pc # "open"
  BY IdleType
<1> QED  BY <1>1, <1>2 DEF Undisturbed

\* Open transactions are about other accounts than a new one.
LEMMA InviteDisturbsNothing ==
  ASSUME TypeOK, TargetInv, NEW w \in Worker, InviteStaff(w)
  PROVE  Undisturbed /\ Supers \subseteq Supers'
<1> DEFINE t == job[w].target
<1>1. t \notin Hired /\ staff' = [staff EXCEPT ![t] = Row(job[w].role, "INVITED")]
  BY DEF InviteStaff
<1>2. job'[w] = Idle /\ \A x \in Worker \ {w} : job'[x] = job[x]
  BY DEF InviteStaff, Ends, Becomes, TypeOK
<1> HIDE DEF t
<1>3. \A s \in Hired : staff'[s] = staff[s]
  BY <1>1 DEF Hired, TypeOK
<1>4. Undisturbed
  <2> SUFFICES ASSUME NEW x \in Worker, job'[x].pc = "open"
               PROVE  job'[x] = job[x] /\ job[x].target \in Hired
    BY <1>3 DEF Undisturbed, SameRequest
  <2> QED  BY <1>2, IdleType DEF TargetInv, Tied
<1>5. Supers \subseteq Hired
  BY DEF Supers, ActiveSuper, Hired
<1> QED  BY <1>3, <1>4, <1>5 DEF Supers, ActiveSuper

\* A step that lets everybody be, or activates.
LEMMA Calm ==
  ASSUME CountsInv, GrantsInv, Undisturbed, UNCHANGED <<grants, toggled>>,
         \A s \in Staff : /\ staff'[s].role = staff[s].role
                          /\ (staff'[s].status = "NONE") = (staff[s].status = "NONE")
                          /\ staff[s].status = "ACTIVE" => staff'[s].status = "ACTIVE"
  PROVE  CountsInv' /\ GrantsInv'
<1>1. Hired' = Hired /\ Supers \subseteq Supers'
  BY DEF Hired, Supers, ActiveSuper
<1> QED  BY <1>1, NobodyUnseated, GrantsKept

\* The preset, deactivation or suspension of somebody who counts unseats them.
LEMMA WhoUnseats ==
  ASSUME TypeOK, TargetInv, NEW w \in Worker, On(w, "open"), Serializable(w),
         \A s \in Staff \ {job[w].target} : staff'[s] = staff[s],
         job[w].kind = "preset" /\ job[w].role = "SUPER_ADMIN" =>
           staff'[job[w].target] = [staff[job[w].target] EXCEPT !.role = "SUPER_ADMIN"]
  PROVE  Unseating(w) \/ Supers \subseteq Supers'
<1>1. CASE ActiveSuper(job[w].target) /\ (job[w].kind = "preset" => job[w].role # "SUPER_ADMIN")
  BY <1>1 DEF Unseating, Serializable
<1>2. CASE ~ActiveSuper(job[w].target)
  BY <1>2 DEF Supers, ActiveSuper
<1>3. CASE job[w].kind = "preset" /\ job[w].role = "SUPER_ADMIN"
  <2>1. job[w].target \in Staff
    BY DEF TargetInv, Tied, On, Hired
  <2>2. staff'[job[w].target].role = "SUPER_ADMIN"
        /\ staff'[job[w].target].status = staff[job[w].target].status
    BY <1>3, <2>1 DEF TypeOK
  <2> QED  BY <2>2 DEF Supers, ActiveSuper
<1> QED  BY <1>1, <1>2, <1>3

-----------------------------------------------------------------------------
(* The invariant.                                                          *)

LEMMA InitCounts == Init => CountsInv /\ GrantsInv
<1> SUFFICES ASSUME Init PROVE CountsInv /\ GrantsInv
  OBVIOUS
<1>1. \A w \in Worker : ~On(w, "open")
  BY IdleType DEF Init, On
<1>2. CountInv /\ PairInv /\ UnseenInv
  BY <1>1 DEF CountInv, PairInv, UnseenInv, Unseating
<1>3. SuperAdminRemains
  BY StaffAssumption DEF Init, SuperAdminRemains, Supers, ActiveSuper, Row
<1>4. GrantsFollowRole
  BY DEF Init, GrantsFollowRole, Hired, Row
<1> QED  BY <1>2, <1>3, <1>4 DEF CountsInv, GrantsInv

LEMMA CountsPreserved ==
  ASSUME TypeOK, TargetInv, CountsInv, GrantsInv, [Next]_vars
  PROVE  CountsInv' /\ GrantsInv'
<1>t. ASSUME NEW w \in Worker
      PROVE  job[w] \in Job /\ Tied(job[w])
  BY DEF TargetInv, TypeOK
<1>j. ASSUME UNCHANGED <<people, job>>
      PROVE  CountsInv' /\ GrantsInv'
  <2>1. Undisturbed
    BY <1>j DEF people, Undisturbed, SameRequest
  <2> QED  BY <1>j, <2>1, Calm DEF people
<1>w. ASSUME NEW w \in Worker, NEW j \in Job, Becomes(w, j), j.pc # "open",
             UNCHANGED people
      PROVE  CountsInv' /\ GrantsInv'
  <2>1. UNCHANGED <<staff, grants, toggled>>
    BY <1>w DEF people
  <2>2. Undisturbed
    BY <1>w, <2>1, OneMoves
  <2> QED  BY <2>1, <2>2, Calm
<1>a. ASSUME NEW w \in Worker, NEW j \in Job, j.pc # "open", job[w].target \in Hired,
             job' = Overtaken(w, job[w].target, j), UNCHANGED <<grants, toggled>>,
             staff' = [staff EXCEPT ![job[w].target].status = "ACTIVE"] \/ staff' = staff
      PROVE  CountsInv' /\ GrantsInv'
  <2> DEFINE t == job[w].target
  <2>0. t \in Staff /\ staff[t].status # "NONE"
    BY <1>a DEF Hired
  <2> HIDE DEF t
  <2>1. \A s \in Staff \ {t} : staff'[s] = staff[s]
    BY <1>a DEF TypeOK, t
  <2>2. staff'[t].role = staff[t].role /\ staff'[t].status \in {"ACTIVE", staff[t].status}
    BY <1>a, <2>0 DEF TypeOK, t
  <2>3. Undisturbed
    BY <1>a, <2>0, <2>1, OneOvertakes DEF t
  <2> QED  BY <1>a, <2>0, <2>1, <2>2, <2>3, Calm
<1>1. CASE UNCHANGED vars
  BY <1>1, <1>j DEF vars, people
<1>2. ASSUME NEW w \in Worker, NEW k \in Managed, NEW a \in Staff, NEW t \in Staff,
             NEW r \in Role, Authorise(w, k, a, t, r)
      PROVE  CountsInv' /\ GrantsInv'
  <2> DEFINE j == [Idle EXCEPT !.pc = "authorised", !.kind = k, !.actor = a,
                               !.target = t, !.role = r]
  <2>1. j \in Job /\ j.pc = "authorised"
    BY IdleType DEF Job, Pc, Kind
  <2>2. Becomes(w, j) /\ UNCHANGED people
    BY <1>2 DEF Authorise
  <2> HIDE DEF j
  <2> QED  BY <2>1, <2>2, <1>w
<1>3. ASSUME NEW w \in Worker, OpenTransaction(w) PROVE CountsInv' /\ GrantsInv'
  BY <1>3, SnapshotCounts, SnapshotSees
<1>4. ASSUME NEW w \in Worker, ApplyRolePreset(w) PROVE CountsInv' /\ GrantsInv'
  <2>1. /\ On(w, "open") /\ Serializable(w) /\ job' = Conflicts(w)
        /\ staff' = [staff EXCEPT ![job[w].target].role = job[w].role]
    BY <1>4 DEF ApplyRolePreset
  <2>2. job[w].target \in Staff
    BY <2>1, <1>t DEF Tied, On, Hired
  <2>3. \A s \in Staff \ {job[w].target} : staff'[s] = staff[s]
    BY <2>1 DEF TypeOK
  <2>4. staff'[job[w].target] = [staff[job[w].target] EXCEPT !.role = job[w].role]
    BY <2>1, <2>2 DEF TypeOK
  <2>5. Unseating(w) \/ Supers \subseteq Supers'
    BY <2>1, <2>3, <2>4, WhoUnseats
  <2> QED  BY <1>4, <2>1, <2>2, <2>3, <2>5, CommitLeavesOne, PresetReplaces
<1>5. ASSUME NEW w \in Worker, EndStanding(w) PROVE CountsInv' /\ GrantsInv'
  <2> DEFINE t == job[w].target
             st == IF job[w].kind = "suspend" THEN "SUSPENDED" ELSE "DEACTIVATED"
  <2>1. /\ On(w, "open") /\ Serializable(w) /\ job' = Conflicts(w)
        /\ staff' = [staff EXCEPT ![t].status = st]
        /\ job[w].kind # "preset" /\ UNCHANGED <<grants, toggled>>
    BY <1>5 DEF EndStanding
  <2>2. t \in Staff /\ t \in Hired
    BY <2>1, <1>t DEF Tied, On, Hired
  <2>3. \A s \in Staff \ {t} : staff'[s] = staff[s]
    BY <2>1 DEF TypeOK
  <2>4. Unseating(w) \/ Supers \subseteq Supers'
    BY <2>1, <2>3, WhoUnseats
  <2>5. CountsInv'
    BY <2>1, <2>2, <2>3, <2>4, CommitLeavesOne
  <2>6. Undisturbed
    BY <2>1, <2>3, CommitOvertakes
  <2>7. st \in Status \ {"NONE"}
    BY DEF Status
  <2> HIDE DEF t, st
  <2>8. Hired' = Hired
    BY <2>1, <2>2, <2>7, Rewritten DEF TypeOK
  <2>9. \A s \in Staff : staff'[s].role = staff[s].role
    BY <2>1, <2>2, <2>3 DEF TypeOK
  <2> QED  BY <2>1, <2>5, <2>6, <2>8, <2>9, GrantsKept
<1>6. ASSUME NEW w \in Worker, LiftSuspension(w) PROVE CountsInv' /\ GrantsInv'
  <2>1. job[w].target \in Hired
    BY <1>6, <1>t DEF LiftSuspension, Does, On, Tied
  <2> QED  BY <1>6, <2>1, <1>a, IdleType DEF LiftSuspension
<1>7. ASSUME NEW w \in Worker, NEW p \in Permission, NEW granted \in BOOLEAN,
             SetPermission(w, p, granted) \/ RevokeTooLate(w, p)
      PROVE  CountsInv' /\ GrantsInv'
  <2> DEFINE gone == ~granted /\ p \in grants[job[w].target]
  <2>1. staff' = staff /\ (job' = Crossed(w, p, gone) \/ job' = Crossed(w, p, FALSE))
    BY <1>7 DEF SetPermission, RevokeTooLate
  <2>2. gone \in BOOLEAN
    OBVIOUS
  <2> HIDE DEF gone
  <2>3. Undisturbed
    BY <2>1, <2>2, ToggleDisturbsNothing
  <2>4. Supers' = Supers
    BY <2>1 DEF Supers, ActiveSuper
  <2> QED  BY <1>7, <2>3, <2>4, NobodyUnseated, ToggleIsNoted
<1>8. ASSUME NEW w \in Worker, InviteStaff(w) PROVE CountsInv' /\ GrantsInv'
  BY <1>8, InviteDisturbsNothing, NobodyUnseated, InvitedWithPreset
<1>9. ASSUME NEW w \in Worker,
             InvalidateOutstanding(w) \/ ResendInvitation(w) \/ CreateSession(w)
               \/ SettleSessions(w) \/ RequestDies(w)
      PROVE  CountsInv' /\ GrantsInv'
  <2>1. /\ [job[w] EXCEPT !.pc = "send"] \in Job /\ [job[w] EXCEPT !.pc = "send"].pc # "open"
        /\ [job[w] EXCEPT !.pc = "touch"] \in Job /\ [job[w] EXCEPT !.pc = "touch"].pc # "open"
    BY <1>t DEF Job, Pc
  <2>2. \E j \in Job : j.pc # "open" /\ Becomes(w, j)
    BY <1>9, <2>1, IdleType
       DEF InvalidateOutstanding, ResendInvitation, CreateSession, SettleSessions,
           RequestDies, Ends
  <2>3. UNCHANGED people
    BY <1>9 DEF InvalidateOutstanding, ResendInvitation, CreateSession, SettleSessions,
                RequestDies
  <2> QED  BY <2>2, <2>3, <1>w
<1>10. ASSUME NEW w \in Worker, NEW l \in Link, FindLink(w, l)
       PROVE  CountsInv' /\ GrantsInv'
  <2> DEFINE j == [Idle EXCEPT !.pc = "activate", !.kind = "activate", !.link = l,
                               !.target = link[l]]
  <2>1. link[l] \in Staff /\ Becomes(w, j) /\ UNCHANGED people
    BY <1>10 DEF FindLink, Usable, TypeOK, Hired
  <2>2. j \in Job /\ j.pc = "activate"
    BY <2>1, IdleType DEF Job, Pc, Kind
  <2> HIDE DEF j
  <2> QED  BY <2>1, <2>2, <1>w
<1>11. ASSUME NEW w \in Worker, NEW s \in Staff, ConsumeProof(w, s) \/ FindToSignIn(w, s)
       PROVE  CountsInv' /\ GrantsInv'
  <2> DEFINE j == [Idle EXCEPT !.pc = "reset", !.kind = "reset", !.target = s,
                               !.was = staff[s].status]
             k == [Idle EXCEPT !.pc = "signIn", !.target = s]
  <2>1. staff[s].status \in Status
    BY DEF TypeOK
  <2>2. j \in Job /\ j.pc = "reset" /\ k \in Job /\ k.pc = "signIn"
    BY <2>1, IdleType DEF Job, Pc, Kind
  <2>3. UNCHANGED people /\ (Becomes(w, j) \/ Becomes(w, k))
    BY <1>11 DEF ConsumeProof, FindToSignIn
  <2> HIDE DEF j, k
  <2> QED  BY <2>2, <2>3, <1>w
<1>12. ASSUME NEW w \in Worker,
              SetStaffPassword(w) \/ WritePassword(w) \/ TouchLastActive(w)
       PROVE  CountsInv' /\ GrantsInv'
  <2> DEFINE k == [job[w] EXCEPT !.pc = "sessions"]
  <2>1. job[w].target \in Hired
    BY <1>12, <1>t DEF SetStaffPassword, WritePassword, TouchLastActive, On, Tied
  <2>2. k \in Job /\ k.pc # "open"
    BY <1>t DEF Job, Pc
  <2>3. /\ UNCHANGED <<grants, toggled>>
        /\ job' = Overtaken(w, job[w].target, Idle) \/ job' = Overtaken(w, job[w].target, k)
        /\ staff' = [staff EXCEPT ![job[w].target].status = "ACTIVE"] \/ staff' = staff
    BY <1>12 DEF SetStaffPassword, WritePassword, TouchLastActive, people
  <2> HIDE DEF k
  <2>4. CASE job' = Overtaken(w, job[w].target, Idle)
    BY <2>1, <2>3, <2>4, <1>a, IdleType
  <2>5. CASE job' = Overtaken(w, job[w].target, k)
    BY <2>1, <2>2, <2>3, <2>5, <1>a
  <2> QED  BY <2>3, <2>4, <2>5
<1>13. ASSUME NEW w \in Worker, ConsumeLink(w) \/ RefuseLink(w)
       PROVE  CountsInv' /\ GrantsInv'
  <2> DEFINE j == [job[w] EXCEPT !.pc = "consumed", !.was = staff[job[w].target].status]
  <2>1. staff[job[w].target].status \in Status
    BY <1>13, <1>t DEF ConsumeLink, RefuseLink, On, Tied, Hired, TypeOK
  <2>2. j \in Job /\ j.pc # "open"
    BY <2>1, <1>t DEF Job, Pc
  <2>3. UNCHANGED people /\ (Becomes(w, j) \/ Becomes(w, Idle))
    BY <1>13 DEF ConsumeLink, RefuseLink, Ends
  <2> HIDE DEF j
  <2> QED  BY <2>2, <2>3, <1>w, IdleType
<1>14. ASSUME NEW s \in Staff, ProveAddress(s) \/ EndSession(s)
       PROVE  CountsInv' /\ GrantsInv'
  BY <1>14, <1>j DEF ProveAddress, EndSession
<1> QED  BY <1>1, <1>2, <1>3, <1>4, <1>5, <1>6, <1>7, <1>8, <1>9, <1>10, <1>11, <1>12,
            <1>13, <1>14 DEF Next, Manages, ComesIn

\* The inductive invariant holds of every behaviour, for all accounts and requests.
THEOREM Invariance == Spec => []Inv
<1>1. Init => Inv
  BY InitTypes, InitCounts DEF Inv, CountsInv, GrantsInv
<1>2. Inv /\ [Next]_vars => Inv'
  BY TypesPreserved, CountsPreserved DEF Inv, CountsInv, GrantsInv
<1> QED  BY <1>1, <1>2, PTL DEF Spec

\* Every account, link and request is one the schema admits (TypeOK).
THEOREM TypeCorrect == Spec => []TypeOK
<1>1. Inv => TypeOK
  BY DEF Inv
<1> QED  BY <1>1, Invariance, PTL

\* However many presets, suspensions and deactivations are open at once, they leave an
\* active super admin.
THEOREM AlwaysASuperAdmin == Spec => []SuperAdminRemains
<1>1. Inv => SuperAdminRemains
  BY DEF Inv
<1> QED  BY <1>1, Invariance, PTL

\* However presets and toggles cross, permissions are the role's but for those toggled.
THEOREM GrantsAlwaysFollow == Spec => []GrantsFollowRole
<1>1. Inv => GrantsFollowRole
  BY DEF Inv
<1> QED  BY <1>1, Invariance, PTL
===============================================================================
