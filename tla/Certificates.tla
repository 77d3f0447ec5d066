----------------------------- MODULE Certificates -----------------------------
(***************************************************************************)
(* Certificates (src/lib/certificate-actions.ts): issued for a passed      *)
(* sitting, for a completed course without an examination, or by hand;     *)
(* revoked; re-issued under a new number that points back at the old one.  *)
(*                                                                         *)
(* Rows are numbered in the order of the certificate number sequence, so a *)
(* row's id is its number; 0 is SQL's NULL.  Revocation, re-issue and      *)
(* course completion read a row without locking it: between the read and   *)
(* the write such a request is a job of a worker.                          *)
(***************************************************************************)
EXTENDS Naturals, FiniteSets

CONSTANTS
  Holder,           \* a candidate with one programme
  Course,           \* the holders whose programme has no examination
  Sitting,          \* examination sittings
  Null,             \* SQL's NULL where a sitting or holder could stand
  Worker,           \* requests in flight at once
  MaxCertificates   \* bound on rows created

Certificate == 1 .. MaxCertificates
CertificateStatus == {"NONE", "ACTIVE", "REVOKED", "SUPERSEDED"}

ASSUME CertificateAssumption ==
  /\ Null \notin Holder \cup Sitting
  /\ Course \subseteq Holder
  /\ MaxCertificates \in Nat

VARIABLES
  cert,       \* Certificate rows
  template,   \* whether an active template covers the programme's tier
  passed,     \* whose pass a sitting's result on record is; Null if it is none
  job         \* what each worker is in the middle of

vars == <<cert, template, passed, job>>

-----------------------------------------------------------------------------
NoCertificate == [status |-> "NONE", holder |-> Null, sitting |-> Null,
                  replaces |-> 0, supersededBy |-> 0]
Idle == [pc |-> "idle", cert |-> 0, holder |-> Null, status |-> "NONE"]

OnRecord(k) == cert[k].status # "NONE"
NextNumber(k) == /\ ~OnRecord(k)
                 /\ \A j \in Certificate : j < k => OnRecord(j)

\* The bound on rows refuses a request that starts, never one under way.
SpareCertificate ==
  Cardinality({w \in Worker : job[w].pc \in {"course", "reissue"}})
    < Cardinality({k \in Certificate : ~OnRecord(k)})

Issued(h, s) == [NoCertificate EXCEPT !.status = "ACTIVE", !.holder = h, !.sitting = s]

\* The check under the lock of the Sitting row, and the unique column: a sitting
\* that has a certificate, in whatever state, gets no other.
Uncertified(s) == \A k \in Certificate : cert[k].sitting # s

\* mutant: neither column is unique
SuccessorAlways(k) == TRUE

\* replacesId and supersededById are unique: one successor per certificate.
SuccessorAdmitted(k) == \A j \in Certificate : cert[j].replaces # k

-----------------------------------------------------------------------------
Init ==
  /\ cert = [k \in Certificate |-> NoCertificate]
  /\ template = FALSE
  /\ passed = [s \in Sitting |-> Null]
  /\ job = [w \in Worker |-> Idle]

\* releaseResults records a pass; a second release under way may record a referral
\* over it.
PassSitting(s, h) ==
  /\ passed[s] = Null
  /\ h \notin Course
  /\ passed' = [passed EXCEPT ![s] = h]
  /\ UNCHANGED <<cert, template, job>>

ReferSitting(s) ==
  /\ passed[s] # Null
  /\ passed' = [passed EXCEPT ![s] = Null]
  /\ UNCHANGED <<cert, template, job>>

\* activateTemplate: from the first activation on, a tier always has one.
ActivateTemplate ==
  /\ ~template
  /\ template' = TRUE
  /\ UNCHANGED <<cert, passed, job>>

\* issueCertificate, from the release and from the bulk issue that catches up: one
\* transaction under the lock of the sitting.
IssueCertificate(s) ==
  /\ passed[s] # Null
  /\ Uncertified(s)
  /\ template
  /\ SpareCertificate
  /\ \E k \in Certificate :
       /\ NextNumber(k)
       /\ cert' = [cert EXCEPT ![k] = Issued(passed[s], s)]
  /\ UNCHANGED <<template, passed, job>>

\* issueCertificateManually asks for a reason and a template, and for nothing else.
IssueCertificateManually(h) ==
  /\ template
  /\ SpareCertificate
  /\ \E k \in Certificate :
       /\ NextNumber(k)
       /\ cert' = [cert EXCEPT ![k] = Issued(h, Null)]
  /\ UNCHANGED <<template, passed, job>>

\* issueCertificateForCourseCompletion looks for an active certificate first ...
CompleteCourse(w, h) ==
  /\ job[w].pc = "idle"
  /\ h \in Course
  /\ \A k \in Certificate : cert[k].holder = h => cert[k].status # "ACTIVE"
  /\ template
  /\ SpareCertificate
  /\ job' = [job EXCEPT ![w] = [Idle EXCEPT !.pc = "course", !.holder = h]]
  /\ UNCHANGED <<cert, template, passed>>

\* ... and inserts one, with nothing locked in between.
MintCourseCertificate(w) ==
  /\ job[w].pc = "course"
  /\ \E k \in Certificate :
       /\ NextNumber(k)
       /\ cert' = [cert EXCEPT ![k] = Issued(job[w].holder, Null)]
  /\ job' = [job EXCEPT ![w] = Idle]
  /\ UNCHANGED <<template, passed>>

\* mutant: a number nobody holds is not refused
FindToRevokeAny(w, k) ==
  /\ job[w].pc = "idle"
  /\ cert[k].status \notin {"REVOKED", "SUPERSEDED"}
  /\ job' = [job EXCEPT ![w] =
       [Idle EXCEPT !.pc = "revoke", !.cert = k, !.status = "ACTIVE"]]
  /\ UNCHANGED <<cert, template, passed>>

\* revokeCertificate: what is revoked or superseded is refused when read.
FindToRevoke(w, k) ==
  /\ job[w].pc = "idle"
  /\ cert[k].status = "ACTIVE"
  /\ job' = [job EXCEPT ![w] =
       [Idle EXCEPT !.pc = "revoke", !.cert = k, !.status = "ACTIVE"]]
  /\ UNCHANGED <<cert, template, passed>>

RevokeCertificate(w) ==
  /\ job[w].pc = "revoke"
  /\ cert' = [cert EXCEPT ![job[w].cert].status = "REVOKED"]
  /\ job' = [job EXCEPT ![w] = Idle]
  /\ UNCHANGED <<template, passed>>

\* reissueCertificate: a revoked one may be re-issued, a superseded one may not.
FindToReissue(w, k) ==
  /\ job[w].pc = "idle"
  /\ cert[k].status \in {"ACTIVE", "REVOKED"}
  /\ template
  /\ SpareCertificate
  /\ job' = [job EXCEPT ![w] =
       [Idle EXCEPT !.pc = "reissue", !.cert = k, !.status = cert[k].status]]
  /\ UNCHANGED <<cert, template, passed>>

\* mutants: an upheld appeal restores the original; the original keeps what it was
ReplacedRestored(seen) == IF seen = "REVOKED" THEN "ACTIVE" ELSE "SUPERSEDED"
ReplacedKept(seen) == seen

\* What the original becomes, from the status it was read with.
Replaced(seen) == IF seen = "REVOKED" THEN "REVOKED" ELSE "SUPERSEDED"

ReissueCertificate(w) ==
  /\ job[w].pc = "reissue"
  /\ LET k == job[w].cert IN
     IF SuccessorAdmitted(k)
     THEN \E j \in Certificate :
            /\ NextNumber(j)
            /\ cert' = [cert EXCEPT
                 ![k] = [@ EXCEPT !.status = Replaced(job[w].status),
                                  !.supersededBy = j],
                 ![j] = [Issued(cert[k].holder, Null) EXCEPT !.replaces = k]]
     ELSE cert' = cert
  /\ job' = [job EXCEPT ![w] = Idle]
  /\ UNCHANGED <<template, passed>>

\* A transaction is rolled back: nothing of it stays.
RequestDies(w) ==
  /\ job[w].pc # "idle"
  /\ job' = [job EXCEPT ![w] = Idle]
  /\ UNCHANGED <<cert, template, passed>>

Arrive(w) ==
  \/ \E h \in Holder : CompleteCourse(w, h)
  \/ \E k \in Certificate : FindToRevoke(w, k) \/ FindToReissue(w, k)

Proceed(w) ==
  MintCourseCertificate(w) \/ RevokeCertificate(w) \/ ReissueCertificate(w)

Next ==
  \/ \E s \in Sitting : ReferSitting(s) \/ IssueCertificate(s)
  \/ \E s \in Sitting, h \in Holder : PassSitting(s, h)
  \/ \E h \in Holder : IssueCertificateManually(h)
  \/ ActivateTemplate
  \/ \E w \in Worker : Arrive(w) \/ Proceed(w) \/ RequestDies(w)

Spec == Init /\ [][Next]_vars

-----------------------------------------------------------------------------
CertificateRow == [status : CertificateStatus, holder : Holder \cup {Null},
                   sitting : Sitting \cup {Null}, replaces : {0} \cup Certificate,
                   supersededBy : {0} \cup Certificate]
Job == [pc : {"idle", "course", "revoke", "reissue"}, cert : {0} \cup Certificate,
        holder : Holder \cup {Null}, status : CertificateStatus]

\* Type correctness: every row is one the schema admits, and a request under way
\* names the row it is about to write, one that is on record.
TypeOK ==
  /\ cert \in [Certificate -> CertificateRow]
  /\ template \in BOOLEAN
  /\ passed \in [Sitting -> Holder \cup {Null}]
  /\ job \in [Worker -> Job]
  /\ \A w \in Worker :
       /\ job[w].pc = "course" => job[w].holder \in Holder
       /\ job[w].pc \in {"revoke", "reissue"} =>
            job[w].cert \in Certificate /\ OnRecord(job[w].cert)

\* The two directions of a re-issue, which reissueCertificate writes independently,
\* agree however re-issues and revocations of one certificate cross: nobody follows
\* a link from a certificate to a successor that replaces something else.
LinksAgree ==
  \A j, k \in Certificate : cert[j].replaces = k <=> cert[k].supersededBy = j

\* The line of an award: a certificate, whatever replaces it, and so on.
Successors(S) == {k \in Certificate : cert[k].replaces \in S}
Line(k) ==
  {j \in Certificate :
     \A S \in SUBSET Certificate : k \in S /\ Successors(S) \subseteq S => j \in S}

\* The public register never shows two valid certificates for one award: re-issues,
\* revocations and appeals of one certificate leave at most one of its line valid,
\* and a sitting starts one line only.
OneValidPerAward ==
  /\ \A j, k \in Certificate :
       /\ cert[j].status = "ACTIVE" /\ cert[k].status = "ACTIVE"
       /\ \E i \in Certificate : j \in Line(i) /\ k \in Line(i)
       => j = k
  /\ \A j, k \in Certificate : cert[j].sitting = cert[k].sitting /\ cert[j].sitting # Null
         => j = k

\* A certificate that was revoked or superseded never verifies as valid again: an
\* upheld appeal is a new certificate.
NeverValidAgain ==
  [][\A k \in Certificate : cert[k].status \in {"REVOKED", "SUPERSEDED"} =>
                            cert'[k].status # "ACTIVE"]_vars

=============================================================================
