-------------------------- MODULE Certificates_proofs --------------------------
(***************************************************************************)
(* Theorems of Certificates, for any holders, sittings, requests and       *)
(* bounds: type correctness, the agreement of the two links of a re-issue, *)
(* that a line of re-issues has one valid certificate, and that an invalid *)
(* certificate stays invalid.                                              *)
(***************************************************************************)
EXTENDS Certificates, TLAPS

\* A number nobody holds has an empty row.
Blank == \A k \in Certificate : ~OnRecord(k) => cert[k] = NoCertificate

\* Every certificate is somebody's.
Held == \A k \in Certificate : OnRecord(k) => cert[k].holder \in Holder

\* A valid certificate has no successor; a sitting has one certificate.
ValidIsLast == \A k \in Certificate : cert[k].status = "ACTIVE" => cert[k].supersededBy = 0
OnePerSitting ==
  \A j, k \in Certificate : cert[j].sitting = cert[k].sitting /\ cert[j].sitting # Null
    => j = k

Inv == TypeOK /\ Blank /\ Held /\ LinksAgree /\ ValidIsLast /\ OnePerSitting

-----------------------------------------------------------------------------
LEMMA NumbersArePositive == 0 \notin Certificate
BY DEF Certificate

LEMMA EmptyRow == /\ NoCertificate \in CertificateRow
                  /\ Idle \in Job
BY DEF NoCertificate, Idle, CertificateRow, Job, CertificateStatus

\* The row of a new certificate, whoever issues it.
LEMMA IssuedRow ==
  ASSUME NEW h \in Holder, NEW s \in Sitting \cup {Null}
  PROVE  /\ Issued(h, s) \in CertificateRow
         /\ Issued(h, s).status = "ACTIVE"
         /\ Issued(h, s).holder = h
         /\ Issued(h, s).sitting = s
         /\ Issued(h, s).replaces = 0
         /\ Issued(h, s).supersededBy = 0
BY DEF Issued, NoCertificate, CertificateRow, CertificateStatus

\* The invariant holds before anything is issued.
LEMMA InitInv == Init => Inv
<1> SUFFICES ASSUME Init PROVE Inv
  OBVIOUS
<1>1. /\ \A k \in Certificate : cert[k] = NoCertificate
      /\ \A w \in Worker : job[w] = Idle
  BY DEF Init
<1>2. TypeOK
  <2>1. cert \in [Certificate -> CertificateRow] /\ job \in [Worker -> Job]
    BY EmptyRow DEF Init
  <2>2. passed \in [Sitting -> Holder \cup {Null}] /\ template \in BOOLEAN
    BY DEF Init
  <2>3. \A w \in Worker : job[w].pc = "idle"
    BY <1>1 DEF Idle
  <2> QED BY <2>1, <2>2, <2>3 DEF TypeOK
<1>3. Blank
  BY <1>1 DEF Blank
<1>4. LinksAgree
  BY <1>1, NumbersArePositive DEF LinksAgree, NoCertificate
<1>5. ValidIsLast
  BY <1>1 DEF ValidIsLast, NoCertificate
<1>6. OnePerSitting
  BY <1>1 DEF OnePerSitting, NoCertificate
<1>7. Held
  BY <1>1 DEF Held, OnRecord, NoCertificate
<1> QED BY <1>2, <1>3, <1>4, <1>5, <1>6, <1>7 DEF Inv

-----------------------------------------------------------------------------
(* What the steps do to the rows: nothing, a new row, a revocation, or a    *)
(* re-issue.  Each preserves the invariant.                                 *)

\* A row is issued under the next number, for a sitting that has none or for none.
Issues(k, h, s) ==
  /\ k \in Certificate /\ h \in Holder /\ s \in Sitting \cup {Null}
  /\ ~OnRecord(k)
  /\ s # Null => Uncertified(s)
  /\ cert' = [cert EXCEPT ![k] = Issued(h, s)]

Revokes(k) ==
  /\ k \in Certificate /\ OnRecord(k)
  /\ cert' = [cert EXCEPT ![k].status = "REVOKED"]

Reissues(k, j, status) ==
  /\ k \in Certificate /\ j \in Certificate
  /\ OnRecord(k) /\ ~OnRecord(j)
  /\ SuccessorAdmitted(k)
  /\ status \in {"REVOKED", "SUPERSEDED"}
  /\ cert' = [cert EXCEPT
       ![k] = [@ EXCEPT !.status = status, !.supersededBy = j],
       ![j] = [Issued(cert[k].holder, Null) EXCEPT !.replaces = k]]

RowsInv == /\ cert \in [Certificate -> CertificateRow]
           /\ Blank /\ Held /\ LinksAgree /\ ValidIsLast /\ OnePerSitting

\* Issuing keeps the rows sound, and makes no invalid one valid.
LEMMA IssuesKeeps ==
  ASSUME RowsInv, NEW k, NEW h, NEW s, Issues(k, h, s)
  PROVE  RowsInv' /\ \A i \in Certificate : OnRecord(i) => cert'[i] = cert[i]
<1>1. /\ k \in Certificate /\ h \in Holder /\ s \in Sitting \cup {Null}
      /\ ~OnRecord(k)
      /\ s # Null => Uncertified(s)
  BY DEF Issues
<1>2. PICK n : n = Issued(h, s)
  OBVIOUS
<1>3. /\ n \in CertificateRow /\ n.status = "ACTIVE" /\ n.sitting = s /\ n.holder = h
      /\ n.replaces = 0 /\ n.supersededBy = 0
  BY <1>1, <1>2, IssuedRow
<1>4. cert \in [Certificate -> CertificateRow]
  BY DEF RowsInv
<1>5. /\ cert' \in [Certificate -> CertificateRow]
      /\ cert'[k] = n
      /\ \A i \in Certificate : i # k => cert'[i] = cert[i]
  BY <1>1, <1>2, <1>3, <1>4 DEF Issues
<1>6. cert[k].replaces = 0 /\ cert[k].supersededBy = 0
  BY <1>1 DEF RowsInv, Blank, NoCertificate
<1>7. Blank'
  BY <1>3, <1>5 DEF RowsInv, Blank, OnRecord
<1>8. LinksAgree'
  BY <1>1, <1>3, <1>5, <1>6, NumbersArePositive DEF RowsInv, LinksAgree
<1>9. ValidIsLast'
  BY <1>3, <1>5 DEF RowsInv, ValidIsLast
<1>10. OnePerSitting'
  BY <1>1, <1>3, <1>5 DEF RowsInv, OnePerSitting, Uncertified
<1>11. Held'
  BY <1>1, <1>3, <1>5 DEF RowsInv, Held, OnRecord
<1> QED BY <1>1, <1>5, <1>7, <1>8, <1>9, <1>10, <1>11 DEF RowsInv

\* A revocation changes a status and nothing else.
LEMMA RevokesKeeps ==
  ASSUME RowsInv, NEW k, Revokes(k)
  PROVE  /\ RowsInv'
         /\ \A i \in Certificate : OnRecord(i) => OnRecord(i)'
         /\ cert'[k].status = "REVOKED"
         /\ \A i \in Certificate : i # k => cert'[i] = cert[i]
<1>1. k \in Certificate /\ OnRecord(k)
  BY DEF Revokes
<1>2. PICK n : n = [cert[k] EXCEPT !.status = "REVOKED"]
  OBVIOUS
<1>3. cert[k] \in CertificateRow /\ cert \in [Certificate -> CertificateRow]
  BY <1>1 DEF RowsInv
<1>4. /\ n \in CertificateRow /\ n.status = "REVOKED"
      /\ n.sitting = cert[k].sitting /\ n.replaces = cert[k].replaces
      /\ n.supersededBy = cert[k].supersededBy /\ n.holder = cert[k].holder
  BY <1>2, <1>3 DEF CertificateRow, CertificateStatus
<1>5. /\ cert' \in [Certificate -> CertificateRow]
      /\ cert'[k] = n
      /\ \A i \in Certificate : i # k => cert'[i] = cert[i]
  BY <1>1, <1>2, <1>3, <1>4 DEF Revokes
<1>6. Blank' /\ \A i \in Certificate : OnRecord(i) => OnRecord(i)'
  BY <1>4, <1>5 DEF RowsInv, Blank, OnRecord
<1>7. LinksAgree'
  BY <1>1, <1>4, <1>5 DEF RowsInv, LinksAgree
<1>8. ValidIsLast'
  BY <1>4, <1>5 DEF RowsInv, ValidIsLast
<1>9. OnePerSitting'
  BY <1>1, <1>4, <1>5 DEF RowsInv, OnePerSitting
<1>10. Held'
  BY <1>1, <1>4, <1>5 DEF RowsInv, Held, OnRecord
<1> QED BY <1>4, <1>5, <1>6, <1>7, <1>8, <1>9, <1>10 DEF RowsInv

\* A re-issue writes both links at once, to a number that nothing referred to; the
\* unique columns see to it that the original had no successor yet.
LEMMA ReissuesKeeps ==
  ASSUME RowsInv, NEW k, NEW j, NEW status, Reissues(k, j, status)
  PROVE  /\ RowsInv'
         /\ \A i \in Certificate : OnRecord(i) => OnRecord(i)'
         /\ cert'[k].status = status
         /\ cert'[j].holder = cert[k].holder
         /\ \A i \in Certificate \ {j, k} : cert'[i] = cert[i]
<1>1. /\ k \in Certificate /\ j \in Certificate /\ j # k
      /\ OnRecord(k) /\ ~OnRecord(j)
      /\ SuccessorAdmitted(k)
      /\ status \in {"REVOKED", "SUPERSEDED"}
  BY DEF Reissues
<1>2. PICK m : m = [cert[k] EXCEPT !.status = status, !.supersededBy = j]
  OBVIOUS
<1>3. PICK n : n = [Issued(cert[k].holder, Null) EXCEPT !.replaces = k]
  OBVIOUS
<1>4. /\ cert[k] \in CertificateRow /\ cert \in [Certificate -> CertificateRow]
      /\ cert[k].holder \in Holder
  BY <1>1 DEF RowsInv, Held
<1>5. /\ m \in CertificateRow /\ m.status = status /\ m.supersededBy = j
      /\ m.sitting = cert[k].sitting /\ m.replaces = cert[k].replaces
      /\ m.holder = cert[k].holder
  BY <1>1, <1>2, <1>4 DEF CertificateRow, CertificateStatus
<1>6. /\ n \in CertificateRow /\ n.status = "ACTIVE" /\ n.supersededBy = 0
      /\ n.sitting = Null /\ n.replaces = k /\ n.holder = cert[k].holder
  BY <1>1, <1>3, <1>4 DEF Issued, NoCertificate, CertificateRow, CertificateStatus
<1>7. /\ cert' \in [Certificate -> CertificateRow]
      /\ cert'[k] = m /\ cert'[j] = n
      /\ \A i \in Certificate : i # j /\ i # k => cert'[i] = cert[i]
  BY <1>1, <1>2, <1>3, <1>4, <1>5, <1>6 DEF Reissues
<1>8. cert[j].replaces = 0 /\ cert[j].supersededBy = 0 /\ cert[j].sitting = Null
  BY <1>1 DEF RowsInv, Blank, NoCertificate
<1>9. cert[k].supersededBy \notin Certificate
  BY <1>1 DEF RowsInv, LinksAgree, SuccessorAdmitted
<1>10. Blank' /\ \A i \in Certificate : OnRecord(i) => OnRecord(i)'
  BY <1>1, <1>5, <1>6, <1>7 DEF RowsInv, Blank, OnRecord
<1>11. LinksAgree'
  <2> SUFFICES ASSUME NEW a \in Certificate, NEW b \in Certificate
               PROVE  cert'[a].replaces = b <=> cert'[b].supersededBy = a
    BY DEF LinksAgree
  <2>1. cert[a].replaces = b <=> cert[b].supersededBy = a
    BY DEF RowsInv, LinksAgree
  <2>2. cert[a].replaces # k /\ cert[b].supersededBy # j
    BY <1>1, <1>8, NumbersArePositive DEF RowsInv, LinksAgree, SuccessorAdmitted
  <2>3. CASE a = j
    BY <2>1, <2>2, <2>3, <1>1, <1>5, <1>6, <1>7, <1>8, NumbersArePositive
  <2>4. CASE a # j /\ b = k
    BY <2>1, <2>2, <2>4, <1>1, <1>5, <1>6, <1>7, <1>8
  <2>5. CASE a # j /\ b # k
    <3>1. cert'[a].replaces = cert[a].replaces
      BY <2>5, <1>5, <1>7
    <3>2. cert'[b].supersededBy = cert[b].supersededBy
      BY <2>5, <1>6, <1>7, <1>8
    <3> QED BY <2>1, <3>1, <3>2
  <2> QED BY <2>3, <2>4, <2>5
<1>12. ValidIsLast'
  BY <1>1, <1>5, <1>6, <1>7 DEF RowsInv, ValidIsLast
<1>13. OnePerSitting'
  BY <1>1, <1>5, <1>6, <1>7 DEF RowsInv, OnePerSitting
<1>14. Held'
  BY <1>1, <1>4, <1>5, <1>6, <1>7 DEF RowsInv, Held, OnRecord
<1> QED BY <1>1, <1>5, <1>6, <1>7, <1>10, <1>11, <1>12, <1>13, <1>14 DEF RowsInv

-----------------------------------------------------------------------------
(* The requests under way.                                                 *)

JobsInv ==
  /\ job \in [Worker -> Job]
  /\ \A w \in Worker :
       /\ job[w].pc = "course" => job[w].holder \in Holder
       /\ job[w].pc \in {"revoke", "reissue"} =>
            job[w].cert \in Certificate /\ OnRecord(job[w].cert)

Stays == \A k \in Certificate : OnRecord(k) => OnRecord(k)'

\* A row on record stays on record, so whoever is about to write it still may.
LEMMA JobsStay ==
  ASSUME JobsInv, Stays, job' = job
  PROVE  JobsInv'
<1>1. /\ job' \in [Worker -> Job]
      /\ \A w \in Worker : job'[w].pc = "course" => job'[w].holder \in Holder
  BY DEF JobsInv
<1>2. ASSUME NEW w \in Worker, job'[w].pc \in {"revoke", "reissue"}
      PROVE  job'[w].cert \in Certificate /\ OnRecord(job[w].cert)'
  <2>1. job[w].cert \in Certificate /\ OnRecord(job[w].cert)
    BY <1>2 DEF JobsInv
  <2> QED BY <2>1 DEF Stays, OnRecord
<1> QED BY <1>1, <1>2 DEF JobsInv, OnRecord

\* One worker takes up a job that names what it needs, or puts one down.
LEMMA JobsMove ==
  ASSUME JobsInv, Stays, NEW v \in Worker, NEW n \in Job,
         job' = [job EXCEPT ![v] = n],
         n.pc = "course" => n.holder \in Holder,
         n.pc \in {"revoke", "reissue"} => n.cert \in Certificate /\ OnRecord(n.cert)
  PROVE  JobsInv'
<1>1. /\ job' \in [Worker -> Job]
      /\ job'[v] = n
      /\ \A w \in Worker : w # v => job'[w] = job[w]
  BY DEF JobsInv
<1>2. \A w \in Worker : job'[w].pc = "course" => job'[w].holder \in Holder
  BY <1>1 DEF JobsInv
<1>3. ASSUME NEW w \in Worker, job'[w].pc \in {"revoke", "reissue"}
      PROVE  job'[w].cert \in Certificate /\ cert'[job'[w].cert].status # "NONE"
  <2>1. CASE w = v
    BY <2>1, <1>1, <1>3 DEF Stays, OnRecord
  <2>2. CASE w # v
    <3>1. job[w].cert \in Certificate /\ OnRecord(job[w].cert) /\ job'[w] = job[w]
      BY <2>2, <1>1, <1>3 DEF JobsInv
    <3> QED BY <3>1 DEF Stays, OnRecord
  <2> QED BY <2>1, <2>2
<1> QED BY <1>1, <1>2, <1>3 DEF JobsInv, OnRecord

LEMMA InvParts ==
  Inv <=> /\ RowsInv /\ JobsInv
          /\ template \in BOOLEAN
          /\ passed \in [Sitting -> Holder \cup {Null}]
BY DEF Inv, TypeOK, RowsInv, JobsInv

\* What invalid certificates may become in a step: never valid.
StaysInvalid ==
  \A k \in Certificate : cert[k].status \in {"REVOKED", "SUPERSEDED"} =>
                          cert'[k].status # "ACTIVE"

-----------------------------------------------------------------------------
(* One lemma for each group of actions.                                    *)

Goal == Inv' /\ StaysInvalid

\* Results and templates change no certificate.
LEMMA OthersKeep ==
  ASSUME Inv,
         \/ \E s \in Sitting : ReferSitting(s)
         \/ \E s \in Sitting, h \in Holder : PassSitting(s, h)
         \/ ActivateTemplate
         \/ UNCHANGED vars
  PROVE  Goal
<1>1. cert' = cert /\ job' = job
  BY DEF ReferSitting, PassSitting, ActivateTemplate, vars
<1>2. RowsInv' /\ JobsInv'
  BY <1>1, InvParts DEF RowsInv, JobsInv, Blank, Held, LinksAgree, ValidIsLast,
                        OnePerSitting, OnRecord
<1>3. template' \in BOOLEAN /\ passed' \in [Sitting -> Holder \cup {Null}]
  BY DEF Inv, TypeOK, ReferSitting, PassSitting, ActivateTemplate, vars
<1>4. StaysInvalid
  BY <1>1 DEF StaysInvalid
<1> QED BY <1>2, <1>3, <1>4, InvParts DEF Goal, Inv, TypeOK, RowsInv, JobsInv

\* A certificate is issued and the request, if it had stood in line, is over.
LEMMA IssueKeeps ==
  ASSUME Inv, NEW k, NEW h, NEW s, Issues(k, h, s),
         \/ job' = job
         \/ \E w \in Worker : job' = [job EXCEPT ![w] = Idle],
         UNCHANGED <<template, passed>>
  PROVE  Goal
<1>1. RowsInv /\ JobsInv
  BY InvParts
<1>2. RowsInv' /\ \A i \in Certificate : OnRecord(i) => cert'[i] = cert[i]
  BY <1>1, IssuesKeeps
<1>3. Stays
  BY <1>2 DEF Stays, OnRecord
<1>4. JobsInv'
  <2>1. CASE job' = job
    BY <2>1, <1>1, <1>3, JobsStay
  <2>2. CASE \E w \in Worker : job' = [job EXCEPT ![w] = Idle]
    <3>1. PICK w \in Worker : job' = [job EXCEPT ![w] = Idle]
      BY <2>2
    <3>2. Idle \in Job /\ Idle.pc = "idle"
      BY EmptyRow DEF Idle
    <3> QED BY <3>1, <3>2, <1>1, <1>3, JobsMove
  <2> QED BY <2>1, <2>2
<1>5. StaysInvalid
  BY <1>2 DEF StaysInvalid, OnRecord
<1> QED BY <1>2, <1>4, <1>5, InvParts DEF Goal, Inv, TypeOK, RowsInv, JobsInv

\* issueCertificate, issueCertificateManually and the insert of a course completion.
LEMMA DoorsKeep ==
  ASSUME Inv,
         \/ \E s \in Sitting : IssueCertificate(s)
         \/ \E h \in Holder : IssueCertificateManually(h)
         \/ \E w \in Worker : MintCourseCertificate(w)
  PROVE  Goal
<1>1. ASSUME NEW s \in Sitting, IssueCertificate(s) PROVE Goal
  <2>1. PICK k \in Certificate : NextNumber(k) /\ cert' = [cert EXCEPT ![k] = Issued(passed[s], s)]
    BY <1>1 DEF IssueCertificate
  <2>2. passed[s] \in Holder /\ Uncertified(s) /\ UNCHANGED <<template, passed, job>>
    BY <1>1 DEF IssueCertificate, Inv, TypeOK
  <2>3. Issues(k, passed[s], s)
    BY <2>1, <2>2 DEF Issues, NextNumber
  <2> QED BY <2>2, <2>3, IssueKeeps
<1>2. ASSUME NEW h \in Holder, IssueCertificateManually(h) PROVE Goal
  <2>1. PICK k \in Certificate : NextNumber(k) /\ cert' = [cert EXCEPT ![k] = Issued(h, Null)]
    BY <1>2 DEF IssueCertificateManually
  <2>2. Issues(k, h, Null) /\ UNCHANGED <<template, passed, job>>
    BY <1>2, <2>1 DEF Issues, NextNumber, IssueCertificateManually
  <2> QED BY <2>2, IssueKeeps
<1>3. ASSUME NEW w \in Worker, MintCourseCertificate(w) PROVE Goal
  <2>1. PICK k \in Certificate : /\ NextNumber(k)
                                 /\ cert' = [cert EXCEPT ![k] = Issued(job[w].holder, Null)]
    BY <1>3 DEF MintCourseCertificate
  <2>2. job[w].holder \in Holder
    BY <1>3 DEF MintCourseCertificate, Inv, TypeOK
  <2>3. Issues(k, job[w].holder, Null)
    BY <2>1, <2>2 DEF Issues, NextNumber
  <2>4. job' = [job EXCEPT ![w] = Idle] /\ UNCHANGED <<template, passed>>
    BY <1>3 DEF MintCourseCertificate
  <2> QED BY <2>3, <2>4, IssueKeeps
<1> QED BY <1>1, <1>2, <1>3

\* The reads: a request takes up what it found.
LEMMA ArriveKeeps ==
  ASSUME Inv, NEW w \in Worker, Arrive(w) \/ RequestDies(w)
  PROVE  Goal
<1>1. cert' = cert /\ template' = template /\ passed' = passed
  BY DEF Arrive, RequestDies, CompleteCourse, FindToRevoke, FindToReissue
<1>2. RowsInv /\ JobsInv /\ Stays
  BY <1>1, InvParts DEF Stays, OnRecord
<1>3. RowsInv'
  BY <1>1, <1>2 DEF RowsInv, Blank, Held, LinksAgree, ValidIsLast, OnePerSitting, OnRecord
<1>4. JobsInv'
  <2>1. CASE RequestDies(w)
    <3>1. job' = [job EXCEPT ![w] = Idle] /\ Idle \in Job /\ Idle.pc = "idle"
      BY <2>1, EmptyRow DEF RequestDies, Idle
    <3> QED BY <3>1, <1>2, JobsMove
  <2>2. ASSUME NEW h \in Holder, CompleteCourse(w, h) PROVE JobsInv'
    <3>1. PICK n : n = [Idle EXCEPT !.pc = "course", !.holder = h]
      OBVIOUS
    <3>2. n \in Job /\ n.pc = "course" /\ n.holder = h
      BY <3>1, EmptyRow DEF Idle, Job
    <3>3. job' = [job EXCEPT ![w] = n]
      BY <2>2, <3>1 DEF CompleteCourse
    <3> QED BY <3>2, <3>3, <1>2, JobsMove
  <2>3. ASSUME NEW k \in Certificate, FindToRevoke(w, k) PROVE JobsInv'
    <3>1. PICK n : n = [Idle EXCEPT !.pc = "revoke", !.cert = k, !.status = "ACTIVE"]
      OBVIOUS
    <3>2. n \in Job /\ n.pc = "revoke" /\ n.cert = k
      BY <3>1, EmptyRow DEF Idle, Job, CertificateStatus
    <3>3. job' = [job EXCEPT ![w] = n] /\ OnRecord(k)
      BY <2>3, <3>1 DEF FindToRevoke, OnRecord
    <3> QED BY <3>2, <3>3, <1>2, JobsMove
  <2>4. ASSUME NEW k \in Certificate, FindToReissue(w, k) PROVE JobsInv'
    <3>1. PICK n : n = [Idle EXCEPT !.pc = "reissue", !.cert = k, !.status = cert[k].status]
      OBVIOUS
    <3>2. n \in Job /\ n.pc = "reissue" /\ n.cert = k
      BY <3>1, <2>4, EmptyRow DEF Idle, Job, CertificateStatus, FindToReissue
    <3>3. job' = [job EXCEPT ![w] = n] /\ OnRecord(k)
      BY <2>4, <3>1 DEF FindToReissue, OnRecord
    <3> QED BY <3>2, <3>3, <1>2, JobsMove
  <2> QED BY <2>1, <2>2, <2>3, <2>4 DEF Arrive
<1>5. StaysInvalid
  BY <1>1 DEF StaysInvalid
<1> QED BY <1>1, <1>3, <1>4, <1>5, InvParts DEF Goal, Inv, TypeOK, RowsInv, JobsInv

\* revokeCertificate writes by id: the row it read is still on record.
LEMMA RevokeKeeps ==
  ASSUME Inv, NEW w \in Worker, RevokeCertificate(w)
  PROVE  Goal
<1>1. RowsInv /\ JobsInv
  BY InvParts
<1>2. PICK k : k = job[w].cert
  OBVIOUS
<1>3. /\ Revokes(k)
      /\ job' = [job EXCEPT ![w] = Idle]
      /\ UNCHANGED <<template, passed>>
  BY <1>1, <1>2 DEF RevokeCertificate, Revokes, JobsInv
<1>4. /\ RowsInv' /\ Stays
      /\ cert'[k].status = "REVOKED"
      /\ \A i \in Certificate : i # k => cert'[i] = cert[i]
  BY <1>1, <1>3, RevokesKeeps DEF Stays
<1>5. Idle \in Job /\ Idle.pc = "idle"
  BY EmptyRow DEF Idle
<1>6. JobsInv'
  BY <1>1, <1>3, <1>4, <1>5, JobsMove
<1>7. StaysInvalid
  BY <1>4 DEF StaysInvalid
<1> QED BY <1>3, <1>4, <1>6, <1>7, InvParts DEF Goal, Inv, TypeOK, RowsInv, JobsInv

\* reissueCertificate: what it read decides between REVOKED and SUPERSEDED, neither
\* of them valid; the unique columns decide whether there is a successor.
LEMMA ReissueKeeps ==
  ASSUME Inv, NEW w \in Worker, ReissueCertificate(w)
  PROVE  Goal
<1>1. RowsInv /\ JobsInv
  BY InvParts
<1>2. PICK k : k = job[w].cert
  OBVIOUS
<1>3. k \in Certificate /\ OnRecord(k)
  BY <1>1, <1>2 DEF ReissueCertificate, JobsInv
<1>4. job' = [job EXCEPT ![w] = Idle] /\ UNCHANGED <<template, passed>>
  BY DEF ReissueCertificate
<1>5. Idle \in Job /\ Idle.pc = "idle"
  BY EmptyRow DEF Idle
<1>6. RowsInv' /\ Stays /\ StaysInvalid
  <2>1. CASE ~SuccessorAdmitted(k)
    <3>1. cert' = cert
      BY <2>1, <1>2 DEF ReissueCertificate
    <3> QED BY <3>1, <1>1 DEF RowsInv, Blank, Held, LinksAgree, ValidIsLast,
                              OnePerSitting, OnRecord, Stays, StaysInvalid
  <2>2. CASE SuccessorAdmitted(k)
    <3>1. PICK status : status = Replaced(job[w].status)
      OBVIOUS
    <3>2. PICK j \in Certificate : /\ NextNumber(j)
                                   /\ cert' = [cert EXCEPT
                                        ![k] = [@ EXCEPT !.status = status,
                                                         !.supersededBy = j],
                                        ![j] = [Issued(cert[k].holder, Null)
                                                  EXCEPT !.replaces = k]]
      BY <2>2, <1>2, <3>1 DEF ReissueCertificate
    <3>3. status \in {"REVOKED", "SUPERSEDED"} /\ ~OnRecord(j)
      BY <3>1, <3>2 DEF Replaced, NextNumber
    <3>4. Reissues(k, j, status)
      BY <1>3, <2>2, <3>2, <3>3 DEF Reissues
    <3>5. /\ RowsInv'
          /\ \A i \in Certificate : OnRecord(i) => OnRecord(i)'
          /\ cert'[k].status = status
          /\ \A i \in Certificate \ {j, k} : cert'[i] = cert[i]
      BY <1>1, <3>4, ReissuesKeeps
    <3>6. Stays
      BY <3>5 DEF Stays
    <3>7. StaysInvalid
      BY <3>3, <3>5 DEF StaysInvalid, OnRecord
    <3> QED BY <3>5, <3>6, <3>7
  <2> QED BY <2>1, <2>2
<1>7. JobsInv'
  BY <1>1, <1>4, <1>5, <1>6, JobsMove
<1> QED BY <1>4, <1>6, <1>7, InvParts DEF Goal, Inv, TypeOK, RowsInv, JobsInv

LEMMA StepKeeps == Inv /\ [Next]_vars => Goal
<1> SUFFICES ASSUME Inv, [Next]_vars PROVE Goal
  OBVIOUS
<1>1. CASE \/ \E s \in Sitting : ReferSitting(s)
           \/ \E s \in Sitting, h \in Holder : PassSitting(s, h)
           \/ ActivateTemplate
           \/ UNCHANGED vars
  BY <1>1, OthersKeep
<1>2. CASE \/ \E s \in Sitting : IssueCertificate(s)
           \/ \E h \in Holder : IssueCertificateManually(h)
           \/ \E w \in Worker : MintCourseCertificate(w)
  BY <1>2, DoorsKeep
<1>3. ASSUME NEW w \in Worker, Arrive(w) \/ RequestDies(w) PROVE Goal
  BY <1>3, ArriveKeeps
<1>4. ASSUME NEW w \in Worker, RevokeCertificate(w) \/ ReissueCertificate(w) PROVE Goal
  BY <1>4, RevokeKeeps, ReissueKeeps
<1> QED BY <1>1, <1>2, <1>3, <1>4 DEF Next, Proceed

-----------------------------------------------------------------------------
\* The invariant holds in every reachable state.
THEOREM Invariance == Spec => []Inv
<1>1. Inv /\ [Next]_vars => Inv'
  BY StepKeeps DEF Goal
<1> QED BY InitInv, <1>1, PTL DEF Spec

\* Every certificate on record is one the schema admits, and every request under way
\* names a row that is on record.
THEOREM TypeCorrect == Spec => []TypeOK
<1>1. Inv => TypeOK
  BY DEF Inv
<1> QED BY Invariance, <1>1, PTL

\* The link from a certificate to its successor and the link back always agree, for
\* any number of re-issues and revocations at once (reissueCertificate).
THEOREM LinksAlwaysAgree == Spec => []LinksAgree
<1>1. Inv => LinksAgree
  BY DEF Inv
<1> QED BY Invariance, <1>1, PTL

\* A certificate that verifies as valid has not been replaced (verifyCertificate).
THEOREM ValidHaveNoSuccessor == Spec => []ValidIsLast
<1>1. Inv => ValidIsLast
  BY DEF Inv
<1> QED BY Invariance, <1>1, PTL

-----------------------------------------------------------------------------
(* Lines.                                                                  *)

\* A line holds the certificate it starts with and whatever replaces one of its own,
\* and nothing that some set with both does without.
LEMMA LineIsLeast ==
  ASSUME NEW k \in Certificate
  PROVE  /\ k \in Line(k) /\ Successors(Line(k)) \subseteq Line(k)
         /\ \A S \in SUBSET Certificate :
              k \in S /\ Successors(S) \subseteq S => Line(k) \subseteq S
<1>1. k \in Line(k)
  BY DEF Line
<1>2. ASSUME NEW y \in Successors(Line(k)) PROVE y \in Line(k)
  <2>1. y \in Certificate /\ cert[y].replaces \in Line(k)
    BY <1>2 DEF Successors
  <2> SUFFICES ASSUME NEW S \in SUBSET Certificate, k \in S, Successors(S) \subseteq S
               PROVE  y \in S
    BY <2>1 DEF Line
  <2>2. cert[y].replaces \in S
    BY <2>1 DEF Line
  <2> QED BY <2>1, <2>2 DEF Successors
<1>3. ASSUME NEW S \in SUBSET Certificate, k \in S, Successors(S) \subseteq S
      PROVE  Line(k) \subseteq S
  BY <1>3 DEF Line
<1> QED BY <1>1, <1>2, <1>3

\* A valid certificate is the end of its line.
LEMMA ValidEndsItsLine ==
  ASSUME LinksAgree, ValidIsLast, NEW k \in Certificate, cert[k].status = "ACTIVE"
  PROVE  Line(k) = {k}
<1>1. \A y \in Certificate : cert[y].replaces # k
  BY NumbersArePositive DEF LinksAgree, ValidIsLast
<1>2. Successors({k}) \subseteq {k}
  BY <1>1 DEF Successors
<1> QED BY <1>2, LineIsLeast

\* The line from a certificate goes on as the line from what replaces it: one that is
\* not its start is reached from its successor.
LEMMA LineGoesOn ==
  ASSUME LinksAgree, NEW x \in Certificate, NEW y \in Certificate, cert[y].replaces = x
  PROVE  Line(x) \subseteq {x} \cup Line(y)
<1>1. \A z \in Certificate : cert[z].replaces = x => z = y
  BY DEF LinksAgree
<1>2. Successors({x} \cup Line(y)) \subseteq {x} \cup Line(y)
  BY <1>1, LineIsLeast DEF Successors
<1>3. {x} \cup Line(y) \in SUBSET Certificate
  BY DEF Line
<1> QED BY <1>2, <1>3, LineIsLeast

\* Of two certificates of one line, one is reached from the other.
LEMMA LineIsChain ==
  ASSUME LinksAgree, NEW i \in Certificate, NEW j \in Line(i), NEW k \in Line(i)
  PROVE  j \in Line(k) \/ k \in Line(j)
<1> DEFINE Ordered == {x \in Line(i) : j \in Line(x) \/ x \in Line(j)}
<1>1. j \in Certificate /\ Ordered \in SUBSET Certificate
  BY DEF Line
<1>2. i \in Ordered
  BY LineIsLeast
<1>3. ASSUME NEW y \in Successors(Ordered) PROVE y \in Ordered
  <2> DEFINE x == cert[y].replaces
  <2>1. y \in Certificate /\ x \in Certificate /\ x \in Line(i) /\ y \in Line(i)
    BY <1>1, <1>3, LineIsLeast DEF Successors
  <2>2. CASE x \in Line(j)
    BY <1>1, <2>1, <2>2, LineIsLeast DEF Successors
  <2>3. CASE j \in Line(x)
    <3>1. j = x \/ j \in Line(y)
      BY <2>1, <2>3, LineGoesOn
    <3>2. CASE j = x
      <4>1. y \in Line(j)
        BY <1>1, <2>1, <3>2, LineIsLeast DEF Successors
      <4> QED BY <4>1, <2>1
    <3> QED BY <3>1, <3>2, <2>1
  <2> QED BY <1>3, <2>2, <2>3 DEF Successors
<1> HIDE DEF Ordered
<1>4. Line(i) \subseteq Ordered
  BY <1>1, <1>2, <1>3, LineIsLeast
<1> QED BY <1>4 DEF Ordered

\* However re-issues, revocations and appeals cross, at most one certificate of an
\* award's line is valid, and a sitting starts one line only (verifyCertificate).
THEOREM OneValid == Spec => []OneValidPerAward
<1>1. Inv => OneValidPerAward
  <2> SUFFICES ASSUME Inv, NEW i \in Certificate, NEW j \in Line(i), NEW k \in Line(i),
                      cert[j].status = "ACTIVE", cert[k].status = "ACTIVE"
               PROVE  j = k
    BY DEF OneValidPerAward, Inv, OnePerSitting
  <2>1. j \in Certificate /\ k \in Certificate
    BY DEF Line
  <2>2. Line(j) = {j} /\ Line(k) = {k}
    BY <2>1, ValidEndsItsLine DEF Inv
  <2> QED BY <2>2, LineIsChain DEF Inv
<1> QED BY Invariance, <1>1, PTL

\* No step makes a revoked or superseded certificate valid.
THEOREM InvalidForGood == Spec => NeverValidAgain
<1>1. Inv /\ [Next]_vars => [\A k \in Certificate :
                               cert[k].status \in {"REVOKED", "SUPERSEDED"} =>
                               cert'[k].status # "ACTIVE"]_vars
  BY StepKeeps DEF Goal, StaysInvalid
<1> QED BY Invariance, <1>1, PTL DEF Spec, NeverValidAgain

=============================================================================
