-------------------------- MODULE Enrolments_proofs --------------------------
(***************************************************************************)
(* Type correctness and the safety of Enrolments, for every set of         *)
(* candidates, programmes, intakes, cohorts and workers.                   *)
(***************************************************************************)
EXTENDS Enrolments, FiniteSetTheorems, TLAPS

Tied == RowsTied /\ JobsTied /\ NumbersTied /\ CardsTied
Safe == OneLiveEnrolment /\ ActiveOnlyIfPaid /\ NumberIffConfirmed /\ OneLiveCard
Inv == TypeOK /\ Tied /\ Safe

-----------------------------------------------------------------------------
(* Operators keep rows, cards and jobs within their types.                 *)

\* A function updated at one argument keeps its type.
LEMMA UpdateType ==
  ASSUME NEW S, NEW T, NEW f \in [S -> T], NEW s \in S, NEW t \in T
  PROVE  [f EXCEPT ![s] = t] \in [S -> T]
  OBVIOUS

\* The rows a checkout or a guest checkout creates are rows of the schema.
LEMMA FreshTypes ==
  ASSUME NEW c \in Candidate \cup {Null}, NEW g \in Programme \cup {Null},
         NEW d \in Candidate \cup {Null}, NEW e \in {0} \cup Enrolment
  PROVE  FreshEnrolment(c, g) \in EnrolmentRow /\ FreshPayment(c, e, d, g) \in PaymentRow
  BY DEF FreshEnrolment, NoEnrolment, FreshPayment, EnrolmentRow, EnrolmentStatus,
         PaymentRow, PaymentStatus

\* So is the row a confirmation writes.
LEMMA ActivatedType ==
  ASSUME NEW row \in EnrolmentRow, NEW seen \in Job
  PROVE  Activated(row, seen) \in EnrolmentRow
  <1>1. Scheduled(row, seen) \in Nat
    BY DEF Scheduled, EnrolmentRow
  <1>2. seen.cohort \in {0} \cup Cohort
    BY DEF Job
  <1> QED BY <1>1, <1>2 DEF Activated, EnrolmentRow, EnrolmentStatus

\* And the row a reset writes.
LEMMA ResetRowType ==
  ASSUME NEW row \in EnrolmentRow, NEW s \in EnrolmentStatus
  PROVE  ResetRow(row, s) \in EnrolmentRow
  BY DEF ResetRow, EnrolmentRow, EnrolmentStatus

\* A worker with nothing to do is tied to nothing.
LEMMA IdleType == Idle \in Job /\ JobRows(Idle) /\ JobTied(Idle)
  BY DEF Idle, Job, JobPc, JobRows, JobTied, PaymentPc, EnrolmentPc, Confirming,
     EnrolmentStatus

\* A job on one payment.
LEMMA PaymentJobType ==
  ASSUME NEW p \in Payment, payment[p].status # "NONE",
         NEW pc \in {"checkout", "fail", "record", "part", "confirm"}
  PROVE  LET j == [Idle EXCEPT !.pc = pc, !.pay = p]
         IN  j \in Job /\ JobRows(j) /\ JobTied(j)
  BY DEF Idle, Job, JobPc, JobRows, JobTied, PaymentPc, EnrolmentPc, Confirming,
     EnrolmentStatus

\* A cohort somebody strayed into is one.
LEMMA StrayType ==
  ASSUME TypeOK, NEW w \in Worker, strayed' = strayed \cup LetIn(w) \/ Counted(w)
  PROVE  strayed' \subseteq Cohort
  BY DEF TypeOK, LetIn, Counted

\* A step that does nothing but move one job on keeps the invariant.
LEMMA JobStep ==
  ASSUME Inv, NEW w \in Worker, NEW j \in Job, JobRows(j), JobTied(j),
         job' = [job EXCEPT ![w] = j],
         UNCHANGED <<people, rows, checkout, confirmed>>, strayed' \subseteq Cohort,
         events' \subseteq [payment : Payment, outcome : Outcome \cup {"any"}]
  PROVE  Inv'
  <1> USE DEF Inv, Tied, people, rows
  <1>1. TypeOK'
    BY UpdateType DEF TypeOK
  <1>2. JobsTied'
    BY DEF JobsTied, JobTied, Paid, TypeOK
  <1>3. (RowsTied /\ NumbersTied /\ CardsTied)'
    BY DEF RowsTied, NumbersTied, CardsTied
  <1>4. Safe'
    BY DEF Safe, OneLiveEnrolment, Live, LiveStatus, ActiveOnlyIfPaid, Paid,
           NumberIffConfirmed, OneLiveCard, PaidAFee, ActiveCards
  <1> QED BY <1>1, <1>2, <1>3, <1>4

-----------------------------------------------------------------------------
(* Steps that read: one job moves on, the rows stay.                       *)

\* A staff entry goes on only with a payment on record.
LEMMA RecordingType ==
  ASSUME NEW p \in Payment, NEW full \in BOOLEAN
  PROVE  LET j == Recording(p, full)
         IN  j \in Job /\ JobRows(j) /\ JobTied(j)
  BY IdleType, PaymentJobType DEF Recording

\* A checkout that will retry has found a row to retry.
LEMMA FindAbandonedInv ==
  ASSUME Inv, NEW w \in Worker, NEW c, NEW g, NEW staff \in BOOLEAN,
         FindAbandoned(w, c, g, staff)
  PROVE  Inv'
  <1>1. PICK e \in Enrolment :
          /\ enrolment[e].status = "PENDING_PAYMENT"
          /\ job' = [job EXCEPT ![w] = [Idle EXCEPT !.pc = "retry", !.enr = e,
                                                  !.staff = staff]]
    BY DEF FindAbandoned, LiveIn
  <1> DEFINE j == [Idle EXCEPT !.pc = "retry", !.enr = e, !.staff = staff]
  <1>2. j \in Job /\ JobRows(j) /\ JobTied(j)
    BY <1>1 DEF Idle, Job, JobPc, JobRows, JobTied, PaymentPc, EnrolmentPc, Confirming,
     EnrolmentStatus
  <1> HIDE DEF j
  <1> QED BY <1>1, <1>2, JobStep DEF FindAbandoned, Inv, TypeOK, provider, history, j

\* A notice is about a payment whose checkout was opened.
LEMMA ReceiveNoticeInv ==
  ASSUME Inv, NEW w \in Worker, NEW n \in Notice, ReceiveNotice(w, n)
  PROVE  Inv'
  <1>1. n.payment \in Payment /\ payment[n.payment].status # "NONE"
    BY DEF ReceiveNotice, Sent, Notice, Inv, Tied, RowsTied
  <1>2. Noticed(n) \in Job /\ JobRows(Noticed(n)) /\ JobTied(Noticed(n))
    BY <1>1, IdleType, PaymentJobType DEF Noticed
  <1>3. events' \subseteq [payment : Payment, outcome : Outcome \cup {"any"}]
    BY DEF ReceiveNotice, EventId, Notice, Inv, TypeOK
  <1> QED BY <1>2, <1>3, JobStep DEF ReceiveNotice, Inv, TypeOK, history

\* Only a payment on record is marked failed.
LEMMA MarkPaymentFailedInv ==
  ASSUME Inv, NEW w \in Worker, NEW p \in Payment, MarkPaymentFailed(w, p)
  PROVE  Inv'
  BY PaymentJobType, JobStep DEF MarkPaymentFailed, Inv, TypeOK, provider, history

\* The entries of the ledger that only decide what to do next.
LEMMA RecordingInv ==
  ASSUME Inv, NEW w \in Worker, NEW full \in BOOLEAN,
         \/ \E p \in Payment : ConfirmPaymentManually(w, p, full)
         \/ RecordOfflinePayment(w, full)
  PROVE  Inv'
  <1>1. PICK p \in Payment : /\ job' = [job EXCEPT ![w] = Recording(p, full)]
                             /\ UNCHANGED <<people, rows, provider, history>>
    BY DEF ConfirmPaymentManually, RecordOfflinePayment, Inv, TypeOK, JobRows, PaymentPc
  <1> QED BY <1>1, RecordingType, JobStep DEF Inv, TypeOK, provider, history

\* A confirmation that holds its locks knows its enrolment and candidate.
LEMMA ConfirmLockInv ==
  ASSUME Inv, NEW w \in Worker, ConfirmLock(w)
  PROVE  Inv'
  <1> DEFINE p == job[w].pay
             e == payment[p].enrolment
             j == [job[w] EXCEPT !.pc = "placing", !.enr = e,
                                 !.status = enrolment[e].status,
                                 !.intake = enrolment[e].intake,
                                 !.cohort = enrolment[e].cohort]
  <1>1. p \in Payment /\ payment[p].status # "NONE" /\ payment[p].enrolment # 0
    BY DEF ConfirmLock, Inv, TypeOK, Tied, JobsTied, JobTied, JobRows, PaymentPc
  <1>2. e \in Enrolment
    BY <1>1 DEF Inv, TypeOK, PaymentRow, Tied, RowsTied
  <1>3. /\ payment[p].candidate # Null
        /\ enrolment[e] \in EnrolmentRow /\ enrolment[e].status # "NONE"
    BY <1>1, <1>2 DEF Inv, TypeOK, Tied, RowsTied, PaymentRow
  <1>4. job[w] \in Job
    BY DEF Inv, TypeOK
  <1>5. j \in Job
    BY <1>2, <1>3, <1>4 DEF Job, JobPc, EnrolmentRow
  <1>6. j.pc = "placing" /\ j.pay = p /\ j.enr = e
    BY <1>4 DEF Job
  <1>7. job' = [job EXCEPT ![w] = j]
    BY DEF ConfirmLock
  <1> HIDE DEF j
  <1>8. JobRows(j) /\ JobTied(j)
    BY <1>1, <1>2, <1>3, <1>6 DEF JobRows, JobTied, PaymentPc, EnrolmentPc, Confirming
  <1> QED BY <1>5, <1>7, <1>8, JobStep DEF ConfirmLock, Inv, TypeOK, provider, history

\* A confirmation that has counted goes on with what it read, and a seat.
LEMMA ConfirmPlaceInv ==
  ASSUME Inv, NEW w \in Worker, ConfirmPlace(w)
  PROVE  Inv'
  <1>1. job[w].pc = "placing" /\ UNCHANGED <<people, rows, provider, confirmed>>
    BY DEF ConfirmPlace
  <1>6. strayed' \subseteq Cohort
    BY StrayType DEF ConfirmPlace, Inv
  <1>2. job[w] \in Job /\ JobRows(job[w]) /\ JobTied(job[w])
    BY DEF Inv, TypeOK, Tied, JobsTied
  <1>3. PICK room \in BOOLEAN, h \in {0} \cup Cohort :
          job' = [job EXCEPT ![w] = Placed(job[w], room, h)]
    <2>1. PICK row, room : /\ room = (Rooms(row.programme, job[w].intake) # {})
                           /\ \E h \in Seats(row, job[w]) :
                                job' = [job EXCEPT ![w] = Placed(job[w], room, h)]
      BY DEF ConfirmPlace
    <2>2. \A h \in Seats(row, job[w]) : h \in {0} \cup Cohort
      BY <1>2 DEF Seats, Rooms, Oldest, Job
    <2> QED BY <2>1, <2>2
  <1> DEFINE j == Placed(job[w], room, h)
  <1>4. /\ j \in Job /\ j.pc = "placed" /\ j.pay = job[w].pay /\ j.enr = job[w].enr
    BY <1>2 DEF Placed, Job, JobPc
  <1> HIDE DEF j
  <1>5. JobRows(j) /\ JobTied(j)
    BY <1>1, <1>2, <1>4 DEF JobRows, JobTied, PaymentPc, EnrolmentPc, Confirming
  <1> QED BY <1>1, <1>3, <1>4, <1>5, <1>6, JobStep DEF provider, j, Inv, TypeOK

\* A job that will write what it reads now of enrolment e.
LEMMA EnrolmentJobType ==
  ASSUME Inv, NEW e \in Enrolment, enrolment[e].status # "NONE",
         NEW pc \in {"complete", "reset"}
  PROVE  LET j == [Idle EXCEPT !.pc = pc, !.enr = e, !.status = enrolment[e].status]
         IN  j \in Job /\ JobRows(j) /\ JobTied(j)
  <1>1. enrolment[e].status \in EnrolmentStatus
    BY DEF Inv, TypeOK, EnrolmentRow
  <1> QED BY <1>1 DEF Inv, Safe, ActiveOnlyIfPaid, Idle, Job, JobPc, JobRows, JobTied,
                      PaymentPc,
         EnrolmentPc, Confirming

\* A reissue starts from a card somebody holds.
LEMMA FindCardToReissueInv ==
  ASSUME Inv, NEW w \in Worker, NEW k \in IdCard, FindCardToReissue(w, k)
  PROVE  Inv'
  <1> DEFINE j == [Idle EXCEPT !.pc = "reissue", !.card = k]
  <1>1. j \in Job /\ JobRows(j) /\ JobTied(j)
    BY DEF FindCardToReissue, Idle, Job, JobPc, JobRows, JobTied, PaymentPc, EnrolmentPc,
           Confirming,
           EnrolmentStatus
  <1>2. job' = [job EXCEPT ![w] = j]
    BY DEF FindCardToReissue
  <1> HIDE DEF j
  <1> QED BY <1>1, <1>2, JobStep DEF FindCardToReissue, Inv, TypeOK, provider, history

\* A request that ends without writing, dies, or hands over to the provider.
LEMMA IdleInv ==
  ASSUME Inv, NEW w \in Worker,
         \/ ConfirmAgain(w) \/ ConfirmRefused(w) \/ ConfirmGuestRefused(w)
         \/ RequestDies(w)
  PROVE  Inv'
  <1>1. /\ job' = [job EXCEPT ![w] = Idle]
        /\ UNCHANGED <<people, rows, provider, confirmed, strayed>>
    BY DEF ConfirmAgain, ConfirmRefused, ConfirmGuestRefused, RequestDies, history, Inv,
           TypeOK
  <1> QED BY <1>1, IdleType, JobStep DEF Inv, TypeOK, provider

-----------------------------------------------------------------------------
(* Steps that write.  Rows are never deleted, and what ties them together  *)
(* is written once: what a job read of that stays true under it.           *)

Grows ==
  /\ \A p \in Payment :
       /\ payment[p].status # "NONE" => payment'[p].status # "NONE"
       /\ payment[p].candidate # Null =>
            /\ payment'[p].candidate = payment[p].candidate
            /\ payment'[p].enrolment = payment[p].enrolment
       /\ confirmed[p] > 0 => confirmed'[p] > 0
  /\ \A e \in Enrolment : enrolment[e].status # "NONE" =>
       /\ enrolment'[e].status # "NONE"
       /\ enrolment'[e].candidate = enrolment[e].candidate
  /\ \A k \in IdCard : card[k].holder # Null => card'[k].holder # Null

\* What was paid for stays paid for.
LEMMA PaidStays ==
  ASSUME Inv, Grows, NEW e \in Enrolment, enrolment[e].status # "NONE", Paid(e)
  PROVE  Paid(e)'
  BY DEF Inv, Tied, RowsTied, Grows, Paid

\* What one job holds on to stays true of it.
LEMMA JobTiedStays ==
  ASSUME Inv, Grows, NEW j, JobRows(j), JobTied(j)
  PROVE  JobTied(j)'
  <1>1. j.pc \in {"complete", "reset"} => j.enr \in Enrolment /\ enrolment[j.enr].status # "NONE"
    BY DEF JobRows, JobTied, EnrolmentPc, Confirming
  <1>2. j.pc \in Confirming => j.pay \in Payment
    BY DEF JobRows, PaymentPc, Confirming
  <1> QED BY <1>1, <1>2, PaidStays DEF JobTied, JobRows, Grows, PaymentPc, EnrolmentPc,
                                       Confirming

\* So it does of every job when one of them moves on.
LEMMA JobsStay ==
  ASSUME Inv, Grows, NEW w \in Worker, NEW j \in Job, JobRows(j), JobTied(j)',
         job' = [job EXCEPT ![w] = j]
  PROVE  job' \in [Worker -> Job] /\ (\A v \in Worker : JobRows(job[v]))' /\ JobsTied'
  <1>1. job' \in [Worker -> Job] /\ \A v \in Worker : JobRows(job'[v])
    BY UpdateType DEF Inv, TypeOK
  <1>2. ASSUME NEW v \in Worker PROVE JobTied(job[v])'
    BY JobTiedStays DEF Inv, TypeOK, Tied, JobsTied
  <1> QED BY <1>1, <1>2 DEF JobsTied, JobRows

\* The parts about people, for a step that confirms nothing and prints no card.
LEMMA PeopleStay ==
  ASSUME Inv, Grows, UNCHANGED <<number, drawn, card, confirmed>>
  PROVE  (NumbersTied /\ CardsTied /\ NumberIffConfirmed /\ OneLiveCard)'
  <1>1. (NumbersTied /\ CardsTied)'
    BY DEF Inv, Tied, NumbersTied, CardsTied
  <1>2. \A p \in Payment : confirmed[p] > 0 => /\ payment'[p].candidate = payment[p].candidate
                                               /\ payment'[p].enrolment = payment[p].enrolment
    BY DEF Inv, Tied, RowsTied, Grows
  <1>3. \A c \in Candidate : PaidAFee(c)' <=> PaidAFee(c)
    BY <1>2 DEF PaidAFee
  <1>4. OneLiveCard'
    BY <1>3 DEF Inv, Safe, OneLiveCard, ActiveCards
  <1> QED BY <1>1, <1>2, <1>4 DEF Inv, Safe, NumberIffConfirmed

OneJobEnds == \E w \in Worker : job' = [job EXCEPT ![w] = Idle]
OneJobMoves == \E w \in Worker, j \in Job : /\ JobRows(j) /\ JobTied(j)
                                             /\ job' = [job EXCEPT ![w] = j]

\* An account more.
LEMMA RegisterInv ==
  ASSUME Inv, NEW c \in Candidate, Register(c)
  PROVE  Inv'
  <1> USE DEF Inv, Register, rows, provider, history
  <1>1. Grows
    BY DEF Grows
  <1>2. TypeOK' /\ RowsTied'
    BY DEF TypeOK, Tied, RowsTied
  <1>3. JobsTied'
    BY <1>1, JobTiedStays DEF TypeOK, Tied, JobsTied
  <1>4. OneLiveEnrolment' /\ ActiveOnlyIfPaid'
    BY DEF Safe, OneLiveEnrolment, Live, LiveStatus, ActiveOnlyIfPaid, Paid
  <1> QED BY <1>1, <1>2, <1>3, <1>4, PeopleStay DEF Tied, Safe

\* The provider's page opens for a payment on record, or its payer pays.
LEMMA CheckoutInv ==
  ASSUME Inv, NEW p \in Payment, payment[p].status # "NONE",
         NEW s \in {"open", "paid"}, checkout' = [checkout EXCEPT ![p] = s],
         job' = job \/ OneJobMoves,
         UNCHANGED <<people, rows, history, events>>
  PROVE  Inv'
  <1> USE DEF Inv, people, rows, history
  <1>1. Grows
    BY DEF Grows
  <1>2. checkout' \in [Payment -> {"none", "open", "paid"}]
    BY UpdateType DEF TypeOK
  <1>3. RowsTied'
    BY DEF TypeOK, Tied, RowsTied
  <1>4. job' \in [Worker -> Job] /\ (\A v \in Worker : JobRows(job[v]))' /\ JobsTied'
    <2>1. CASE job' = job
      BY <1>1, <2>1, JobTiedStays DEF TypeOK, Tied, JobsTied
    <2>2. ASSUME NEW w \in Worker, NEW j \in Job, JobRows(j), JobTied(j),
                 job' = [job EXCEPT ![w] = j]
          PROVE  job' \in [Worker -> Job] /\ (\A v \in Worker : JobRows(job[v]))' /\ JobsTied'
      <3>1. JobTied(j)'
        BY <1>1, <2>2, JobTiedStays
      <3> QED BY <1>1, <2>2, <3>1, JobsStay
    <2> QED BY <2>1, <2>2 DEF OneJobMoves
  <1>5. TypeOK'
    BY <1>2, <1>4 DEF TypeOK
  <1>6. OneLiveEnrolment' /\ ActiveOnlyIfPaid'
    BY DEF Safe, OneLiveEnrolment, Live, LiveStatus, ActiveOnlyIfPaid, Paid
  <1> QED BY <1>1, <1>3, <1>4, <1>5, <1>6, PeopleStay DEF Tied, Safe

\* A payment's status is written by id, whatever it was.
LEMMA WriteStatusInv ==
  ASSUME Inv, NEW w \in Worker,
         \/ WriteFailed(w)
         \/ RecordPartPayment(w)
  PROVE  Inv'
  <1> DEFINE p == job[w].pay
  <1>1. p \in Payment /\ payment[p].status # "NONE"
    BY DEF WriteFailed, RecordPartPayment, Inv, TypeOK, Tied, JobsTied, JobTied, JobRows,
           PaymentPc
  <1>2. PICK s \in {"FAILED", "SUCCESS"} : payment' = [payment EXCEPT ![p].status = s]
    BY DEF WriteFailed, RecordPartPayment
  <1>3. /\ job' = [job EXCEPT ![w] = Idle]
        /\ UNCHANGED <<people, provider, history, enrolment>>
    BY DEF WriteFailed, RecordPartPayment
  <1> HIDE DEF p
  <1> USE DEF Inv, people, provider, history
  <1>4. payment' \in [Payment -> PaymentRow]
    BY <1>1, <1>2 DEF TypeOK, PaymentRow, PaymentStatus
  <1>5. \A q \in Payment :
          /\ payment'[q].candidate = payment[q].candidate
          /\ payment'[q].enrolment = payment[q].enrolment
          /\ payment'[q].guest = payment[q].guest
          /\ payment'[q].status = "NONE" <=> payment[q].status = "NONE"
    BY <1>1, <1>2 DEF TypeOK, PaymentRow
  <1>6. Grows
    BY <1>3, <1>5 DEF Grows
  <1>7. JobTied(Idle)'
    BY DEF Idle, JobTied, PaymentPc, EnrolmentPc, Confirming
  <1>8. job' \in [Worker -> Job] /\ (\A v \in Worker : JobRows(job[v]))' /\ JobsTied'
    BY <1>3, <1>6, <1>7, IdleType, JobsStay
  <1>9. TypeOK' /\ RowsTied'
    BY <1>3, <1>4, <1>5, <1>8 DEF TypeOK, Tied, RowsTied
  <1>10. OneLiveEnrolment' /\ ActiveOnlyIfPaid'
    BY <1>3, <1>5 DEF Safe, OneLiveEnrolment, Live, LiveStatus, ActiveOnlyIfPaid, Paid
  <1> QED BY <1>3, <1>6, <1>8, <1>9, <1>10, PeopleStay DEF Tied, Safe

\* An enrolment on record is overwritten in a way the index admits, and is not let in
\* unless it was paid for.
LEMMA EnrolmentWriteInv ==
  ASSUME Inv, NEW e \in Enrolment, enrolment[e].status # "NONE",
         NEW row \in EnrolmentRow, row.status # "NONE",
         row.candidate = enrolment[e].candidate,
         row.programme = enrolment[e].programme,
         IndexAdmits(e, row.status),
         row.status \in {"ACTIVE", "COMPLETED"} => Paid(e),
         enrolment' = [enrolment EXCEPT ![e] = row],
         job' = job \/ OneJobEnds,
         UNCHANGED <<people, payment, provider, confirmed>>, strayed' \subseteq Cohort
  PROVE  Inv'
  <1> USE DEF Inv, people, provider
  <1>1. enrolment' \in [Enrolment -> EnrolmentRow]
    BY UpdateType DEF TypeOK
  <1>2. /\ enrolment'[e] = row
        /\ \A f \in Enrolment : f # e => enrolment'[f] = enrolment[f]
    BY DEF TypeOK
  <1>3. \A f \in Enrolment :
          /\ enrolment'[f].candidate = enrolment[f].candidate
          /\ enrolment'[f].programme = enrolment[f].programme
          /\ enrolment'[f].status = "NONE" <=> enrolment[f].status = "NONE"
    BY <1>2
  <1>4. Grows
    BY <1>3 DEF Grows
  <1>5. job' \in [Worker -> Job] /\ (\A v \in Worker : JobRows(job[v]))' /\ JobsTied'
    <2>1. CASE job' = job
      BY <1>4, <2>1, JobTiedStays DEF TypeOK, Tied, JobsTied
    <2>2. ASSUME NEW w \in Worker, job' = [job EXCEPT ![w] = Idle]
          PROVE  job' \in [Worker -> Job] /\ (\A v \in Worker : JobRows(job[v]))' /\ JobsTied'
      <3>1. JobTied(Idle)'
        BY DEF Idle, JobTied, PaymentPc, EnrolmentPc, Confirming
      <3> QED BY <1>4, <2>2, <3>1, IdleType, JobsStay
    <2> QED BY <2>1, <2>2 DEF OneJobEnds
  <1>6. TypeOK'
    BY <1>1, <1>5 DEF TypeOK
  <1>7. RowsTied'
    <2>1. \A p \in Payment : payment[p].enrolment \in {0} \cup Enrolment
      BY DEF TypeOK, PaymentRow
    <2> QED BY <1>3, <2>1 DEF TypeOK, Tied, RowsTied, PaymentRow
  <1>8. OneLiveEnrolment'
    <2>1. ASSUME NEW f \in Enrolment, f # e, Live(f), LiveStatus(row.status),
                 enrolment[f].candidate = enrolment[e].candidate,
                 enrolment[f].programme = enrolment[e].programme
          PROVE  FALSE
      BY <2>1 DEF IndexAdmits, LiveIn
    <2> QED BY <1>2, <1>3, <2>1 DEF Safe, OneLiveEnrolment, Live
  <1>9. ActiveOnlyIfPaid'
    BY <1>2, <1>3, <1>4, PaidStays DEF Safe, ActiveOnlyIfPaid
  <1> QED BY <1>4, <1>5, <1>6, <1>7, <1>8, <1>9, PeopleStay DEF Tied, Safe

\* A refund lets nobody in.
LEMMA MarkEnrolmentRefundedInv ==
  ASSUME Inv, NEW e \in Enrolment, MarkEnrolmentRefunded(e)
  PROVE  Inv'
  <1> DEFINE row == [enrolment[e] EXCEPT !.status = "REFUNDED"]
  <1>1. enrolment[e] \in EnrolmentRow
    BY DEF Inv, TypeOK
  <1>2. /\ row \in EnrolmentRow
        /\ row.status = "REFUNDED"
        /\ row.candidate = enrolment[e].candidate
        /\ row.programme = enrolment[e].programme
    BY <1>1 DEF EnrolmentRow, EnrolmentStatus
  <1>3. enrolment' = [enrolment EXCEPT ![e] = row]
    BY DEF MarkEnrolmentRefunded
  <1> HIDE DEF row
  <1>4. UNCHANGED <<confirmed>> /\ strayed' \subseteq Cohort
    BY DEF MarkEnrolmentRefunded, history, Inv, TypeOK
  <1> QED BY <1>2, <1>3, <1>4, EnrolmentWriteInv DEF MarkEnrolmentRefunded, IndexAdmits,
                                                    LiveStatus

\* A transfer leaves status, candidate and programme alone.
LEMMA TransferIntakeInv ==
  ASSUME Inv, NEW e \in Enrolment, NEW i \in Intake, TransferIntake(e, i)
  PROVE  Inv'
  <1>1. PICK h \in Cohort :
          enrolment' = [enrolment EXCEPT ![e] = [@ EXCEPT !.intake = i, !.cohort = h]]
    BY DEF TransferIntake, Oldest, Rooms
  <1> DEFINE row == [enrolment[e] EXCEPT !.intake = i, !.cohort = h]
  <1>2. enrolment[e] \in EnrolmentRow
    BY DEF Inv, TypeOK
  <1>3. /\ row \in EnrolmentRow
        /\ row.status = enrolment[e].status
        /\ row.candidate = enrolment[e].candidate
        /\ row.programme = enrolment[e].programme
    BY <1>2 DEF EnrolmentRow
  <1>4. enrolment' = [enrolment EXCEPT ![e] = row]
    BY <1>1
  <1> HIDE DEF row
  <1>5. IndexAdmits(e, row.status)
    BY <1>3 DEF Inv, Safe, OneLiveEnrolment, IndexAdmits, LiveIn, Live
  <1>6. row.status \in {"ACTIVE", "COMPLETED"} => Paid(e)
    BY <1>3 DEF Inv, Safe, ActiveOnlyIfPaid
  <1>7. UNCHANGED <<confirmed>> /\ strayed' \subseteq Cohort
    BY DEF TransferIntake, history, Inv, TypeOK
  <1> QED BY <1>3, <1>4, <1>5, <1>6, <1>7, EnrolmentWriteInv DEF TransferIntake

\* A job ends leaving an enrolment as it was: the index refused its write.
LEMMA EndsInv ==
  ASSUME Inv, NEW w \in Worker, job' = [job EXCEPT ![w] = Idle],
         UNCHANGED <<people, rows, provider, confirmed>>, strayed' \subseteq Cohort
  PROVE  Inv'
  BY IdleType, JobStep DEF Inv, TypeOK, provider

\* A completion writes a status derived from one that was paid for.
LEMMA CompleteProgrammeInv ==
  ASSUME Inv, NEW w \in Worker, CompleteProgramme(w)
  PROVE  Inv'
  <1> DEFINE e == job[w].enr
             s == CompletedStatus(job[w].status)
             row == [enrolment[e] EXCEPT !.completed = TRUE, !.status = s]
  <1>1. e \in Enrolment /\ enrolment[e].status # "NONE" /\ enrolment[e] \in EnrolmentRow
    BY DEF CompleteProgramme, Inv, TypeOK, Tied, JobsTied, JobTied, JobRows, EnrolmentPc,
           Confirming
  <1>2. job[w].status \in EnrolmentStatus /\ job[w].status # "NONE"
    BY DEF CompleteProgramme, Inv, TypeOK, Job, Tied, JobsTied, JobTied
  <1>3. job[w].status \in {"ACTIVE", "COMPLETED"} => Paid(e)
    BY DEF CompleteProgramme, Inv, Tied, JobsTied, JobTied
  <1>4. s \in EnrolmentStatus /\ s # "NONE" /\ (s \in {"ACTIVE", "COMPLETED"} => Paid(e))
    BY <1>2, <1>3 DEF CompletedStatus, EnrolmentStatus
  <1> HIDE DEF s
  <1>5. /\ row \in EnrolmentRow
        /\ row.status = s
        /\ row.candidate = enrolment[e].candidate
        /\ row.programme = enrolment[e].programme
    BY <1>1, <1>4 DEF EnrolmentRow
  <1>8. strayed' \subseteq Cohort
    BY StrayType DEF CompleteProgramme, Inv
  <1>6. CASE IndexAdmits(e, s)
    <2>1. enrolment' = [enrolment EXCEPT ![e] = row]
      BY <1>6 DEF CompleteProgramme, s
    <2> HIDE DEF row, e
    <2> QED BY <1>1, <1>4, <1>5, <1>6, <1>8, <2>1, EnrolmentWriteInv DEF CompleteProgramme,
                                                                   OneJobEnds
  <1>7. CASE ~IndexAdmits(e, s)
    BY <1>7, <1>8, EndsInv DEF CompleteProgramme, s, rows
  <1> QED BY <1>6, <1>7

\* So does a reset.
LEMMA ResetProgressInv ==
  ASSUME Inv, NEW w \in Worker, ResetProgress(w)
  PROVE  Inv'
  <1> DEFINE e == job[w].enr
             row == ResetRow(enrolment[e], job[w].status)
  <1>1. e \in Enrolment /\ enrolment[e].status # "NONE" /\ enrolment[e] \in EnrolmentRow
    BY DEF ResetProgress, Inv, TypeOK, Tied, JobsTied, JobTied, JobRows, EnrolmentPc,
           Confirming
  <1>2. job[w].status \in EnrolmentStatus
    BY DEF Inv, TypeOK, Job
  <1>3. job[w].status = "COMPLETED" => Paid(e)
    BY DEF ResetProgress, Inv, Tied, JobsTied, JobTied
  <1>4. row \in EnrolmentRow
    BY <1>1, <1>2, ResetRowType
  <1>5. /\ row.status = IF job[w].status = "COMPLETED" THEN "ACTIVE" ELSE enrolment[e].status
        /\ row.candidate = enrolment[e].candidate
        /\ row.programme = enrolment[e].programme
    BY <1>1 DEF ResetRow, EnrolmentRow
  <1>6. row.status # "NONE" /\ (row.status \in {"ACTIVE", "COMPLETED"} => Paid(e))
    BY <1>1, <1>3, <1>5 DEF Inv, Safe, ActiveOnlyIfPaid
  <1>9. strayed' \subseteq Cohort
    BY StrayType DEF ResetProgress, Inv
  <1>7. CASE IndexAdmits(e, row.status)
    <2>1. enrolment' = [enrolment EXCEPT ![e] = row]
      BY <1>7 DEF ResetProgress
    <2> HIDE DEF row, e
    <2> QED BY <1>1, <1>4, <1>5, <1>6, <1>7, <1>9, <2>1, EnrolmentWriteInv DEF ResetProgress,
                                                                         OneJobEnds
  <1>8. CASE ~IndexAdmits(e, row.status)
    BY <1>8, <1>9, EndsInv DEF ResetProgress, rows
  <1> QED BY <1>7, <1>8

\* A completion or reset has read the status it goes on with.
LEMMA FindEnrolmentInv ==
  ASSUME Inv, NEW w \in Worker, NEW e \in Enrolment,
         FinishLectures(w, e) \/ FindForReset(w, e)
  PROVE  Inv'
  <1>1. enrolment[e].status # "NONE"
    <2>1. CASE FinishLectures(w, e)
      BY <2>1 DEF FinishLectures
    <2>2. CASE FindForReset(w, e)
      BY <2>2 DEF FindForReset
    <2> QED BY <2>1, <2>2
  <1>2. PICK pc \in {"complete", "reset"} :
          job' = [job EXCEPT ![w] = [Idle EXCEPT !.pc = pc, !.enr = e,
                                                  !.status = enrolment[e].status]]
    BY DEF FinishLectures, FindForReset
  <1>3. UNCHANGED <<people, rows, provider, history>>
    BY DEF FinishLectures, FindForReset
  <1> DEFINE j == [Idle EXCEPT !.pc = pc, !.enr = e, !.status = enrolment[e].status]
  <1>4. j \in Job /\ JobRows(j) /\ JobTied(j)
    BY <1>1, EnrolmentJobType
  <1> HIDE DEF j
  <1> QED BY <1>2, <1>3, <1>4, JobStep DEF j, Inv, TypeOK, provider, history

\* A retry is a payment of the candidate its enrolment belongs to.
LEMMA CreateRetryPaymentInv ==
  ASSUME Inv, NEW w \in Worker, CreateRetryPayment(w)
  PROVE  Inv'
  <1> USE DEF Inv, people, provider, history
  <1> DEFINE e == job[w].enr
             new == FreshPayment(enrolment[e].candidate, e, Null, enrolment[e].programme)
  <1>1. PICK p \in Payment : /\ payment[p].status = "NONE"
                             /\ payment' = [payment EXCEPT ![p] = new]
                             /\ job' = [job EXCEPT ![w] = AfterCreate(p, job[w].staff)]
    BY DEF CreateRetryPayment, NextPayment
  <1>2. /\ e \in Enrolment
        /\ enrolment[e].candidate \in Candidate
        /\ enrolment[e].programme \in Programme \cup {Null}
        /\ job[w].staff \in BOOLEAN
    BY DEF CreateRetryPayment, TypeOK, Tied, JobsTied, JobTied, RowsTied, JobRows,
           EnrolmentPc, Confirming,
           EnrolmentRow, Job
  <1>3. UNCHANGED <<people, provider, history, enrolment>>
    BY DEF CreateRetryPayment
  <1>4. /\ new \in PaymentRow
        /\ new.status = "PENDING"
        /\ new.candidate = enrolment[e].candidate
        /\ new.enrolment = e
    BY <1>2, FreshTypes DEF FreshPayment
  <1> HIDE DEF new, e
  <1>5. payment' \in [Payment -> PaymentRow]
    BY <1>1, <1>4, UpdateType DEF TypeOK
  <1>6. payment'[p] = new /\ \A q \in Payment : q # p => payment'[q] = payment[q]
    BY <1>1 DEF TypeOK
  <1>7. Grows
    BY <1>1, <1>3, <1>4, <1>6 DEF Grows, Tied, RowsTied
  <1>8. PICK j \in Job : j = AfterCreate(p, job[w].staff)
    <2>1. AfterCreate(p, job[w].staff) \in Job
      BY DEF AfterCreate, Idle, Job, JobPc, EnrolmentStatus
    <2> QED BY <2>1
  <1>9. JobRows(j) /\ JobTied(j)'
    BY <1>4, <1>6, <1>8 DEF AfterCreate, Idle, JobRows, JobTied, PaymentPc, EnrolmentPc,
                            Confirming
  <1>10. job' \in [Worker -> Job] /\ (\A v \in Worker : JobRows(job[v]))' /\ JobsTied'
    BY <1>1, <1>7, <1>8, <1>9, JobsStay
  <1>11. TypeOK'
    BY <1>3, <1>5, <1>10 DEF TypeOK
  <1>12. RowsTied'
    BY <1>1, <1>2, <1>3, <1>4, <1>6, CandidateAssumption
    DEF TypeOK, Tied, RowsTied, Enrolment
  <1>13. OneLiveEnrolment'
    BY <1>3 DEF Safe, OneLiveEnrolment, Live, LiveStatus
  <1>14. ActiveOnlyIfPaid'
    BY <1>3, <1>7, PaidStays DEF Safe, ActiveOnlyIfPaid
  <1> QED BY <1>3, <1>7, <1>10, <1>11, <1>12, <1>13, <1>14, PeopleStay DEF Tied, Safe

\* A guest's payment is tied to nobody yet.
LEMMA InitiateGuestCheckoutInv ==
  ASSUME Inv, NEW w \in Worker, NEW c \in Candidate, NEW g \in Programme,
         InitiateGuestCheckout(w, c, g)
  PROVE  Inv'
  <1> USE DEF Inv, people, provider, history
  <1> DEFINE new == FreshPayment(Null, 0, c, g)
  <1>1. PICK p \in Payment : /\ payment[p].status = "NONE"
                             /\ payment' = [payment EXCEPT ![p] = new]
                             /\ job' = [job EXCEPT ![w] = AfterCreate(p, FALSE)]
    BY DEF InitiateGuestCheckout, NextPayment
  <1>2. UNCHANGED <<people, provider, history, enrolment>>
    BY DEF InitiateGuestCheckout
  <1>3. /\ new \in PaymentRow
        /\ new.status = "PENDING"
        /\ new.candidate = Null /\ new.enrolment = 0 /\ new.guest = c
    BY FreshTypes DEF FreshPayment
  <1> HIDE DEF new
  <1>4. payment' \in [Payment -> PaymentRow]
    BY <1>1, <1>3, UpdateType DEF TypeOK
  <1>5. payment'[p] = new /\ \A q \in Payment : q # p => payment'[q] = payment[q]
    BY <1>1 DEF TypeOK
  <1>6. Grows
    BY <1>1, <1>2, <1>3, <1>5 DEF Grows, Tied, RowsTied
  <1> DEFINE j == AfterCreate(p, FALSE)
  <1>7. j \in Job /\ JobRows(j) /\ JobTied(j)'
    BY <1>3, <1>5 DEF AfterCreate, Idle, Job, JobPc, JobRows, JobTied, PaymentPc,
                      EnrolmentPc, Confirming, EnrolmentStatus
  <1> HIDE DEF j
  <1>8. job' \in [Worker -> Job] /\ (\A v \in Worker : JobRows(job[v]))' /\ JobsTied'
    BY <1>1, <1>6, <1>7, JobsStay DEF j
  <1>9. TypeOK'
    BY <1>2, <1>4, <1>8 DEF TypeOK
  <1>10. RowsTied'
    BY <1>1, <1>2, <1>3, <1>5, CandidateAssumption DEF TypeOK, Tied, RowsTied
  <1>11. OneLiveEnrolment'
    BY <1>2 DEF Safe, OneLiveEnrolment, Live, LiveStatus
  <1>12. ActiveOnlyIfPaid'
    BY <1>2, <1>6, PaidStays DEF Safe, ActiveOnlyIfPaid
  <1> QED BY <1>2, <1>6, <1>8, <1>9, <1>10, <1>11, <1>12, PeopleStay DEF Tied, Safe

\* An examination fee is tied to its candidate and to no enrolment.
LEMMA RegisterForExamInv ==
  ASSUME Inv, NEW w \in Worker, NEW c \in Candidate, RegisterForExam(w, c)
  PROVE  Inv'
  <1> USE DEF Inv, people, provider, history
  <1> DEFINE new == FreshPayment(c, 0, Null, Null)
  <1>1. PICK p \in Payment : /\ payment[p].status = "NONE"
                             /\ payment' = [payment EXCEPT ![p] = new]
                             /\ job' = [job EXCEPT ![w] =
                                  [Idle EXCEPT !.pc = "checkout", !.pay = p]]
    BY DEF RegisterForExam, NextPayment
  <1>2. UNCHANGED <<people, provider, history, enrolment>>
    BY DEF RegisterForExam
  <1>3. /\ new \in PaymentRow
        /\ new.status = "PENDING"
        /\ new.candidate = c /\ new.enrolment = 0
    BY FreshTypes DEF FreshPayment
  <1> HIDE DEF new
  <1>4. payment' \in [Payment -> PaymentRow]
    BY <1>1, <1>3, UpdateType DEF TypeOK
  <1>5. payment'[p] = new /\ \A q \in Payment : q # p => payment'[q] = payment[q]
    BY <1>1 DEF TypeOK
  <1>6. Grows
    BY <1>1, <1>2, <1>3, <1>5 DEF Grows, Tied, RowsTied
  <1> DEFINE j == [Idle EXCEPT !.pc = "checkout", !.pay = p]
  <1>7. j \in Job /\ JobRows(j) /\ JobTied(j)'
    BY <1>3, <1>5 DEF Idle, Job, JobPc, JobRows, JobTied, PaymentPc,
                      EnrolmentPc, Confirming, EnrolmentStatus
  <1> HIDE DEF j
  <1>8. job' \in [Worker -> Job] /\ (\A v \in Worker : JobRows(job[v]))' /\ JobsTied'
    BY <1>1, <1>6, <1>7, JobsStay DEF j
  <1>9. TypeOK'
    BY <1>2, <1>4, <1>8 DEF TypeOK
  <1>10. RowsTied'
    BY <1>1, <1>2, <1>3, <1>5, CandidateAssumption DEF TypeOK, Tied, RowsTied
  <1>11. OneLiveEnrolment'
    BY <1>2 DEF Safe, OneLiveEnrolment, Live, LiveStatus
  <1>12. ActiveOnlyIfPaid'
    BY <1>2, <1>6, PaidStays DEF Safe, ActiveOnlyIfPaid
  <1> QED BY <1>2, <1>6, <1>8, <1>9, <1>10, <1>11, <1>12, PeopleStay DEF Tied, Safe

\* A first checkout makes two rows that name each other.
LEMMA CreatePaymentAndEnrolmentInv ==
  ASSUME Inv, NEW w \in Worker, NEW c \in Candidate, NEW g \in Programme,
         NEW staff \in BOOLEAN, CreatePaymentAndEnrolment(w, c, g, staff)
  PROVE  Inv'
  <1> USE DEF Inv, people, provider, history
  <1>1. PICK p \in Payment, e \in Enrolment :
          /\ payment[p].status = "NONE"
          /\ enrolment[e].status = "NONE"
          /\ enrolment' = [enrolment EXCEPT ![e] = FreshEnrolment(c, g)]
          /\ payment' = [payment EXCEPT ![p] = FreshPayment(c, e, Null, g)]
          /\ job' = [job EXCEPT ![w] = AfterCreate(p, staff)]
    BY DEF CreatePaymentAndEnrolment, NextPayment, NextEnrolment
  <1>2. UNCHANGED <<people, provider, history>> /\ c \in registered /\ LiveIn(c, g) = {}
    BY DEF CreatePaymentAndEnrolment
  <1> DEFINE row == FreshEnrolment(c, g)
             new == FreshPayment(c, e, Null, g)
             j == AfterCreate(p, staff)
  <1>3. /\ row \in EnrolmentRow /\ row.status = "PENDING_PAYMENT"
        /\ row.candidate = c /\ row.programme = g
    <2>1. row \in EnrolmentRow
      BY FreshTypes
    <2> QED BY <2>1 DEF FreshEnrolment, NoEnrolment
  <1>4. /\ new \in PaymentRow /\ new.status = "PENDING"
        /\ new.candidate = c /\ new.enrolment = e
    BY FreshTypes DEF FreshPayment
  <1> HIDE DEF row, new
  <1>5. enrolment' \in [Enrolment -> EnrolmentRow] /\ payment' \in [Payment -> PaymentRow]
    BY <1>1, <1>3, <1>4, UpdateType DEF TypeOK, row, new
  <1>6. /\ enrolment'[e] = row
        /\ \A f \in Enrolment : f # e => enrolment'[f] = enrolment[f]
        /\ payment'[p] = new
        /\ \A q \in Payment : q # p => payment'[q] = payment[q]
    BY <1>1 DEF TypeOK, row, new
  <1>7. Grows
    BY <1>1, <1>2, <1>6 DEF Grows, Tied, RowsTied
  <1>8. j \in Job /\ JobRows(j) /\ JobTied(j)'
    BY <1>4, <1>6 DEF AfterCreate, Idle, Job, JobPc, JobRows, JobTied, PaymentPc,
                      EnrolmentPc, Confirming, EnrolmentStatus
  <1> HIDE DEF j
  <1>9. job' \in [Worker -> Job] /\ (\A v \in Worker : JobRows(job[v]))' /\ JobsTied'
    BY <1>1, <1>7, <1>8, JobsStay DEF j
  <1>10. TypeOK'
    BY <1>2, <1>5, <1>9 DEF TypeOK
  <1>11. RowsTied'
    <2>1. \A f \in Enrolment :
            /\ enrolment'[f].status = "NONE" <=> enrolment'[f].candidate = Null
            /\ enrolment'[f].candidate # Null => enrolment'[f].candidate \in registered'
      BY <1>2, <1>3, <1>6, CandidateAssumption DEF Tied, RowsTied
    <2>2. ASSUME NEW q \in Payment, q # p, payment[q].enrolment # 0
          PROVE  payment[q].enrolment \in Enrolment /\ payment[q].enrolment # e
      BY <1>1, <2>2 DEF TypeOK, PaymentRow, Tied, RowsTied
    <2> QED BY <1>1, <1>2, <1>3, <1>4, <1>6, <2>1, <2>2, CandidateAssumption
            DEF Tied, RowsTied, Enrolment
  <1>12. OneLiveEnrolment'
    BY <1>2, <1>3, <1>6 DEF Safe, OneLiveEnrolment, Live, LiveIn
  <1>13. ActiveOnlyIfPaid'
    BY <1>3, <1>6, <1>7, PaidStays DEF Safe, ActiveOnlyIfPaid
  <1> QED BY <1>2, <1>7, <1>9, <1>10, <1>11, <1>12, <1>13, PeopleStay DEF Tied, Safe

\* What a confirmation does to its candidate's number.
LEMMA AssignNumberInv ==
  ASSUME Inv, NEW c \in Candidate, AssignNumber(c)
  PROVE  /\ number' \in [Candidate -> Nat] /\ drawn' \in Nat
         /\ number'[c] # 0 /\ number'[c] = NumberOf(c)
         /\ \A d \in Candidate : (d # c \/ number[c] # 0) => number'[d] = number[d]
         /\ NumbersTied'
  <1> USE DEF Inv, TypeOK
  <1>1. /\ number' \in [Candidate -> Nat] /\ drawn' \in Nat
        /\ number'[c] # 0 /\ number'[c] = NumberOf(c)
        /\ \A d \in Candidate : (d # c \/ number[c] # 0) => number'[d] = number[d]
    BY DEF AssignNumber, NumberOf
  <1>2. NumbersTied'
    BY <1>1 DEF Tied, NumbersTied, AssignNumber, NumberOf
  <1> QED BY <1>1, <1>2

\* What the confirmation of a programme fee does to its candidate's number and card.
LEMMA NumberAndCardInv ==
  ASSUME Inv, NEW c \in Candidate, NumberAndCard(c), PaidAFee(c)',
         \A d \in Candidate : d # c => (PaidAFee(d)' <=> PaidAFee(d))
  PROVE  /\ number' \in [Candidate -> Nat] /\ drawn' \in Nat /\ card' \in [IdCard -> CardRow]
         /\ NumbersTied' /\ CardsTied' /\ OneLiveCard'
         /\ \A k \in IdCard : card[k].holder # Null => card'[k].holder # Null
         /\ number'[c] # 0
         /\ \A d \in Candidate : (d # c \/ number[c] # 0) => number'[d] = number[d]
  <1> USE DEF Inv, TypeOK
  <1>1. /\ number' \in [Candidate -> Nat] /\ drawn' \in Nat
        /\ number'[c] # 0 /\ number'[c] = NumberOf(c)
        /\ \A d \in Candidate : (d # c \/ number[c] # 0) => number'[d] = number[d]
        /\ NumbersTied'
    BY AssignNumberInv DEF NumberAndCard
  <1>2. \A k \in IdCard : card[k].holder # Null =>
          card[k].holder \in Candidate /\ number'[card[k].holder] = number[card[k].holder]
    BY <1>1 DEF Tied, CardsTied, CardRow
  <1>3. CASE ActiveCards(c) # {}
    <2>1. card' = card
      BY <1>3 DEF NumberAndCard
    <2>2. PICK k \in IdCard : ActiveCards(c) = {k} /\ card[k].number = number[c]
      BY <1>3 DEF Safe, OneLiveCard
    <2>3. card[k].holder = c
      BY <2>2 DEF ActiveCards
    <2>4. number'[c] = number[c]
      BY <1>2, <2>3, CandidateAssumption
    <2>5. \A d \in Candidate : ActiveCards(d)' = ActiveCards(d)
      BY <2>1 DEF ActiveCards
    <2>6. OneLiveCard'
      BY <1>1, <2>1, <2>2, <2>4, <2>5 DEF Safe, OneLiveCard
    <2>7. CardsTied'
      BY <1>2, <2>1 DEF Tied, CardsTied
    <2> QED BY <1>1, <2>1, <2>6, <2>7
  <1>4. CASE ActiveCards(c) = {}
    <2> DEFINE new == Printed(c)
    <2>1. PICK k \in IdCard : /\ card[k].holder = Null
                              /\ card' = [card EXCEPT ![k] = new]
      BY <1>4 DEF NumberAndCard, NextCard
    <2>2. NumberOf(c) \in Nat
      BY <1>1
    <2>3. /\ new \in CardRow /\ new.holder = c /\ new.number = NumberOf(c)
          /\ ~new.retired /\ new.from = 0
      BY <2>2 DEF Printed, NoCard, CardRow
    <2> HIDE DEF new
    <2>4. card' \in [IdCard -> CardRow]
      BY <2>1, <2>3, UpdateType
    <2>5. card'[k] = new /\ \A j \in IdCard : j # k => card'[j] = card[j]
      BY <2>1
    <2>6. CardsTied'
      <3>1. ASSUME NEW j \in IdCard, card'[j].retired
            PROVE  \E i \in IdCard : card'[i].from = j
        <4>1. PICK i \in IdCard : card[i].from = j
          BY <2>3, <2>5, <3>1 DEF Tied, CardsTied
        <4>2. i # k
          BY <2>1, <4>1 DEF Tied, CardsTied, IdCard
        <4> QED BY <2>5, <4>1, <4>2
      <3>2. ASSUME NEW j \in IdCard
            PROVE  /\ card'[j].holder # Null =>
                        card'[j].number = number'[card'[j].holder] /\ card'[j].number # 0
                   /\ card'[j].holder = Null => card'[j].from = 0 /\ ~card'[j].retired
        BY <1>1, <1>2, <2>3, <2>5, CandidateAssumption DEF Tied, CardsTied
      <3> QED BY <3>1, <3>2 DEF CardsTied
    <2>7. OneLiveCard'
      <3>1. ActiveCards(c)' = {k}
        BY <1>4, <2>3, <2>5 DEF ActiveCards
      <3>2. ASSUME NEW d \in Candidate, d # c
            PROVE  ActiveCards(d)' = ActiveCards(d)
        BY <2>1, <2>3, <2>5, <3>2, CandidateAssumption DEF ActiveCards
      <3>3. ASSUME NEW d \in Candidate, d # c, NEW i \in IdCard, ActiveCards(d) = {i}
            PROVE  card'[i] = card[i]
        BY <2>1, <2>5, <3>3, CandidateAssumption DEF ActiveCards
      <3>4. \A d \in Candidate : d # c => number'[d] = number[d]
        BY <1>1
      <3>5. card'[k].number = number'[c]
        BY <1>1, <2>3, <2>5
      <3> QED BY <3>1, <3>2, <3>3, <3>4, <3>5 DEF Safe, OneLiveCard
    <2> QED BY <1>1, <2>1, <2>3, <2>4, <2>5, <2>6, <2>7, CandidateAssumption
  <1> QED BY <1>3, <1>4

\* The unique columns keep one live card per number through a reissue.
LEMMA ReissueIdCardInv ==
  ASSUME Inv, NEW w \in Worker, ReissueIdCard(w)
  PROVE  Inv'
  <1> USE DEF Inv, people, rows, provider, history
  <1> DEFINE k == job[w].card
  <1>1. k \in IdCard /\ card[k].holder # Null
    BY DEF ReissueIdCard, TypeOK, Tied, JobsTied, JobTied, JobRows
  <1>2. CASE ~SuccessorAdmitted(k)
    BY <1>2, EndsInv DEF ReissueIdCard, TypeOK
  <1>3. CASE SuccessorAdmitted(k)
    <2>1. PICK j \in IdCard :
            /\ card[j].holder = Null
            /\ card' = [card EXCEPT ![k].retired = TRUE,
                                    ![j] = [card[k] EXCEPT !.retired = FALSE, !.from = k]]
      BY <1>3 DEF ReissueIdCard, NextCard
    <2> DEFINE old == [card[k] EXCEPT !.retired = TRUE]
               new == [card[k] EXCEPT !.retired = FALSE, !.from = k]
    <2>2. /\ job' = [job EXCEPT ![w] = Idle]
          /\ UNCHANGED <<rows, provider, history, registered, number, drawn>>
      BY DEF ReissueIdCard
    <2>3. card[k] \in CardRow
      BY <1>1 DEF TypeOK
    <2>4. /\ old \in CardRow /\ old.holder = card[k].holder /\ old.number = card[k].number
          /\ old.retired /\ old.from = card[k].from
      BY <2>3 DEF CardRow
    <2>5. /\ new \in CardRow /\ new.holder = card[k].holder /\ new.number = card[k].number
          /\ ~new.retired /\ new.from = k
      BY <1>1, <2>3 DEF CardRow
    <2>6. j # k
      BY <1>1, <2>1
    <2>7. card' \in [IdCard -> CardRow]
      BY <1>1, <2>1, <2>4, <2>5 DEF TypeOK
    <2>8. /\ card'[j] = new /\ card'[k] = old
          /\ \A i \in IdCard : i # j /\ i # k => card'[i] = card[i]
      BY <1>1, <2>1, <2>6 DEF TypeOK
    <2> HIDE DEF old, new, k
    <2>9. Grows
      BY <1>1, <2>1, <2>2, <2>4, <2>5, <2>8 DEF Grows
    <2>10. JobTied(Idle)'
      BY DEF Idle, JobTied, PaymentPc, EnrolmentPc, Confirming
    <2>11. job' \in [Worker -> Job] /\ (\A v \in Worker : JobRows(job[v]))' /\ JobsTied'
      BY <2>2, <2>9, <2>10, IdleType, JobsStay
    <2>12. TypeOK'
      BY <2>2, <2>7, <2>11 DEF TypeOK
    <2>13. RowsTied' /\ OneLiveEnrolment' /\ ActiveOnlyIfPaid' /\ NumberIffConfirmed'
           /\ NumbersTied'
      BY <2>2 DEF Tied, Safe, RowsTied, OneLiveEnrolment, Live, LiveStatus,
                  ActiveOnlyIfPaid,
                  Paid, NumberIffConfirmed, NumbersTied
    <2>14. CardsTied'
      <3>1. ASSUME NEW i \in IdCard, card'[i].retired
            PROVE  \E h \in IdCard : card'[h].from = i
        <4>1. CASE i = k
          BY <2>5, <2>8, <4>1
        <4>2. CASE i # k
          <5>1. PICK h \in IdCard : card[h].from = i
            BY <2>5, <2>8, <3>1, <4>2 DEF Tied, CardsTied
          <5>2. h # j
            BY <2>1, <5>1 DEF Tied, CardsTied, IdCard
          <5> QED BY <2>4, <2>8, <5>1, <5>2
        <4> QED BY <4>1, <4>2
      <3>2. ASSUME NEW i \in IdCard
            PROVE  /\ card'[i].holder # Null =>
                        card'[i].number = number'[card'[i].holder] /\ card'[i].number # 0
                   /\ card'[i].holder = Null => card'[i].from = 0 /\ ~card'[i].retired
        BY <1>1, <2>2, <2>4, <2>5, <2>8 DEF Tied, CardsTied
      <3> QED BY <3>1, <3>2 DEF CardsTied
    <2>15. OneLiveCard'
      <3>1. PICK c \in Candidate :
              c = card[k].holder /\ number[c] # 0 /\ card[k].number = number[c]
        BY <1>1, <2>3 DEF CardRow, Tied, CardsTied
      <3>2. ~card[k].retired
        BY <1>1, <1>3 DEF SuccessorAdmitted, k, Tied, CardsTied
      <3>3. ActiveCards(c) = {k} /\ PaidAFee(c)
        BY <1>1, <3>1, <3>2 DEF Safe, OneLiveCard, ActiveCards
      <3>4. card[j].holder = Null
        BY <2>1
      <3>5. ActiveCards(c)' = {j}
        <4>1. \A i \in IdCard : card'[i].holder = c /\ ~card'[i].retired <=> i = j
          BY <2>4, <2>5, <2>8, <3>1, <3>3, <3>4, CandidateAssumption DEF ActiveCards
        <4> QED BY <4>1 DEF ActiveCards
      <3>6. ASSUME NEW d \in Candidate, d # c
            PROVE  /\ ActiveCards(d)' = ActiveCards(d)
                   /\ \A i \in ActiveCards(d) : card'[i] = card[i]
        <4>1. \A i \in IdCard : card'[i].holder = d \/ card[i].holder = d =>
                i # j /\ i # k /\ card'[i] = card[i]
          BY <2>4, <2>5, <2>8, <3>1, <3>6, <3>4, CandidateAssumption
        <4> QED BY <4>1 DEF ActiveCards
      <3>7. \A d \in Candidate : PaidAFee(d)' <=> PaidAFee(d)
        BY <2>2 DEF PaidAFee
      <3> QED BY <2>2, <2>5, <2>8, <3>1, <3>3, <3>5, <3>6, <3>7 DEF Safe, OneLiveCard
    <2> QED BY <2>11, <2>12, <2>13, <2>14, <2>15 DEF Tied, Safe
  <1> QED BY <1>2, <1>3

\* The confirmation of a known candidate.
LEMMA ConfirmCommitInv ==
  ASSUME Inv, NEW w \in Worker, ConfirmCommit(w)
  PROVE  Inv'
  <1> USE DEF Inv, provider
  <1>1. PICK p \in Payment, e \in Enrolment, c \in Candidate :
          /\ p = job[w].pay /\ e = job[w].enr
          /\ e = payment[p].enrolment /\ c = payment[p].candidate
          /\ payment[p].status # "NONE"
    <2>1. /\ job[w].pay \in Payment /\ job[w].enr \in Enrolment
          /\ payment[job[w].pay].status # "NONE" /\ payment[job[w].pay].candidate # Null
          /\ job[w].enr = payment[job[w].pay].enrolment
      BY DEF ConfirmCommit, TypeOK, JobRows, Tied, JobsTied, JobTied, PaymentPc,
             EnrolmentPc, Confirming
    <2>2. payment[job[w].pay].candidate \in Candidate
      BY <2>1 DEF TypeOK, PaymentRow
    <2> QED BY <2>1, <2>2
  <1>2. enrolment' = [enrolment EXCEPT ![e] = Activated(enrolment[e], job[w])]
    BY <1>1 DEF ConfirmCommit
  <1>3. payment' = [payment EXCEPT ![p].status = "SUCCESS"]
    BY <1>1 DEF ConfirmCommit
  <1>4. confirmed' = [confirmed EXCEPT ![p] = @ + 1]
    BY <1>1 DEF ConfirmCommit
  <1>5. NumberAndCard(c) /\ IndexAdmits(e, "ACTIVE")
    BY <1>1 DEF ConfirmCommit
  <1>6. /\ job' = [job EXCEPT ![w] = Idle]
        /\ UNCHANGED <<provider, registered>>
    BY DEF ConfirmCommit
  <1> DEFINE row == Activated(enrolment[e], job[w])
  <1>7. row \in EnrolmentRow
    BY ActivatedType DEF TypeOK
  <1>8. /\ row.status = "ACTIVE"
        /\ row.candidate = enrolment[e].candidate
        /\ row.programme = enrolment[e].programme
    BY DEF Activated, TypeOK, EnrolmentRow
  <1> HIDE DEF row
  <1>9. /\ enrolment[e].candidate = c /\ enrolment[e].status # "NONE" /\ c \in registered
        /\ payment[p].enrolment = e
    BY <1>1, CandidateAssumption DEF Tied, RowsTied, Enrolment
  <1>10. enrolment' \in [Enrolment -> EnrolmentRow] /\ payment' \in [Payment -> PaymentRow]
        /\ confirmed' \in [Payment -> Nat]
    <2>1. enrolment' \in [Enrolment -> EnrolmentRow]
      BY <1>2, <1>7, UpdateType DEF TypeOK, row
    <2>2. payment' \in [Payment -> PaymentRow]
      BY <1>3 DEF TypeOK, PaymentRow, PaymentStatus
    <2>3. confirmed' \in [Payment -> Nat]
      BY <1>4 DEF TypeOK
    <2> QED BY <2>1, <2>2, <2>3
  <1>11. /\ enrolment'[e] = row
        /\ \A f \in Enrolment : f # e => enrolment'[f] = enrolment[f]
    BY <1>2 DEF TypeOK, row
  <1>12. /\ \A q \in Payment :
             /\ payment'[q].candidate = payment[q].candidate
             /\ payment'[q].enrolment = payment[q].enrolment
             /\ payment'[q].guest = payment[q].guest
             /\ payment'[q].status = "NONE" <=> payment[q].status = "NONE"
    BY <1>1, <1>3 DEF TypeOK, PaymentRow
  <1>13. confirmed'[p] > 0 /\ \A q \in Payment : q # p => confirmed'[q] = confirmed[q]
    BY <1>4 DEF TypeOK
  <1>14. /\ number' \in [Candidate -> Nat] /\ drawn' \in Nat /\ card' \in [IdCard -> CardRow]
         /\ NumbersTied' /\ CardsTied' /\ OneLiveCard'
         /\ \A k \in IdCard : card[k].holder # Null => card'[k].holder # Null
         /\ number'[c] # 0
         /\ \A d \in Candidate : (d # c \/ number[c] # 0) => number'[d] = number[d]
    <2>1. PaidAFee(c)'
      BY <1>1, <1>12, <1>13 DEF PaidAFee, Enrolment
    <2>2. \A d \in Candidate : d # c => (PaidAFee(d)' <=> PaidAFee(d))
      BY <1>1, <1>12, <1>13 DEF PaidAFee
    <2> QED BY <1>5, <2>1, <2>2, NumberAndCardInv
  <1>15. Grows
    BY <1>8, <1>9, <1>11, <1>12, <1>13, <1>14 DEF Grows
  <1>16. JobTied(Idle)'
    BY DEF Idle, JobTied, PaymentPc, EnrolmentPc, Confirming
  <1>17. job' \in [Worker -> Job] /\ (\A v \in Worker : JobRows(job[v]))' /\ JobsTied'
    BY <1>6, <1>15, <1>16, IdleType, JobsStay
  <1>18. TypeOK'
    <2>1. strayed' \subseteq Cohort
      BY StrayType DEF ConfirmCommit
    <2> QED BY <2>1, <1>6, <1>10, <1>14, <1>17 DEF TypeOK
  <1>19. \A f \in Enrolment :
           /\ enrolment'[f].candidate = enrolment[f].candidate
           /\ enrolment'[f].programme = enrolment[f].programme
           /\ enrolment'[f].status = "NONE" <=> enrolment[f].status = "NONE"
    BY <1>8, <1>9, <1>11
  <1>20. RowsTied'
    <2>1. \A q \in Payment : payment[q].enrolment # 0 => payment[q].enrolment \in Enrolment
      BY DEF TypeOK, PaymentRow
    <2> QED BY <1>1, <1>6, <1>9, <1>12, <1>13, <1>19, <2>1, CandidateAssumption DEF Tied,
                                                                                    RowsTied
  <1>21. OneLiveEnrolment'
    <2>1. ASSUME NEW f \in Enrolment, f # e, Live(f),
                 enrolment[f].candidate = enrolment[e].candidate,
                 enrolment[f].programme = enrolment[e].programme
          PROVE  FALSE
      BY <1>5, <2>1 DEF IndexAdmits, LiveIn, LiveStatus
    <2> QED BY <1>11, <1>19, <2>1 DEF Safe, OneLiveEnrolment, Live
  <1>22. ActiveOnlyIfPaid'
    <2>1. Paid(e)'
      BY <1>1, <1>9, <1>12, <1>13, <1>19 DEF Paid
    <2>2. ASSUME NEW f \in Enrolment, f # e, enrolment[f].status \in {"ACTIVE", "COMPLETED"}
          PROVE  Paid(f)'
      BY <1>15, <2>2, PaidStays DEF Safe, ActiveOnlyIfPaid
    <2> QED BY <1>11, <2>1, <2>2 DEF ActiveOnlyIfPaid
  <1>23. NumberIffConfirmed'
    <2>1. ASSUME NEW d \in Candidate
          PROVE  number'[d] # 0 <=>
                   \E q \in Payment : payment'[q].candidate = d /\ confirmed'[q] > 0
      <3>1. CASE d = c
        BY <1>1, <1>12, <1>13, <1>14, <3>1
      <3>2. CASE d # c
        BY <1>1, <1>12, <1>13, <1>14, <3>2 DEF Safe, NumberIffConfirmed
      <3> QED BY <3>1, <3>2
    <2> QED BY <1>14, <2>1 DEF NumberIffConfirmed, NumbersTied
  <1> QED BY <1>14, <1>17, <1>18, <1>20, <1>21, <1>22, <1>23 DEF Tied, Safe

\* The confirmation of an examination fee: a number, and nothing else.
LEMMA ConfirmExamFeeInv ==
  ASSUME Inv, NEW w \in Worker, ConfirmExamFee(w)
  PROVE  Inv'
  <1> USE DEF Inv, provider
  <1>1. PICK p \in Payment, c \in Candidate :
          /\ p = job[w].pay /\ c = payment[p].candidate
          /\ payment[p].status # "NONE" /\ payment[p].enrolment = 0
    <2>1. /\ job[w].pay \in Payment /\ payment[job[w].pay].status # "NONE"
          /\ payment[job[w].pay].candidate # Null /\ payment[job[w].pay].enrolment = 0
      BY DEF ConfirmExamFee, TypeOK, JobRows, Tied, JobsTied, JobTied, PaymentPc
    <2>2. payment[job[w].pay].candidate \in Candidate
      BY <2>1 DEF TypeOK, PaymentRow
    <2> QED BY <2>1, <2>2
  <1>2. /\ payment' = [payment EXCEPT ![p].status = "SUCCESS"]
        /\ confirmed' = [confirmed EXCEPT ![p] = @ + 1]
        /\ AssignNumber(c)
        /\ job' = [job EXCEPT ![w] = Idle]
        /\ UNCHANGED <<provider, registered, card, enrolment, strayed>>
    <2>1. payment' = [payment EXCEPT ![p].status = "SUCCESS"]
      BY <1>1 DEF ConfirmExamFee
    <2>2. confirmed' = [confirmed EXCEPT ![p] = @ + 1]
      BY <1>1 DEF ConfirmExamFee
    <2>3. AssignNumber(c)
      BY <1>1 DEF ConfirmExamFee
    <2>4. /\ job' = [job EXCEPT ![w] = Idle]
          /\ UNCHANGED <<provider, registered, card, enrolment, strayed>>
      BY DEF ConfirmExamFee
    <2> QED BY <2>1, <2>2, <2>3, <2>4
  <1>3. payment' \in [Payment -> PaymentRow] /\ confirmed' \in [Payment -> Nat]
    <2>1. payment' \in [Payment -> PaymentRow]
      BY <1>2 DEF TypeOK, PaymentRow, PaymentStatus
    <2>2. confirmed' \in [Payment -> Nat]
      BY <1>2 DEF TypeOK
    <2> QED BY <2>1, <2>2
  <1>4. \A q \in Payment :
          /\ payment'[q].candidate = payment[q].candidate
          /\ payment'[q].enrolment = payment[q].enrolment
          /\ payment'[q].guest = payment[q].guest
          /\ payment'[q].status = "NONE" <=> payment[q].status = "NONE"
    BY <1>1, <1>2 DEF TypeOK, PaymentRow
  <1>5. confirmed'[p] > 0 /\ \A q \in Payment : q # p => confirmed'[q] = confirmed[q]
    BY <1>2 DEF TypeOK
  <1>6. /\ number' \in [Candidate -> Nat] /\ drawn' \in Nat
        /\ number'[c] # 0
        /\ \A d \in Candidate : (d # c \/ number[c] # 0) => number'[d] = number[d]
        /\ NumbersTied'
    BY <1>2, AssignNumberInv
  <1>7. Grows
    BY <1>2, <1>4, <1>5 DEF Grows
  <1>8. JobTied(Idle)'
    BY DEF Idle, JobTied, PaymentPc, EnrolmentPc, Confirming
  <1>9. job' \in [Worker -> Job] /\ (\A v \in Worker : JobRows(job[v]))' /\ JobsTied'
    BY <1>2, <1>7, <1>8, IdleType, JobsStay
  <1>10. TypeOK'
    BY <1>2, <1>3, <1>6, <1>9 DEF TypeOK
  <1>11. RowsTied'
    BY <1>1, <1>2, <1>4, <1>5, CandidateAssumption DEF Tied, RowsTied
  <1>12. OneLiveEnrolment'
    BY <1>2 DEF Safe, OneLiveEnrolment, Live, LiveStatus
  <1>13. ActiveOnlyIfPaid'
    <2>1. ASSUME NEW f \in Enrolment, enrolment[f].status \in {"ACTIVE", "COMPLETED"}
          PROVE  Paid(f)'
      BY <1>7, <2>1, PaidStays DEF Safe, ActiveOnlyIfPaid
    <2> QED BY <1>2, <2>1 DEF ActiveOnlyIfPaid
  <1>14. NumberIffConfirmed'
    <2>1. ASSUME NEW d \in Candidate
          PROVE  number'[d] # 0 <=>
                   \E q \in Payment : payment'[q].candidate = d /\ confirmed'[q] > 0
      <3>1. CASE d = c
        BY <1>1, <1>4, <1>5, <1>6, <3>1
      <3>2. CASE d # c
        BY <1>1, <1>4, <1>5, <1>6, <3>2 DEF Safe, NumberIffConfirmed
      <3> QED BY <3>1, <3>2
    <2> QED BY <1>6, <2>1 DEF NumberIffConfirmed, NumbersTied
  <1>15. CardsTied'
    BY <1>2, <1>6 DEF TypeOK, Tied, CardsTied, CardRow
  <1>16. OneLiveCard'
    <2>1. \A d \in Candidate : ActiveCards(d)' = ActiveCards(d)
      BY <1>2 DEF ActiveCards
    <2>2. \A d \in Candidate : PaidAFee(d)' <=> PaidAFee(d)
      BY <1>1, <1>4, <1>5 DEF PaidAFee
    <2>3. ASSUME NEW d \in Candidate, NEW k \in IdCard, ActiveCards(d) = {k}
          PROVE  number'[d] = number[d] /\ card'[k] = card[k]
      <3>1. card[k].holder = d
        BY <2>3 DEF ActiveCards
      <3>2. number[d] # 0
        BY <3>1, CandidateAssumption DEF Tied, CardsTied
      <3> QED BY <1>2, <1>6, <3>2
    <2> QED BY <2>1, <2>2, <2>3 DEF Safe, OneLiveCard
  <1> QED BY <1>6, <1>9, <1>10, <1>11, <1>12, <1>13, <1>14, <1>15, <1>16 DEF Tied, Safe

\* The confirmation of a guest's payment, account and enrolment included.
LEMMA ConfirmGuestInv ==
  ASSUME Inv, NEW w \in Worker, ConfirmGuest(w)
  PROVE  Inv'
  <1> USE DEF Inv, provider
  <1>1. PICK p \in Payment, c \in Candidate :
          /\ p = job[w].pay /\ c = payment[p].guest
          /\ payment[p].status # "NONE" /\ payment[p].candidate = Null
          /\ payment[p].enrolment = 0 /\ ~(confirmed[p] > 0)
          /\ c \notin registered
    <2>1. /\ job[w].pay \in Payment
          /\ payment[job[w].pay].status # "NONE" /\ payment[job[w].pay].candidate = Null
          /\ payment[job[w].pay].guest \notin registered
      BY DEF ConfirmGuest, TypeOK, JobRows, Tied, JobsTied, JobTied, PaymentPc
    <2>2. payment[job[w].pay].guest \in Candidate
      BY <2>1 DEF TypeOK, PaymentRow, Tied, RowsTied
    <2> QED BY <2>1, <2>2 DEF Tied, RowsTied
  <1> DEFINE row(e) == [NoEnrolment EXCEPT !.status = "ACTIVE", !.candidate = c,
                                          !.programme = payment[p].programme]
  <1>2. PICK e \in Enrolment :
          /\ enrolment[e].status = "NONE"
          /\ enrolment' = [enrolment EXCEPT ![e] = row(e)]
          /\ payment' = [payment EXCEPT ![p] = Attached(payment[p], c, e)]
    BY <1>1 DEF ConfirmGuest, NextEnrolment
  <1>3. confirmed' = [confirmed EXCEPT ![p] = @ + 1] /\ NumberAndCard(c)
    BY <1>1 DEF ConfirmGuest
  <1>4. /\ job' = [job EXCEPT ![w] = Idle]
        /\ registered' = registered \cup {c}
        /\ UNCHANGED <<provider, strayed>>
    BY <1>1 DEF ConfirmGuest
  <1> DEFINE new == Attached(payment[p], c, e)
  <1>5. payment[p] \in PaymentRow
    BY DEF TypeOK
  <1>6. row(e) \in EnrolmentRow /\ row(e).status = "ACTIVE" /\ row(e).candidate = c
    <2>1. payment[p].programme \in Programme \cup {Null}
      BY <1>5 DEF PaymentRow
    <2> QED BY <2>1 DEF NoEnrolment, EnrolmentRow, EnrolmentStatus
  <1>7. /\ new \in PaymentRow /\ new.status = "SUCCESS"
        /\ new.candidate = c /\ new.enrolment = e
    BY <1>5 DEF Attached, PaymentRow, PaymentStatus
  <1> HIDE DEF row, new
  <1>8. enrolment' \in [Enrolment -> EnrolmentRow] /\ payment' \in [Payment -> PaymentRow]
    BY <1>2, <1>6, <1>7, UpdateType DEF TypeOK, new
  <1>9. confirmed' \in [Payment -> Nat] /\ confirmed'[p] > 0
        /\ \A q \in Payment : q # p => confirmed'[q] = confirmed[q]
    BY <1>3 DEF TypeOK
  <1>10. /\ enrolment'[e] = row(e)
         /\ \A f \in Enrolment : f # e => enrolment'[f] = enrolment[f]
         /\ payment'[p] = new
         /\ \A q \in Payment : q # p => payment'[q] = payment[q]
    BY <1>2 DEF TypeOK, new
  <1>11. /\ number' \in [Candidate -> Nat] /\ drawn' \in Nat /\ card' \in [IdCard -> CardRow]
         /\ NumbersTied' /\ CardsTied' /\ OneLiveCard'
         /\ \A k \in IdCard : card[k].holder # Null => card'[k].holder # Null
         /\ number'[c] # 0
         /\ \A d \in Candidate : (d # c \/ number[c] # 0) => number'[d] = number[d]
    <2>1. PaidAFee(c)'
      BY <1>7, <1>9, <1>10 DEF PaidAFee, Enrolment
    <2>2. \A d \in Candidate : d # c => (PaidAFee(d)' <=> PaidAFee(d))
      BY <1>1, <1>7, <1>9, <1>10 DEF PaidAFee
    <2> QED BY <1>3, <2>1, <2>2, NumberAndCardInv
  <1>12. Grows
    BY <1>1, <1>2, <1>7, <1>9, <1>10, <1>11 DEF Grows
  <1>13. JobTied(Idle)'
    BY DEF Idle, JobTied, PaymentPc, EnrolmentPc, Confirming
  <1>14. job' \in [Worker -> Job] /\ (\A v \in Worker : JobRows(job[v]))' /\ JobsTied'
    BY <1>4, <1>12, <1>13, IdleType, JobsStay
  <1>15. TypeOK'
    BY <1>4, <1>8, <1>9, <1>11, <1>14 DEF TypeOK
  <1>16. \A q \in Payment : payment[q].enrolment # 0 =>
           payment[q].enrolment \in Enrolment /\ payment[q].enrolment # e
    BY <1>2 DEF TypeOK, PaymentRow, Tied, RowsTied
  <1>17. RowsTied'
    <2>1. \A f \in Enrolment :
            /\ enrolment'[f].status = "NONE" <=> enrolment'[f].candidate = Null
            /\ enrolment'[f].candidate # Null => enrolment'[f].candidate \in registered'
      BY <1>4, <1>6, <1>10, CandidateAssumption DEF Tied, RowsTied
    <2> QED BY <1>4, <1>6, <1>7, <1>9, <1>10, <1>16, <2>1, CandidateAssumption
            DEF Tied, RowsTied, Enrolment
  <1>18. OneLiveEnrolment'
    <2>1. \A f \in Enrolment : f # e => enrolment[f].candidate # c
      BY <1>1, CandidateAssumption DEF Tied, RowsTied
    <2> QED BY <1>6, <1>10, <2>1 DEF Safe, OneLiveEnrolment, Live, LiveStatus
  <1>19. ActiveOnlyIfPaid'
    <2>1. Paid(e)'
      BY <1>6, <1>7, <1>9, <1>10 DEF Paid
    <2>2. ASSUME NEW f \in Enrolment, f # e, enrolment[f].status \in {"ACTIVE", "COMPLETED"}
          PROVE  Paid(f)'
      BY <1>12, <2>2, PaidStays DEF Safe, ActiveOnlyIfPaid
    <2> QED BY <1>10, <2>1, <2>2 DEF ActiveOnlyIfPaid
  <1>20. NumberIffConfirmed'
    <2>1. ASSUME NEW d \in Candidate
          PROVE  number'[d] # 0 <=>
                   \E q \in Payment : payment'[q].candidate = d /\ confirmed'[q] > 0
      <3>1. CASE d = c
        BY <1>7, <1>9, <1>10, <1>11, <3>1
      <3>2. CASE d # c
        BY <1>1, <1>7, <1>9, <1>10, <1>11, <3>2, CandidateAssumption
        DEF Safe, NumberIffConfirmed
      <3> QED BY <3>1, <3>2
    <2> QED BY <1>11, <2>1 DEF NumberIffConfirmed, NumbersTied
  <1> QED BY <1>11, <1>14, <1>15, <1>17, <1>18, <1>19, <1>20 DEF Tied, Safe

-----------------------------------------------------------------------------
(* The theorems.                                                           *)

\* The initial rows are rows of the schema.
LEMMA InitType == Init => TypeOK
  <1> SUFFICES ASSUME Init PROVE TypeOK OBVIOUS
  <1> USE DEF Init
  <1>1. payment \in [Payment -> PaymentRow]
    BY SeededAssumption, CandidateAssumption
    DEF FreshPayment, NoPayment, PaymentRow, PaymentStatus, SeededRow
  <1>2. enrolment \in [Enrolment -> EnrolmentRow]
    BY SeededAssumption, CandidateAssumption
    DEF FreshEnrolment, NoEnrolment, EnrolmentRow, EnrolmentStatus, SeededRow
  <1>3. card \in [IdCard -> CardRow]
    BY DEF NoCard, CardRow
  <1>4. job \in [Worker -> Job] /\ \A w \in Worker : JobRows(job[w])
    BY IdleType
  <1>5. registered \subseteq Candidate
    BY SeededAssumption DEF SeededRow
  <1> QED BY <1>1, <1>2, <1>3, <1>4, <1>5 DEF TypeOK

\* Nobody has paid, so nothing is active, numbered or carded.
LEMMA InitInv == Init => Inv
  <1> SUFFICES ASSUME Init PROVE Inv OBVIOUS
  <1>1. TypeOK
    BY InitType
  <1>2. \A w \in Worker : job[w] = Idle
    BY DEF Init
  <1>3. \A k \in IdCard : card[k].holder = Null /\ card[k].from = 0 /\ ~card[k].retired
    BY DEF Init, NoCard
  <1>4. \A p \in Payment : confirmed[p] = 0
    BY DEF Init
  <1>5. \A c \in Candidate : number[c] = 0
    BY DEF Init
  <1>6. RowsTied
    <2>1. \A e \in Enrolment :
            IF e \in DOMAIN Seeded
            THEN /\ enrolment[e].status = "PENDING_PAYMENT"
                 /\ enrolment[e].candidate = Seeded[e].candidate
                 /\ enrolment[e].programme = Seeded[e].programme
            ELSE enrolment[e].status = "NONE" /\ enrolment[e].candidate = Null
      BY DEF Init, FreshEnrolment, NoEnrolment
    <2>2. \A p \in Payment :
            IF p \in DOMAIN Seeded
            THEN /\ payment[p].status = "PENDING"
                 /\ payment[p].candidate = Seeded[p].candidate
                 /\ payment[p].enrolment = p
            ELSE /\ payment[p].status = "NONE" /\ payment[p].candidate = Null
                 /\ payment[p].enrolment = 0
      BY DEF Init, FreshPayment, NoPayment
    <2>3. \A k \in DOMAIN Seeded :
            k \in Enrolment /\ k # 0 /\ Seeded[k].candidate \in registered
            /\ Seeded[k].candidate # Null
      BY SeededAssumption, CandidateAssumption DEF Init, SeededRow, Enrolment
    <2>4. \A p \in Payment : checkout[p] # "none" => p \in DOMAIN Seeded
      BY DEF Init
    <2> QED BY <1>4, <2>1, <2>2, <2>3, <2>4 DEF RowsTied
  <1>7. JobsTied
    BY <1>2, IdleType DEF JobsTied
  <1>8. NumbersTied /\ CardsTied /\ NumberIffConfirmed /\ OneLiveCard
    BY <1>3, <1>4, <1>5, CandidateAssumption
    DEF Init, NumbersTied, CardsTied, NumberIffConfirmed, OneLiveCard, PaidAFee, ActiveCards
  <1>9. OneLiveEnrolment /\ ActiveOnlyIfPaid
    <2>1. \A e \in Enrolment : enrolment[e].status # "NONE" =>
            /\ e \in DOMAIN Seeded /\ enrolment[e].status = "PENDING_PAYMENT"
            /\ enrolment[e].candidate = Seeded[e].candidate
      BY DEF Init, FreshEnrolment, NoEnrolment
    <2> QED BY <2>1, SeededAssumption DEF OneLiveEnrolment, ActiveOnlyIfPaid, Live,
                                          LiveStatus
  <1> QED BY <1>1, <1>6, <1>7, <1>8, <1>9 DEF Inv, Tied, Safe

\* The order is made: the page opens, or the request goes on to its failure mark.
LEMMA OpenCheckoutInv ==
  ASSUME Inv, NEW w \in Worker, OpenCheckout(w) \/ LoseAnswer(w)
  PROVE  Inv'
  <1>1. job[w].pc = "checkout"
    BY DEF OpenCheckout, LoseAnswer
  <1>2. job[w].pay \in Payment /\ payment[job[w].pay].status # "NONE"
    BY <1>1 DEF Inv, TypeOK, Tied, JobsTied, JobTied, JobRows, PaymentPc
  <1> DEFINE j == [job[w] EXCEPT !.pc = "fail"]
  <1>3. j \in Job /\ JobRows(j) /\ JobTied(j)
    BY <1>1, <1>2 DEF Inv, TypeOK, Job, JobPc, JobRows, JobTied, PaymentPc, EnrolmentPc,
                      Confirming
  <1>4. OneJobMoves
    <2>1. CASE OpenCheckout(w)
      BY <2>1, IdleType DEF OpenCheckout, OneJobMoves
    <2>2. CASE LoseAnswer(w)
      <3>1. job' = [job EXCEPT ![w] = j]
        BY <2>2 DEF LoseAnswer
      <3> HIDE DEF j
      <3> QED BY <1>3, <3>1 DEF OneJobMoves
    <2> QED BY <2>1, <2>2
  <1> QED BY <1>2, <1>4, CheckoutInv DEF OpenCheckout, LoseAnswer

\* The payer pays on it.
LEMMA CheckoutPaidInv ==
  ASSUME Inv, NEW p \in Payment, CheckoutPaid(p)
  PROVE  Inv'
  <1>1. payment[p].status # "NONE"
    BY DEF CheckoutPaid, Inv, Tied, RowsTied
  <1> QED BY <1>1, CheckoutInv DEF CheckoutPaid

\* Nothing happens.
LEMMA StutterInv ==
  ASSUME Inv, UNCHANGED vars
  PROVE  Inv'
  <1> USE DEF vars, people, rows, provider, history, Inv, Tied, Safe
  <1>1. TypeOK'
    BY DEF TypeOK
  <1>2. RowsTied' /\ JobsTied' /\ NumbersTied' /\ CardsTied'
    BY DEF RowsTied, JobsTied, JobTied, Paid, NumbersTied, CardsTied
  <1>3. OneLiveEnrolment' /\ ActiveOnlyIfPaid' /\ NumberIffConfirmed' /\ OneLiveCard'
    BY DEF OneLiveEnrolment, Live, LiveStatus, ActiveOnlyIfPaid, Paid, NumberIffConfirmed,
           OneLiveCard, PaidAFee, ActiveCards
  <1> QED BY <1>1, <1>2, <1>3

\* Every request that arrives keeps the invariant.
LEMMA ArriveInv ==
  ASSUME Inv, NEW w \in Worker, Arrive(w)
  PROVE  Inv'
  <1>1. CASE \E c \in Candidate, g \in Programme, staff \in BOOLEAN :
               CreatePaymentAndEnrolment(w, c, g, staff) \/ FindAbandoned(w, c, g, staff)
    BY <1>1, CreatePaymentAndEnrolmentInv, FindAbandonedInv
  <1>2. CASE \E c \in Candidate, g \in Programme : InitiateGuestCheckout(w, c, g)
    BY <1>2, InitiateGuestCheckoutInv
  <1>3. CASE \E c \in Candidate : RegisterForExam(w, c)
    BY <1>3, RegisterForExamInv
  <1>4. CASE \E n \in Notice : ReceiveNotice(w, n)
    BY <1>4, ReceiveNoticeInv
  <1>5. CASE \E p \in Payment : MarkPaymentFailed(w, p)
    BY <1>5, MarkPaymentFailedInv
  <1>6. CASE \E p \in Payment, full \in BOOLEAN : ConfirmPaymentManually(w, p, full)
    BY <1>6, RecordingInv
  <1>7. CASE \E e \in Enrolment : FinishLectures(w, e) \/ FindForReset(w, e)
    BY <1>7, FindEnrolmentInv
  <1>8. CASE \E k \in IdCard : FindCardToReissue(w, k)
    BY <1>8, FindCardToReissueInv
  <1> QED BY <1>1, <1>2, <1>3, <1>4, <1>5, <1>6, <1>7, <1>8 DEF Arrive

\* So does every step of a request under way.
LEMMA ProceedInv ==
  ASSUME Inv, NEW w \in Worker, Proceed(w)
  PROVE  Inv'
  <1>1. CASE CreateRetryPayment(w)
    BY <1>1, CreateRetryPaymentInv
  <1>2. CASE OpenCheckout(w) \/ LoseAnswer(w)
    BY <1>2, OpenCheckoutInv
  <1>3. CASE WriteFailed(w) \/ RecordPartPayment(w)
    BY <1>3, WriteStatusInv
  <1>4. CASE \E full \in BOOLEAN : RecordOfflinePayment(w, full)
    BY <1>4, RecordingInv
  <1>5. CASE ConfirmAgain(w) \/ ConfirmRefused(w) \/ ConfirmGuestRefused(w)
    BY <1>5, IdleInv
  <1>6. CASE ConfirmLock(w) \/ ConfirmPlace(w)
    BY <1>6, ConfirmLockInv, ConfirmPlaceInv
  <1>7. CASE ConfirmCommit(w)
    BY <1>7, ConfirmCommitInv
  <1>8. CASE ConfirmExamFee(w)
    BY <1>8, ConfirmExamFeeInv
  <1>9. CASE ConfirmGuest(w)
    BY <1>9, ConfirmGuestInv
  <1>10. CASE CompleteProgramme(w)
    BY <1>10, CompleteProgrammeInv
  <1>11. CASE ResetProgress(w)
    BY <1>11, ResetProgressInv
  <1>12. CASE ReissueIdCard(w)
    BY <1>12, ReissueIdCardInv
  <1> QED BY <1>1, <1>2, <1>3, <1>4, <1>5, <1>6, <1>7, <1>8, <1>9, <1>10,
             <1>11, <1>12 DEF Proceed

\* The invariant is inductive.
LEMMA NextInv == Inv /\ [Next]_vars => Inv'
  <1> SUFFICES ASSUME Inv, [Next]_vars PROVE Inv' OBVIOUS
  <1>1. CASE \E c \in Candidate : Register(c)
    BY <1>1, RegisterInv
  <1>2. CASE \E p \in Payment : CheckoutPaid(p)
    BY <1>2, CheckoutPaidInv
  <1>3. CASE \E e \in Enrolment : MarkEnrolmentRefunded(e)
    BY <1>3, MarkEnrolmentRefundedInv
  <1>4. CASE \E e \in Enrolment, i \in Intake : TransferIntake(e, i)
    BY <1>4, TransferIntakeInv
  <1>5. CASE \E w \in Worker : Arrive(w)
    BY <1>5, ArriveInv
  <1>6. CASE \E w \in Worker : Proceed(w)
    BY <1>6, ProceedInv
  <1>7. CASE \E w \in Worker : RequestDies(w)
    BY <1>7, IdleInv
  <1>8. CASE UNCHANGED vars
    BY <1>8, StutterInv
  <1> QED BY <1>1, <1>2, <1>3, <1>4, <1>5, <1>6, <1>7, <1>8 DEF Next

\* The inductive invariant: rows, jobs, numbers and cards are tied to one another, and
\* the five safety properties hold (Enrolments: RowsTied to CardsTied).
THEOREM Invariance == Spec => []Inv
  BY InitInv, NextInv, PTL DEF Spec

\* Every row, job and notice is one the schema admits, and a request under way names
\* the row it is about to write (all of src/lib/enrolment-transaction.ts and its callers).
THEOREM TypeCorrect == Spec => []TypeOK
  <1>1. Inv => TypeOK
    BY DEF Inv
  <1> QED BY <1>1, Invariance, PTL

\* The partial unique index and the code around it leave no candidate with two live
\* enrolments in one programme.
THEOREM OneLive == Spec => []OneLiveEnrolment
  <1>1. Inv => OneLiveEnrolment
    BY DEF Inv, Safe
  <1> QED BY <1>1, Invariance, PTL

\* No enrolment is ACTIVE or COMPLETED that no payment of its candidate activated.
THEOREM NobodyStudiesUnpaid == Spec => []ActiveOnlyIfPaid
  <1>1. Inv => ActiveOnlyIfPaid
    BY DEF Inv, Safe
  <1> QED BY <1>1, Invariance, PTL

\* Candidate numbers are issued with the first confirmed payment, each to one person.
THEOREM NumbersAreEarned == Spec => []NumberIffConfirmed
  <1>1. Inv => NumberIffConfirmed
    BY DEF Inv, Safe
  <1> QED BY <1>1, Invariance, PTL

\* Whoever had a programme fee confirmed has exactly one live ID card, bearing their
\* number; nobody else has one.
THEOREM CardsAreUnique == Spec => []OneLiveCard
  <1>1. Inv => OneLiveCard
    BY DEF Inv, Safe
  <1> QED BY <1>1, Invariance, PTL

-----------------------------------------------------------------------------
(***************************************************************************)
(* Two properties that relate a state to an earlier one: a number once     *)
(* issued stays, and whoever studies in an intake has a schedule.          *)
(***************************************************************************)

-----------------------------------------------------------------------------
(* Numbers.                                                                *)

\* A step leaves every number alone, or issues the number of one candidate.
LEMMA NumberStep ==
  ASSUME [Next]_vars
  PROVE  number' = number \/ \E c : number' = [number EXCEPT ![c] = NumberOf(c)]
  <1> USE DEF people, rows, provider, history
  <1>1. CASE \E c \in Candidate : Register(c)
    BY <1>1 DEF Register
  <1>2. CASE \/ \E p \in Payment : CheckoutPaid(p)
             \/ \E e \in Enrolment : MarkEnrolmentRefunded(e)
             \/ \E e \in Enrolment, i \in Intake : TransferIntake(e, i)
             \/ \E w \in Worker : RequestDies(w)
    BY <1>2 DEF CheckoutPaid, MarkEnrolmentRefunded, TransferIntake, RequestDies
  <1>3. CASE \E w \in Worker : Arrive(w)
    BY <1>3 DEF Arrive, CreatePaymentAndEnrolment, FindAbandoned, InitiateGuestCheckout,
                RegisterForExam, ReceiveNotice, MarkPaymentFailed, ConfirmPaymentManually,
                FinishLectures, FindForReset, FindCardToReissue
  <1>4. CASE \E w \in Worker : Proceed(w)
    <2>1. PICK w \in Worker : Proceed(w)
      BY <1>4
    <2>2. CASE ConfirmCommit(w)
      BY <2>2 DEF ConfirmCommit, NumberAndCard, AssignNumber
    <2>3. CASE ConfirmGuest(w)
      BY <2>3 DEF ConfirmGuest, NumberAndCard, AssignNumber
    <2>4. CASE ConfirmExamFee(w)
      BY <2>4 DEF ConfirmExamFee, AssignNumber
    <2>5. CASE ~ConfirmCommit(w) /\ ~ConfirmGuest(w) /\ ~ConfirmExamFee(w)
      BY <2>1, <2>5 DEF Proceed, CreateRetryPayment, OpenCheckout, LoseAnswer, WriteFailed,
              RecordOfflinePayment, RecordPartPayment, ConfirmAgain, ConfirmLock, ConfirmPlace,
              ConfirmRefused, ConfirmGuestRefused, CompleteProgramme, ResetProgress,
              ReissueIdCard
    <2> QED BY <2>2, <2>3, <2>5, <2>4
  <1>5. CASE UNCHANGED vars
    BY <1>5 DEF vars
  <1> QED BY <1>1, <1>2, <1>3, <1>4, <1>5 DEF Next

\* A candidate keeps the number the first confirmed payment gave them, for every
\* number of programmes paid for and confirmations run again (step 3 of
\* confirmPayment).
THEOREM NumbersAreKept == Spec => NumberIsForLife
  <1>1. TypeOK /\ [Next]_vars =>
          [\A c \in Candidate : number[c] # 0 => number'[c] = number[c]]_vars
    <2> SUFFICES ASSUME TypeOK, [Next]_vars, NEW c \in Candidate, number[c] # 0
                 PROVE  number'[c] = number[c]
      OBVIOUS
    <2>1. CASE number' = number
      BY <2>1
    <2>2. CASE \E d : number' = [number EXCEPT ![d] = NumberOf(d)]
      BY <2>2 DEF NumberOf, TypeOK
    <2> QED BY <2>1, <2>2, NumberStep
  <1> QED BY <1>1, TypeCorrect, PTL DEF Spec, NumberIsForLife

-----------------------------------------------------------------------------
(* Schedules.  A row that has an intake and a schedule never loses the     *)
(* schedule, and a row that is let in gets one; but a job writes a status  *)
(* it read earlier, so what it read has to be part of the invariant.       *)

HasSchedule(row) == row.intake # 0 => row.schedules > 0

WritesStatus == {"placing", "placed", "complete"}

\* What a confirmation or a completion under way saw studying has a schedule.
SeenScheduled(j) ==
  j.pc \in WritesStatus /\ j.status \in {"ACTIVE", "COMPLETED"}
    => HasSchedule(enrolment[j.enr])

Dated == ScheduledIfDated /\ \A w \in Worker : SeenScheduled(job[w])

\* A row may replace another: it keeps its schedule, and has one if it is let in.
Keeps(old, row) ==
  /\ HasSchedule(old) => HasSchedule(row)
  /\ row.status \in {"ACTIVE", "COMPLETED"} => HasSchedule(row)

OneRowChanges ==
  \/ enrolment' = enrolment
  \/ \E e \in Enrolment, row \in EnrolmentRow :
       enrolment' = [enrolment EXCEPT ![e] = row] /\ Keeps(enrolment[e], row)

\* The job a step moves on is not about to write a status, or has just read it, or
\* read it before.
JobsRead ==
  \A w \in Worker :
    \/ job'[w] = job[w]
    \/ /\ job[w].pc \in WritesStatus
       /\ job'[w].enr = job[w].enr /\ job'[w].status = job[w].status
    \/ job'[w].pc \notin WritesStatus
    \/ /\ enrolment' = enrolment
       /\ job'[w].enr \in Enrolment
       /\ job'[w].status = enrolment[job'[w].enr].status

\* Such steps keep the invariant.
LEMMA DatedStep ==
  ASSUME TypeOK, TypeOK', Dated, OneRowChanges, JobsRead
  PROVE  Dated'
  <1>1. \A e \in Enrolment : HasSchedule(enrolment[e]) => HasSchedule(enrolment'[e])
    BY DEF OneRowChanges, Keeps, TypeOK
  <1>2. ScheduledIfDated'
    <2>1. \A e \in Enrolment : enrolment'[e].status \in {"ACTIVE", "COMPLETED"} =>
            HasSchedule(enrolment'[e])
      BY DEF OneRowChanges, Keeps, TypeOK, Dated, ScheduledIfDated, HasSchedule
    <2> QED BY <2>1 DEF ScheduledIfDated, HasSchedule
  <1>3. ASSUME NEW w \in Worker PROVE SeenScheduled(job[w])'
    <2>1. CASE \/ job'[w] = job[w]
               \/ /\ job[w].pc \in WritesStatus
                  /\ job'[w].enr = job[w].enr /\ job'[w].status = job[w].status
      <3>1. job[w].pc \in WritesStatus => job[w].enr \in Enrolment
        BY DEF TypeOK, JobRows, EnrolmentPc, Confirming, WritesStatus
      <3> QED BY <1>1, <2>1, <3>1 DEF Dated, SeenScheduled, WritesStatus
    <2>2. CASE job'[w].pc \notin WritesStatus
      BY <2>2 DEF SeenScheduled
    <2>3. CASE /\ enrolment' = enrolment
               /\ job'[w].enr \in Enrolment
               /\ job'[w].status = enrolment[job'[w].enr].status
      BY <1>2, <2>3 DEF SeenScheduled, ScheduledIfDated, HasSchedule
    <2> QED BY <2>1, <2>2, <2>3 DEF JobsRead
  <1> QED BY <1>2, <1>3 DEF Dated

\* Every step but those of confirmation, completion and reset, one at a time.
LEMMA QuietSteps ==
  ASSUME Inv, Dated, NEW w \in Worker,
         \/ \E c \in Candidate : Register(c)
         \/ \E p \in Payment : CheckoutPaid(p)
         \/ RequestDies(w)
         \/ CreateRetryPayment(w) \/ OpenCheckout(w) \/ LoseAnswer(w) \/ WriteFailed(w)
         \/ \E full \in BOOLEAN : RecordOfflinePayment(w, full)
         \/ RecordPartPayment(w) \/ ReissueIdCard(w)
         \/ ConfirmAgain(w) \/ ConfirmRefused(w) \/ ConfirmGuestRefused(w)
         \/ ConfirmExamFee(w)
  PROVE  OneRowChanges /\ JobsRead
  <1> USE DEF rows, people, provider, history
  <1>1. OneRowChanges
    BY DEF OneRowChanges, Register, CheckoutPaid, RequestDies, CreateRetryPayment,
           OpenCheckout, LoseAnswer,
           WriteFailed, RecordOfflinePayment, RecordPartPayment, ReissueIdCard,
           ConfirmAgain, ConfirmRefused, ConfirmGuestRefused, ConfirmExamFee
  <1>2. CASE \E full \in BOOLEAN : RecordOfflinePayment(w, full)
    <2>1. PICK full \in BOOLEAN : job' = [job EXCEPT ![w] = Recording(job[w].pay, full)]
      BY <1>2 DEF RecordOfflinePayment
    <2>2. Recording(job[w].pay, full).pc \notin WritesStatus
      BY DEF Recording, Idle, WritesStatus
    <2> QED BY <1>1, <2>1, <2>2 DEF JobsRead, Inv, TypeOK
  <1>3. CASE CreateRetryPayment(w)
    <2>1. PICK p \in Payment : job' = [job EXCEPT ![w] = AfterCreate(p, job[w].staff)]
      BY <1>3 DEF CreateRetryPayment
    <2>2. AfterCreate(p, job[w].staff).pc \notin WritesStatus
      BY DEF AfterCreate, Idle, WritesStatus
    <2> QED BY <1>1, <2>1, <2>2 DEF JobsRead, Inv, TypeOK
  <1>4. CASE (\E c \in Candidate : Register(c)) \/ \E p \in Payment : CheckoutPaid(p)
    BY <1>1, <1>4 DEF Register, CheckoutPaid, JobsRead
  <1>5. CASE job' = [job EXCEPT ![w] = Idle]
    BY <1>1, <1>5 DEF Idle, WritesStatus, JobsRead, Inv, TypeOK
  <1>6. CASE LoseAnswer(w)
    BY <1>1, <1>6 DEF LoseAnswer, WritesStatus, JobsRead, Inv, TypeOK, Job
  <1> QED BY <1>1, <1>2, <1>3, <1>4, <1>5, <1>6 DEF RequestDies, OpenCheckout,
             WriteFailed, RecordPartPayment, ReissueIdCard, ConfirmAgain,
             ConfirmRefused, ConfirmGuestRefused, ConfirmExamFee

\* The requests that arrive: all read, or create a row that has no intake yet.
LEMMA ArriveSteps ==
  ASSUME Inv, Dated, NEW w \in Worker, Arrive(w)
  PROVE  OneRowChanges /\ JobsRead
  <1> USE DEF rows, people, provider, history
  <1>1. ASSUME NEW c \in Candidate, NEW g \in Programme, NEW staff \in BOOLEAN,
               CreatePaymentAndEnrolment(w, c, g, staff)
        PROVE  OneRowChanges /\ JobsRead
    <2>1. PICK e \in Enrolment : enrolment' = [enrolment EXCEPT ![e] = FreshEnrolment(c, g)]
      BY <1>1 DEF CreatePaymentAndEnrolment
    <2>2. FreshEnrolment(c, g) \in EnrolmentRow
      BY FreshTypes
    <2>3. Keeps(enrolment[e], FreshEnrolment(c, g))
      BY DEF Keeps, HasSchedule, FreshEnrolment, NoEnrolment
    <2>4. JobsRead
      BY <1>1 DEF CreatePaymentAndEnrolment, AfterCreate, Idle, WritesStatus, JobsRead,
                  Inv, TypeOK
    <2> QED BY <2>1, <2>2, <2>3, <2>4 DEF OneRowChanges
  <1>2. CASE \E c \in Candidate, g \in Programme, staff \in BOOLEAN : FindAbandoned(w, c, g, staff)
    BY <1>2 DEF FindAbandoned, Idle, WritesStatus, OneRowChanges, JobsRead, Inv, TypeOK
  <1>3. CASE \E c \in Candidate, g \in Programme : InitiateGuestCheckout(w, c, g)
    BY <1>3 DEF InitiateGuestCheckout, AfterCreate, Idle, WritesStatus, OneRowChanges,
                JobsRead, Inv, TypeOK
  <1>4. CASE \E c \in Candidate : RegisterForExam(w, c)
    BY <1>4 DEF RegisterForExam, Idle, WritesStatus, OneRowChanges, JobsRead, Inv,
                TypeOK
  <1>5. CASE \E n \in Notice : ReceiveNotice(w, n)
    BY <1>5 DEF ReceiveNotice, Noticed, Idle, WritesStatus, OneRowChanges, JobsRead, Inv,
                TypeOK
  <1>6. CASE \E p \in Payment : MarkPaymentFailed(w, p)
    BY <1>6 DEF MarkPaymentFailed, Idle, WritesStatus, OneRowChanges, JobsRead, Inv,
                TypeOK
  <1>7. CASE \E p \in Payment, full \in BOOLEAN : ConfirmPaymentManually(w, p, full)
    BY <1>7 DEF ConfirmPaymentManually, Recording, Idle, WritesStatus, OneRowChanges,
                JobsRead, Inv, TypeOK
  <1>8. CASE \E e \in Enrolment : FinishLectures(w, e)
    BY <1>8 DEF FinishLectures, Idle, WritesStatus, OneRowChanges, JobsRead, Inv, TypeOK
  <1>9. CASE \E e \in Enrolment : FindForReset(w, e)
    BY <1>9 DEF FindForReset, Idle, WritesStatus, OneRowChanges, JobsRead, Inv, TypeOK
  <1>10. CASE \E k \in IdCard : FindCardToReissue(w, k)
    BY <1>10 DEF FindCardToReissue, Idle, WritesStatus, OneRowChanges, JobsRead, Inv,
                TypeOK
  <1> QED BY <1>1, <1>2, <1>4, <1>3, <1>5, <1>6, <1>7, <1>8, <1>9, <1>10 DEF Arrive

\* The confirmation reads under its locks what it will write; a completion reads
\* the status it will derive its own from.
LEMMA ConfirmLockSteps ==
  ASSUME Inv, NEW w \in Worker, ConfirmLock(w)
  PROVE  OneRowChanges /\ JobsRead
  <1>1. enrolment' = enrolment
    BY DEF ConfirmLock, rows
  <1>2. PICK e \in Enrolment : e = payment[job[w].pay].enrolment
    BY CandidateAssumption
       DEF ConfirmLock, Inv, TypeOK, JobRows, PaymentPc, Confirming, PaymentRow, Tied, RowsTied
  <1>3. job' = [job EXCEPT ![w] = [job[w] EXCEPT !.pc = "placing", !.enr = e,
                                     !.status = enrolment[e].status,
                                     !.intake = enrolment[e].intake,
                                     !.cohort = enrolment[e].cohort]]
    BY <1>2 DEF ConfirmLock
  <1>4. job[w] \in Job
    BY DEF Inv, TypeOK
  <1>5. job'[w].enr = e /\ job'[w].status = enrolment[e].status
    BY <1>3, <1>4 DEF Job, Inv, TypeOK
  <1>6. \A v \in Worker : v # w => job'[v] = job[v]
    BY <1>3 DEF Inv, TypeOK
  <1> QED BY <1>1, <1>2, <1>5, <1>6 DEF OneRowChanges, JobsRead

\* Counting the places leaves what was read as it was.
LEMMA ConfirmPlaceSteps ==
  ASSUME Inv, NEW w \in Worker, ConfirmPlace(w)
  PROVE  OneRowChanges /\ JobsRead
  <1>1. enrolment' = enrolment /\ job[w].pc = "placing"
    BY DEF ConfirmPlace, rows
  <1>2. PICK room, h : job' = [job EXCEPT ![w] = Placed(job[w], room, h)]
    BY DEF ConfirmPlace
  <1>3. job'[w].enr = job[w].enr /\ job'[w].status = job[w].status
    BY <1>2 DEF Placed, Job, Inv, TypeOK
  <1>4. \A v \in Worker : v # w => job'[v] = job[v]
    BY <1>2 DEF Inv, TypeOK
  <1> QED BY <1>1, <1>3, <1>4 DEF OneRowChanges, JobsRead, WritesStatus

\* An activation schedules the row, unless what it read was ACTIVE, and scheduled.
LEMMA ConfirmCommitSteps ==
  ASSUME Inv, Dated, NEW w \in Worker, ConfirmCommit(w)
  PROVE  OneRowChanges /\ JobsRead
  <1>1. job[w].pc = "placed" /\ job' = [job EXCEPT ![w] = Idle]
    BY DEF ConfirmCommit
  <1>2. PICK e \in Enrolment : e = job[w].enr
    BY <1>1 DEF Inv, TypeOK, JobRows, EnrolmentPc, Confirming
  <1> DEFINE row == Activated(enrolment[e], job[w])
  <1>3. enrolment' = [enrolment EXCEPT ![e] = row]
    BY <1>2 DEF ConfirmCommit
  <1>4. enrolment[e] \in EnrolmentRow /\ job[w] \in Job
    BY DEF Inv, TypeOK
  <1>5. row \in EnrolmentRow
    BY <1>4, ActivatedType
  <1>6. row.intake = enrolment[e].intake /\ row.schedules = Scheduled(enrolment[e], job[w])
    BY <1>4 DEF Activated, EnrolmentRow
  <1>7. job[w].status = "ACTIVE" => HasSchedule(enrolment[e])
    BY <1>1, <1>2 DEF Dated, SeenScheduled, WritesStatus
  <1>8. HasSchedule(row)
    BY <1>4, <1>6, <1>7 DEF HasSchedule, Scheduled, EnrolmentRow
  <1>9. JobsRead
    BY <1>1 DEF JobsRead, WritesStatus, Idle, Inv, TypeOK
  <1> HIDE DEF row
  <1> QED BY <1>3, <1>5, <1>8, <1>9 DEF OneRowChanges, Keeps

\* The guest's enrolment is created without an intake.
LEMMA ConfirmGuestSteps ==
  ASSUME Inv, NEW w \in Worker, ConfirmGuest(w)
  PROVE  OneRowChanges /\ JobsRead
  <1>1. job' = [job EXCEPT ![w] = Idle]
    BY DEF ConfirmGuest
  <1>2. JobsRead
    BY <1>1 DEF JobsRead, WritesStatus, Idle, Inv, TypeOK
  <1>3. PICK c, g : c = payment[job[w].pay].guest /\ g = payment[job[w].pay].programme
    OBVIOUS
  <1>4. PICK e \in Enrolment :
          enrolment' = [enrolment EXCEPT ![e] =
            [NoEnrolment EXCEPT !.status = "ACTIVE", !.candidate = c, !.programme = g]]
    BY <1>3 DEF ConfirmGuest
  <1>5. c \in Candidate \cup {Null} /\ g \in Programme \cup {Null}
    BY <1>3 DEF ConfirmGuest, Inv, TypeOK, JobRows, PaymentPc, Confirming, PaymentRow
  <1> DEFINE row == [NoEnrolment EXCEPT !.status = "ACTIVE", !.candidate = c,
                                        !.programme = g]
  <1>6. row \in EnrolmentRow
    BY <1>5 DEF NoEnrolment, EnrolmentRow, EnrolmentStatus
  <1>7. HasSchedule(row)
    BY DEF HasSchedule, NoEnrolment
  <1> HIDE DEF row
  <1> QED BY <1>2, <1>4, <1>6, <1>7 DEF OneRowChanges, Keeps, row

\* A completion keeps the schedule of what it read studying.
LEMMA CompleteProgrammeSteps ==
  ASSUME Inv, Dated, NEW w \in Worker, CompleteProgramme(w)
  PROVE  OneRowChanges /\ JobsRead
  <1>1. job[w].pc = "complete" /\ job' = [job EXCEPT ![w] = Idle]
    BY DEF CompleteProgramme
  <1>2. JobsRead
    BY <1>1 DEF JobsRead, WritesStatus, Idle, Inv, TypeOK
  <1>3. PICK e \in Enrolment : e = job[w].enr
    BY <1>1 DEF Inv, TypeOK, JobRows, EnrolmentPc, Confirming
  <1>4. PICK s : s = CompletedStatus(job[w].status)
    OBVIOUS
  <1>5. s \in EnrolmentStatus
    BY <1>4 DEF CompletedStatus, EnrolmentStatus, Inv, TypeOK, Job
  <1> DEFINE row == [enrolment[e] EXCEPT !.completed = TRUE, !.status = s]
  <1>6. enrolment' = enrolment \/ enrolment' = [enrolment EXCEPT ![e] = row]
    BY <1>3, <1>4 DEF CompleteProgramme
  <1>7. /\ row \in EnrolmentRow /\ row.status = s
        /\ row.intake = enrolment[e].intake /\ row.schedules = enrolment[e].schedules
    BY <1>5 DEF Inv, TypeOK, EnrolmentRow
  <1>8. s \in {"ACTIVE", "COMPLETED"} => HasSchedule(enrolment[e])
    BY <1>1, <1>3, <1>4 DEF CompletedStatus, Dated, SeenScheduled, WritesStatus
  <1> HIDE DEF row
  <1> QED BY <1>2, <1>6, <1>7, <1>8 DEF OneRowChanges, Keeps, HasSchedule

\* A reset generates a schedule anew, a refund and a transfer leave it.
LEMMA ResetProgressSteps ==
  ASSUME Inv, NEW w \in Worker, ResetProgress(w)
  PROVE  OneRowChanges /\ JobsRead
  <1>1. job[w].pc = "reset" /\ job' = [job EXCEPT ![w] = Idle]
    BY DEF ResetProgress
  <1>2. JobsRead
    BY <1>1 DEF JobsRead, WritesStatus, Idle, Inv, TypeOK
  <1>3. PICK e \in Enrolment : e = job[w].enr
    BY <1>1 DEF Inv, TypeOK, JobRows, EnrolmentPc, Confirming
  <1> DEFINE row == ResetRow(enrolment[e], job[w].status)
  <1>4. enrolment' = enrolment \/ enrolment' = [enrolment EXCEPT ![e] = row]
    BY <1>3 DEF ResetProgress
  <1>5. row \in EnrolmentRow
    BY ResetRowType DEF Inv, TypeOK, Job
  <1>6. HasSchedule(row)
    BY DEF ResetRow, HasSchedule, Inv, TypeOK, EnrolmentRow
  <1> HIDE DEF row
  <1> QED BY <1>2, <1>4, <1>5, <1>6 DEF OneRowChanges, Keeps

LEMMA RefundSteps ==
  ASSUME Inv, NEW e \in Enrolment, MarkEnrolmentRefunded(e)
  PROVE  OneRowChanges /\ JobsRead
  <1> DEFINE row == [enrolment[e] EXCEPT !.status = "REFUNDED"]
  <1>1. enrolment' = [enrolment EXCEPT ![e] = row]
    BY DEF MarkEnrolmentRefunded
  <1>2. /\ row \in EnrolmentRow /\ row.status = "REFUNDED"
        /\ row.intake = enrolment[e].intake /\ row.schedules = enrolment[e].schedules
    BY DEF Inv, TypeOK, EnrolmentRow, EnrolmentStatus
  <1>3. JobsRead
    BY DEF JobsRead, MarkEnrolmentRefunded
  <1> HIDE DEF row
  <1> QED BY <1>1, <1>2, <1>3 DEF OneRowChanges, Keeps, HasSchedule

\* A transfer is refused without an intake to move from, hence a schedule is there.
LEMMA TransferSteps ==
  ASSUME Inv, Dated, NEW e \in Enrolment, NEW i \in Intake, TransferIntake(e, i)
  PROVE  OneRowChanges /\ JobsRead
  <1>1. PICK h \in Cohort :
          enrolment' = [enrolment EXCEPT ![e] =
                          [enrolment[e] EXCEPT !.intake = i, !.cohort = h]]
    <2>1. PICK h \in Oldest(Rooms(enrolment[e].programme, i)) :
            enrolment' = [enrolment EXCEPT ![e].intake = i, ![e].cohort = h]
      BY DEF TransferIntake
    <2>2. h \in Cohort
      BY DEF Oldest, Rooms
    <2> QED BY <2>1, <2>2 DEF Inv, TypeOK, EnrolmentRow
  <1> DEFINE row == [enrolment[e] EXCEPT !.intake = i, !.cohort = h]
  <1>2. /\ row \in EnrolmentRow /\ row.status = enrolment[e].status
        /\ row.schedules = enrolment[e].schedules /\ enrolment[e].intake # 0
    <2>1. enrolment[e] \in EnrolmentRow
      BY DEF Inv, TypeOK
    <2>2. enrolment[e].intake # 0
      BY DEF TransferIntake
    <2> QED BY <2>1, <2>2 DEF EnrolmentRow
  <1>3. row.status \in {"ACTIVE", "COMPLETED"} => enrolment[e].schedules > 0
    BY <1>2 DEF Dated, ScheduledIfDated
  <1>4. JobsRead
    BY DEF JobsRead, TransferIntake
  <1> HIDE DEF row
  <1> QED BY <1>1, <1>2, <1>3, <1>4 DEF OneRowChanges, Keeps, HasSchedule, row

\* Every step is one of these.
LEMMA DatedNext == Inv /\ Dated /\ [Next]_vars /\ Inv' => Dated'
  <1> SUFFICES ASSUME Inv, Dated, [Next]_vars, Inv' PROVE OneRowChanges /\ JobsRead
    BY DatedStep DEF Inv
  <1>1. CASE \E w \in Worker : Proceed(w)
    BY <1>1, QuietSteps, ConfirmLockSteps, ConfirmPlaceSteps, ConfirmCommitSteps,
       ConfirmGuestSteps, CompleteProgrammeSteps, ResetProgressSteps DEF Proceed
  <1>2. CASE \E w \in Worker : Arrive(w)
    BY <1>2, ArriveSteps
  <1>3. CASE \E w \in Worker : RequestDies(w)
    BY <1>3, QuietSteps
  <1>4. CASE (\E c \in Candidate : Register(c)) \/ \E p \in Payment : CheckoutPaid(p)
    BY <1>4 DEF Register, CheckoutPaid, rows, OneRowChanges, JobsRead
  <1>5. CASE \E e \in Enrolment : MarkEnrolmentRefunded(e)
    BY <1>5, RefundSteps
  <1>6. CASE \E e \in Enrolment, i \in Intake : TransferIntake(e, i)
    BY <1>6, TransferSteps
  <1>7. CASE UNCHANGED vars
    BY <1>7 DEF vars, rows, OneRowChanges, JobsRead
  <1> QED BY <1>1, <1>2, <1>3, <1>4, <1>5, <1>6, <1>7 DEF Next

\* Every enrolment that is studied in an intake has a schedule of deadlines, after
\* any number of resets, refunds, repeated confirmations and transfers (the schedule
\* step of confirmPayment, resetEnrolmentProgress).
THEOREM StudentsAreScheduled == Spec => []ScheduledIfDated
  <1>1. Init => Dated
    <2> SUFFICES ASSUME Init PROVE Dated
      OBVIOUS
    <2>1. \A w \in Worker : job[w].pc = "idle"
      BY DEF Init, Idle
    <2>2. ASSUME NEW e \in Enrolment
          PROVE  enrolment[e].status \in {"NONE", "PENDING_PAYMENT"}
      BY DEF Init, FreshEnrolment, NoEnrolment
    <2> QED BY <2>1, <2>2 DEF Dated, ScheduledIfDated, SeenScheduled, WritesStatus
  <1>2. Dated => ScheduledIfDated
    BY DEF Dated
  <1> QED BY <1>1, <1>2, DatedNext, Invariance, PTL DEF Spec

-----------------------------------------------------------------------------
(* Places.  The room a confirmation counted can only be taken by somebody  *)
(* who enters one of the cohorts it has locked: the invariant says which   *)
(* cohort that is, that nobody else holds its lock, and that it has room.  *)

HasRoom(w) == job[w].pc = "placed" /\ job[w].room

\* A seat that was found is in a cohort of the intake that was read and of the
\* programme of the row.
SeatFits ==
  \A w \in Worker : HasRoom(w) =>
    /\ job[w].cohort \in Cohort
    /\ CohortIntake[job[w].cohort] = job[w].intake
    /\ CohortProgramme[job[w].cohort] = enrolment[job[w].enr].programme

\* The cohorts of a programme and intake are locked by one confirmation.
OneHolder ==
  \A v, w \in Worker :
    /\ job[v].pc = "placed" /\ job[w].pc = "placed"
    /\ job[v].intake = job[w].intake /\ job[v].intake # 0
    /\ enrolment[job[v].enr].programme = enrolment[job[w].enr].programme
    => v = w

Roomy == SeatFits /\ OneHolder /\ CountedRoomStays

NobodyEnters(h) == \A e \in Enrolment : Occupies(e, h)' => Occupies(e, h)

\* What the other steps do: no confirmation counts, a row on record stays in its
\* programme, and nobody enters a cohort with a counted place unrecorded.
PlacesKept ==
  /\ \A e \in Enrolment : enrolment[e].status # "NONE" =>
       enrolment'[e].programme = enrolment[e].programme
  /\ \A v \in Worker : job'[v].pc = "placed" => job'[v] = job[v]
  /\ strayed \subseteq strayed'
  /\ \A v \in Worker, h \in Cohort :
       job'[v].pc = "placed" /\ HasRoom(v) /\ job[v].cohort = h =>
         h \in strayed' \/ NobodyEnters(h)

\* A cohort nobody enters does not get fuller.
LEMMA NobodyEntersFuller ==
  ASSUME NEW h \in Cohort, NobodyEnters(h)
  PROVE  Occupied(h)' <= Occupied(h) /\ Occupied(h) \in Nat /\ Occupied(h)' \in Nat
  <1> DEFINE S == {e \in Enrolment : Occupies(e, h)}
             T == {e \in Enrolment : Occupies(e, h)'}
  <1>1. IsFiniteSet(Enrolment)
    BY BoundAssumption, FS_Interval DEF Enrolment
  <1>2. IsFiniteSet(S) /\ Cardinality(S) \in Nat
    BY <1>1, FS_Subset, FS_CardinalityType
  <1>3. T \subseteq S
    BY DEF NobodyEnters
  <1>4. IsFiniteSet(T) /\ Cardinality(T) <= Cardinality(S) /\ Cardinality(T) \in Nat
    BY <1>2, <1>3, FS_Subset, FS_CardinalityType
  <1> QED BY <1>2, <1>4 DEF Occupied

\* A confirmation that holds its locks names a row on record.
LEMMA PlacedRow ==
  ASSUME Inv, NEW v \in Worker, job[v].pc = "placed"
  PROVE  job[v].enr \in Enrolment /\ enrolment[job[v].enr].status # "NONE"
  BY DEF Inv, TypeOK, JobRows, Tied, JobsTied, JobTied, EnrolmentPc, Confirming

\* Such steps keep the places.
LEMMA PlacesStep ==
  ASSUME Inv, Roomy, PlacesKept
  PROVE  Roomy'
  <1>1. ASSUME NEW v \in Worker, job'[v].pc = "placed"
        PROVE  /\ job'[v] = job[v]
               /\ enrolment'[job[v].enr].programme = enrolment[job[v].enr].programme
    BY <1>1, PlacedRow DEF PlacesKept
  <1>2. SeatFits'
    BY <1>1 DEF Roomy, SeatFits, HasRoom
  <1>3. OneHolder'
    BY <1>1 DEF Roomy, OneHolder
  <1>4. ASSUME NEW v \in Worker, job'[v].pc = "placed", job'[v].room
        PROVE  (Occupied(job[v].cohort) < CohortCapacity[job[v].cohort] \/ job[v].cohort \in strayed)'
    <2>1. HasRoom(v) /\ job'[v] = job[v]
      BY <1>1, <1>4 DEF HasRoom
    <2>2. PICK h \in Cohort : h = job[v].cohort
      BY <2>1 DEF Roomy, SeatFits
    <2>3. h \in strayed' \/ NobodyEnters(h)
      BY <1>4, <2>1, <2>2 DEF PlacesKept
    <2>4. Occupied(h) < CohortCapacity[h] \/ h \in strayed
      BY <2>1, <2>2 DEF Roomy, CountedRoomStays, HasRoom
    <2>5. CohortCapacity[h] \in Nat
      BY CohortAssumption
    <2>6. Occupied(h)' < CohortCapacity[h] \/ h \in strayed'
      BY <2>3, <2>4, <2>5, NobodyEntersFuller DEF PlacesKept
    <2> QED BY <2>1, <2>2, <2>6 DEF Occupied, Occupies
  <1>5. CountedRoomStays'
    BY <1>4 DEF CountedRoomStays
  <1> QED BY <1>2, <1>3, <1>5 DEF Roomy

\* A job moves on to something else than holding a place.
LeavesPlaces ==
  \/ job' = job
  \/ \E w \in Worker : job'[w].pc # "placed" /\ \A v \in Worker \ {w} : job'[v] = job[v]

\* A step that leaves the enrolments alone.
LEMMA RowsUntouched ==
  ASSUME enrolment' = enrolment, strayed' = strayed, LeavesPlaces
  PROVE  PlacesKept
  BY DEF PlacesKept, LeavesPlaces, NobodyEnters, Occupies

\* A step that writes one enrolment: it matters when the row enters a cohort.
LEMMA RowWritten ==
  ASSUME Inv, LeavesPlaces, strayed \subseteq strayed',
         NEW e \in Enrolment, NEW row, enrolment' = [enrolment EXCEPT ![e] = row],
         enrolment[e].status = "NONE" \/ row.programme = enrolment[e].programme,
         \A v \in Worker, h \in Cohort :
           /\ job'[v].pc = "placed" /\ HasRoom(v) /\ job[v].cohort = h
           /\ row.cohort = h /\ row.status \in {"ACTIVE", "COMPLETED"}
           => h \in strayed' \/ Occupies(e, h)
  PROVE  PlacesKept
  <1>1. enrolment'[e] = row /\ \A f \in Enrolment : f # e => enrolment'[f] = enrolment[f]
    BY DEF Inv, TypeOK
  <1>2. ASSUME NEW h \in Cohort, ~NobodyEnters(h)
        PROVE  row.cohort = h /\ row.status \in {"ACTIVE", "COMPLETED"} /\ ~Occupies(e, h)
    BY <1>1, <1>2 DEF NobodyEnters, Occupies
  <1>3. \A f \in Enrolment : enrolment[f].status # "NONE" =>
          enrolment'[f].programme = enrolment[f].programme
    BY <1>1
  <1>4. \A v \in Worker : job'[v].pc = "placed" => job'[v] = job[v]
    BY DEF LeavesPlaces
  <1> QED BY <1>2, <1>3, <1>4 DEF PlacesKept

\* A job that goes on with something of its own leaves every other one alone.
LEMMA JobLeaves ==
  ASSUME TypeOK, NEW w \in Worker, NEW j, job' = [job EXCEPT ![w] = j], j.pc # "placed"
  PROVE  LeavesPlaces
  BY DEF TypeOK, LeavesPlaces

LEMMA IdleLeaves ==
  ASSUME TypeOK, NEW w \in Worker, job' = [job EXCEPT ![w] = Idle]
  PROVE  LeavesPlaces
  <1>1. Idle.pc # "placed"
    BY DEF Idle
  <1> QED BY <1>1, JobLeaves

\* The steps that leave the enrolments alone.
LEMMA QuietPlaces ==
  ASSUME Inv, NEW w \in Worker,
         \/ \E c \in Candidate : Register(c)
         \/ \E p \in Payment : CheckoutPaid(p)
         \/ RequestDies(w)
         \/ CreateRetryPayment(w) \/ OpenCheckout(w) \/ LoseAnswer(w) \/ WriteFailed(w)
         \/ \E full \in BOOLEAN : RecordOfflinePayment(w, full)
         \/ RecordPartPayment(w) \/ ReissueIdCard(w) \/ ConfirmLock(w)
         \/ ConfirmAgain(w) \/ ConfirmRefused(w) \/ ConfirmGuestRefused(w)
         \/ ConfirmExamFee(w)
  PROVE  PlacesKept
  <1> USE DEF rows, history
  <1>1. enrolment' = enrolment /\ strayed' = strayed
    BY DEF Register, CheckoutPaid, RequestDies, CreateRetryPayment, OpenCheckout,
           LoseAnswer, WriteFailed, RecordOfflinePayment, RecordPartPayment, ReissueIdCard, ConfirmLock,
           ConfirmAgain, ConfirmRefused, ConfirmGuestRefused, ConfirmExamFee
  <1>2. CASE \E full \in BOOLEAN : RecordOfflinePayment(w, full)
    <2>1. PICK full \in BOOLEAN : job' = [job EXCEPT ![w] = Recording(job[w].pay, full)]
      BY <1>2 DEF RecordOfflinePayment
    <2>2. Recording(job[w].pay, full).pc # "placed"
      BY DEF Recording, Idle
    <2> QED BY <1>1, <2>1, <2>2, JobLeaves, RowsUntouched DEF Inv
  <1>3. CASE CreateRetryPayment(w)
    <2>1. PICK p \in Payment : job' = [job EXCEPT ![w] = AfterCreate(p, job[w].staff)]
      BY <1>3 DEF CreateRetryPayment
    <2>2. AfterCreate(p, job[w].staff).pc # "placed"
      BY DEF AfterCreate, Idle
    <2> QED BY <1>1, <2>1, <2>2, JobLeaves, RowsUntouched DEF Inv
  <1>4. CASE (\E c \in Candidate : Register(c)) \/ \E p \in Payment : CheckoutPaid(p)
    BY <1>1, <1>4, RowsUntouched DEF Register, CheckoutPaid, LeavesPlaces
  <1>5. CASE job' = [job EXCEPT ![w] = Idle]
    BY <1>1, <1>5, IdleLeaves, RowsUntouched DEF Inv
  <1>6. CASE ConfirmLock(w)
    <2>1. job'[w].pc = "placing" /\ \A v \in Worker \ {w} : job'[v] = job[v]
      BY <1>6 DEF ConfirmLock, Inv, TypeOK, Job
    <2> QED BY <1>1, <2>1, RowsUntouched DEF LeavesPlaces
  <1>7. CASE LoseAnswer(w)
    <2>1. job'[w].pc = "fail" /\ \A v \in Worker \ {w} : job'[v] = job[v]
      BY <1>7 DEF LoseAnswer, Inv, TypeOK, Job
    <2> QED BY <1>1, <2>1, RowsUntouched DEF LeavesPlaces
  <1> QED BY <1>1, <1>2, <1>3, <1>4, <1>5, <1>6, <1>7 DEF RequestDies, OpenCheckout,
             WriteFailed, RecordPartPayment, ReissueIdCard, ConfirmAgain,
             ConfirmRefused, ConfirmGuestRefused, ConfirmExamFee

\* The requests that arrive read, or create a row nobody sits in yet.
LEMMA ArrivePlaces ==
  ASSUME Inv, NEW w \in Worker, Arrive(w)
  PROVE  PlacesKept
  <1> USE DEF rows, history
  <1>1. ASSUME NEW c \in Candidate, NEW g \in Programme, NEW staff \in BOOLEAN,
               CreatePaymentAndEnrolment(w, c, g, staff)
        PROVE  PlacesKept
    <2>1. PICK e \in Enrolment, p \in Payment :
            /\ enrolment[e].status = "NONE"
            /\ enrolment' = [enrolment EXCEPT ![e] = FreshEnrolment(c, g)]
            /\ job' = [job EXCEPT ![w] = AfterCreate(p, staff)]
      BY <1>1 DEF CreatePaymentAndEnrolment, NextEnrolment
    <2>2. FreshEnrolment(c, g).status = "PENDING_PAYMENT"
      BY DEF FreshEnrolment, NoEnrolment
    <2>3. AfterCreate(p, staff).pc # "placed"
      BY DEF AfterCreate, Idle
    <2>4. LeavesPlaces
      BY <2>1, <2>3, JobLeaves DEF Inv
    <2>5. strayed' = strayed
      BY <1>1 DEF CreatePaymentAndEnrolment
    <2> QED BY <2>1, <2>2, <2>4, <2>5, RowWritten
  <1>2. CASE \E c \in Candidate, g \in Programme, staff \in BOOLEAN : FindAbandoned(w, c, g, staff)
    BY <1>2, RowsUntouched DEF FindAbandoned, Idle, LeavesPlaces, Inv, TypeOK
  <1>3. CASE \E c \in Candidate, g \in Programme : InitiateGuestCheckout(w, c, g)
    BY <1>3, RowsUntouched DEF InitiateGuestCheckout, AfterCreate, Idle, LeavesPlaces, Inv, TypeOK
  <1>4. CASE \E c \in Candidate : RegisterForExam(w, c)
    BY <1>4, RowsUntouched DEF RegisterForExam, Idle, LeavesPlaces, Inv, TypeOK
  <1>5. CASE \E n \in Notice : ReceiveNotice(w, n)
    BY <1>5, RowsUntouched DEF ReceiveNotice, Noticed, Idle, LeavesPlaces, Inv, TypeOK
  <1>6. CASE \E p \in Payment : MarkPaymentFailed(w, p)
    BY <1>6, RowsUntouched DEF MarkPaymentFailed, Idle, LeavesPlaces, Inv, TypeOK
  <1>7. CASE \E p \in Payment, full \in BOOLEAN : ConfirmPaymentManually(w, p, full)
    BY <1>7, RowsUntouched DEF ConfirmPaymentManually, Recording, Idle, LeavesPlaces, Inv, TypeOK
  <1>8. CASE \E e \in Enrolment : FinishLectures(w, e)
    BY <1>8, RowsUntouched DEF FinishLectures, Idle, LeavesPlaces, Inv, TypeOK
  <1>9. CASE \E e \in Enrolment : FindForReset(w, e)
    BY <1>9, RowsUntouched DEF FindForReset, Idle, LeavesPlaces, Inv, TypeOK
  <1>10. CASE \E k \in IdCard : FindCardToReissue(w, k)
    BY <1>10, RowsUntouched DEF FindCardToReissue, Idle, LeavesPlaces, Inv, TypeOK
  <1> QED BY <1>1, <1>2, <1>3, <1>4, <1>5, <1>6, <1>7, <1>8, <1>9, <1>10 DEF Arrive

\* A confirmation counts under the locks it has just taken: nobody else held them,
\* and whoever counted elsewhere keeps the record of who strayed there.
LEMMA ConfirmPlaceRoomy ==
  ASSUME Inv, Roomy, NEW w \in Worker, ConfirmPlace(w)
  PROVE  Roomy'
  <1>1. PICK e \in Enrolment : e = job[w].enr
    BY DEF ConfirmPlace, Inv, TypeOK, JobRows, EnrolmentPc, Confirming
  <1>2. PICK i \in {0} \cup Intake : i = job[w].intake
    BY DEF Inv, TypeOK, Job
  <1> DEFINE g == enrolment[e].programme
  <1>3. enrolment' = enrolment /\ job[w].pc = "placing" /\ ~CohortsLocked(g, i)
    BY <1>1, <1>2 DEF ConfirmPlace, rows
  <1>4. strayed' = {h \in strayed : CohortProgramme[h] # g \/ CohortIntake[h] # i}
    BY <1>1, <1>2 DEF ConfirmPlace, Counted
  <1>5. PICK room, h :
          /\ room = (Rooms(g, i) # {})
          /\ h \in Seats(enrolment[e], job[w])
          /\ job' = [job EXCEPT ![w] = Placed(job[w], room, h)]
    BY <1>1, <1>2 DEF ConfirmPlace
  <1>6. /\ job'[w].pc = "placed" /\ job'[w].room = room /\ job'[w].cohort = h
        /\ job'[w].intake = i /\ job'[w].enr = e
        /\ \A v \in Worker : v # w => job'[v] = job[v]
    BY <1>1, <1>2, <1>5 DEF Placed, Inv, TypeOK, Job
  <1>7. room => h \in Rooms(g, i)
    BY <1>2, <1>5 DEF Seats, Oldest
  <1>8. ASSUME NEW v \in Worker, v # w, job[v].pc = "placed"
        PROVE  i # 0 => job[v].intake # i \/ enrolment[job[v].enr].programme # g
    BY <1>3, <1>8 DEF CohortsLocked
  <1>9. SeatFits'
    <2>1. ASSUME NEW v \in Worker, HasRoom(v)'
          PROVE  (/\ job[v].cohort \in Cohort
                  /\ CohortIntake[job[v].cohort] = job[v].intake
                  /\ CohortProgramme[job[v].cohort] = enrolment[job[v].enr].programme)'
      <3>1. CASE v = w
        BY <1>3, <1>6, <1>7, <2>1, <3>1 DEF HasRoom, Rooms
      <3>2. CASE v # w
        BY <1>3, <1>6, <2>1, <3>2 DEF HasRoom, Roomy, SeatFits
      <3> QED BY <3>1, <3>2
    <2> QED BY <2>1 DEF SeatFits
  <1>10. OneHolder'
    BY <1>3, <1>6, <1>8 DEF Roomy, OneHolder
  <1>11. CountedRoomStays'
    <2>1. ASSUME NEW v \in Worker, job'[v].pc = "placed", job'[v].room
          PROVE  (Occupied(job[v].cohort) < CohortCapacity[job[v].cohort] \/ job[v].cohort \in strayed)'
      <3>1. CASE v = w
        BY <1>3, <1>6, <1>7, <2>1, <3>1 DEF Rooms, Occupied, Occupies
      <3>2. CASE v # w
        <4>1. job'[v] = job[v] /\ HasRoom(v)
          BY <1>6, <2>1, <3>2 DEF HasRoom
        <4>2. PICK k \in Cohort : k = job[v].cohort
          BY <4>1 DEF Roomy, SeatFits
        <4>3. Occupied(k) < CohortCapacity[k] \/ k \in strayed
          BY <4>1, <4>2 DEF Roomy, CountedRoomStays, HasRoom
        <4>4. /\ CohortIntake[k] = job[v].intake /\ CohortIntake[k] # 0
              /\ CohortProgramme[k] = enrolment[job[v].enr].programme
          BY <4>1, <4>2, CohortAssumption DEF Roomy, SeatFits
        <4>5. CohortProgramme[k] # g \/ CohortIntake[k] # i
          BY <1>8, <3>2, <4>1, <4>4 DEF HasRoom
        <4>6. Occupied(k) < CohortCapacity[k] \/ k \in strayed'
          BY <1>4, <4>3, <4>5
        <4> QED BY <1>3, <4>1, <4>2, <4>6 DEF Occupied, Occupies
      <3> QED BY <3>1, <3>2
    <2> QED BY <2>1 DEF CountedRoomStays
  <1> QED BY <1>9, <1>10, <1>11 DEF Roomy

\* A write of an enrolment records whom it lets in where its request holds no lock.
LEMMA LetInRecorded ==
  ASSUME Inv, Roomy, NEW w \in Worker, strayed' = strayed \cup LetIn(w),
         NEW e \in Enrolment, NEW row, enrolment' = [enrolment EXCEPT ![e] = row],
         row.programme = enrolment[e].programme,
         job' = [job EXCEPT ![w] = Idle]
  PROVE  PlacesKept
  <1>1. LeavesPlaces
    BY IdleLeaves DEF Inv
  <1>2. job'[w].pc # "placed"
    BY DEF Inv, TypeOK, Idle
  <1>3. ASSUME NEW v \in Worker, NEW h \in Cohort,
               job'[v].pc = "placed", HasRoom(v), job[v].cohort = h,
               row.cohort = h, row.status \in {"ACTIVE", "COMPLETED"}, ~Occupies(e, h)
        PROVE  h \in strayed'
    <2>1. Occupies(e, h)'
      BY <1>3 DEF Occupies, Inv, TypeOK
    <2>2. ~HoldsCohort(w, h)
      <3>1. /\ job[v].intake = CohortIntake[h] /\ CohortIntake[h] # 0
            /\ enrolment[job[v].enr].programme = CohortProgramme[h]
        BY <1>3, CohortAssumption DEF Roomy, SeatFits
      <3> QED BY <1>2, <1>3, <3>1 DEF HoldsCohort, HasRoom, Roomy, OneHolder
    <2> QED BY <1>3, <2>1, <2>2 DEF LetIn
  <1> QED BY <1>1, <1>3, RowWritten

\* The activation, the completion and the reset are such writes.
LEMMA ConfirmCommitPlaces ==
  ASSUME Inv, Roomy, NEW w \in Worker, ConfirmCommit(w)
  PROVE  PlacesKept
  <1>1. PICK e \in Enrolment : e = job[w].enr
    BY DEF ConfirmCommit, Inv, TypeOK, JobRows, EnrolmentPc, Confirming
  <1> DEFINE row == Activated(enrolment[e], job[w])
  <1>2. /\ enrolment' = [enrolment EXCEPT ![e] = row]
        /\ strayed' = strayed \cup LetIn(w) /\ job' = [job EXCEPT ![w] = Idle]
    BY <1>1 DEF ConfirmCommit
  <1>3. row.programme = enrolment[e].programme
    BY DEF Activated, Inv, TypeOK, EnrolmentRow
  <1> HIDE DEF row
  <1> QED BY <1>2, <1>3, LetInRecorded

LEMMA CompleteProgrammePlaces ==
  ASSUME Inv, Roomy, NEW w \in Worker, CompleteProgramme(w)
  PROVE  PlacesKept
  <1>1. PICK e \in Enrolment : e = job[w].enr
    BY DEF CompleteProgramme, Inv, TypeOK, JobRows, EnrolmentPc, Confirming
  <1> DEFINE row == [enrolment[e] EXCEPT !.completed = TRUE,
                                         !.status = CompletedStatus(job[w].status)]
  <1>2. /\ enrolment' = [enrolment EXCEPT ![e] = row]
           \/ enrolment' = [enrolment EXCEPT ![e] = enrolment[e]]
        /\ strayed' = strayed \cup LetIn(w) /\ job' = [job EXCEPT ![w] = Idle]
    BY <1>1 DEF CompleteProgramme, Inv, TypeOK
  <1>3. row.programme = enrolment[e].programme
    BY DEF Inv, TypeOK, EnrolmentRow
  <1> HIDE DEF row
  <1> QED BY <1>2, <1>3, LetInRecorded

LEMMA ResetProgressPlaces ==
  ASSUME Inv, Roomy, NEW w \in Worker, ResetProgress(w)
  PROVE  PlacesKept
  <1>1. PICK e \in Enrolment : e = job[w].enr
    BY DEF ResetProgress, Inv, TypeOK, JobRows, EnrolmentPc, Confirming
  <1> DEFINE row == ResetRow(enrolment[e], job[w].status)
  <1>2. /\ enrolment' = [enrolment EXCEPT ![e] = row]
           \/ enrolment' = [enrolment EXCEPT ![e] = enrolment[e]]
        /\ strayed' = strayed \cup LetIn(w) /\ job' = [job EXCEPT ![w] = Idle]
    BY <1>1 DEF ResetProgress, Inv, TypeOK
  <1>3. row.programme = enrolment[e].programme
    BY DEF ResetRow, Inv, TypeOK, EnrolmentRow
  <1> HIDE DEF row
  <1> QED BY <1>2, <1>3, LetInRecorded

\* A guest's enrolment opens without a cohort.
LEMMA ConfirmGuestPlaces ==
  ASSUME Inv, NEW w \in Worker, ConfirmGuest(w)
  PROVE  PlacesKept
  <1>1. PICK c, g : c = payment[job[w].pay].guest /\ g = payment[job[w].pay].programme
    OBVIOUS
  <1> DEFINE row == [NoEnrolment EXCEPT !.status = "ACTIVE", !.candidate = c,
                                        !.programme = g]
  <1>2. PICK e \in Enrolment : /\ enrolment[e].status = "NONE"
                               /\ enrolment' = [enrolment EXCEPT ![e] = row]
    BY <1>1 DEF ConfirmGuest, NextEnrolment
  <1>3. row.cohort = 0 /\ 0 \notin Cohort
    BY CohortAssumption DEF NoEnrolment
  <1>4. LeavesPlaces /\ strayed \subseteq strayed'
    BY IdleLeaves DEF ConfirmGuest, Inv
  <1> HIDE DEF row
  <1>5. \A v \in Worker, h \in Cohort :
          /\ job'[v].pc = "placed" /\ HasRoom(v) /\ job[v].cohort = h
          /\ row.cohort = h /\ row.status \in {"ACTIVE", "COMPLETED"}
          => h \in strayed' \/ Occupies(e, h)
    BY <1>3
  <1>6. enrolment[e].status = "NONE" \/ row.programme = enrolment[e].programme
    BY <1>2
  <1> QED BY <1>2, <1>4, <1>5, <1>6, RowWritten

\* A refund takes nobody in.
LEMMA RefundPlaces ==
  ASSUME Inv, NEW e \in Enrolment, MarkEnrolmentRefunded(e)
  PROVE  PlacesKept
  <1> DEFINE row == [enrolment[e] EXCEPT !.status = "REFUNDED"]
  <1>1. enrolment' = [enrolment EXCEPT ![e] = row]
    BY DEF MarkEnrolmentRefunded
  <1>2. row.status = "REFUNDED" /\ row.programme = enrolment[e].programme
    BY DEF Inv, TypeOK, EnrolmentRow
  <1>3. LeavesPlaces /\ strayed' = strayed
    BY DEF MarkEnrolmentRefunded, LeavesPlaces, history
  <1> HIDE DEF row
  <1> QED BY <1>1, <1>2, <1>3, RowWritten

\* A transfer waits for whoever counted in the intake it goes to.
LEMMA TransferPlaces ==
  ASSUME Inv, Roomy, NEW e \in Enrolment, NEW i \in Intake, TransferIntake(e, i)
  PROVE  PlacesKept
  <1>1. PICK h \in Rooms(enrolment[e].programme, i) :
          enrolment' = [enrolment EXCEPT ![e] =
                          [enrolment[e] EXCEPT !.intake = i, !.cohort = h]]
    <2>1. PICK h \in Oldest(Rooms(enrolment[e].programme, i)) :
            enrolment' = [enrolment EXCEPT ![e].intake = i, ![e].cohort = h]
      BY DEF TransferIntake
    <2> QED BY <2>1 DEF Inv, TypeOK, EnrolmentRow, Oldest
  <1> DEFINE row == [enrolment[e] EXCEPT !.intake = i, !.cohort = h]
  <1>2. row.cohort = h /\ row.programme = enrolment[e].programme
    BY DEF Inv, TypeOK, EnrolmentRow
  <1>3. LeavesPlaces /\ strayed \subseteq strayed'
    BY DEF TransferIntake, LeavesPlaces, history
  <1>4. ASSUME NEW v \in Worker, HasRoom(v), job[v].cohort = h
        PROVE  FALSE
    <2>1. job[v].intake = i /\ i # 0
      BY <1>1, <1>4, CohortAssumption DEF Roomy, SeatFits, Rooms
    <2>2. enrolment[job[v].enr].programme = enrolment[e].programme
      BY <1>1, <1>4 DEF Roomy, SeatFits, Rooms
    <2> QED BY <1>4, <2>1, <2>2 DEF TransferIntake, CohortsLocked, HasRoom
  <1>5. enrolment' = [enrolment EXCEPT ![e] = row]
    BY <1>1
  <1> HIDE DEF row
  <1>6. \A v \in Worker, k \in Cohort :
          /\ job'[v].pc = "placed" /\ HasRoom(v) /\ job[v].cohort = k
          /\ row.cohort = k /\ row.status \in {"ACTIVE", "COMPLETED"}
          => k \in strayed' \/ Occupies(e, k)
    BY <1>2, <1>4
  <1>7. enrolment[e].status = "NONE" \/ row.programme = enrolment[e].programme
    BY <1>2
  <1> QED BY <1>3, <1>5, <1>6, <1>7, RowWritten

\* Every step is one of these.
LEMMA RoomyNext == Inv /\ Roomy /\ [Next]_vars => Roomy'
  <1> SUFFICES ASSUME Inv, Roomy, [Next]_vars PROVE Roomy'
    OBVIOUS
  <1>1. CASE \E w \in Worker : ConfirmPlace(w)
    BY <1>1, ConfirmPlaceRoomy
  <1>2. CASE \E w \in Worker : Proceed(w) /\ ~ConfirmPlace(w)
    BY <1>2, QuietPlaces, ConfirmCommitPlaces, ConfirmGuestPlaces,
       CompleteProgrammePlaces, ResetProgressPlaces, PlacesStep DEF Proceed
  <1>3. CASE \E w \in Worker : Arrive(w)
    BY <1>3, ArrivePlaces, PlacesStep
  <1>4. CASE \E w \in Worker : RequestDies(w)
    BY <1>4, QuietPlaces, PlacesStep
  <1>5. CASE (\E c \in Candidate : Register(c)) \/ \E p \in Payment : CheckoutPaid(p)
    <2>1. enrolment' = enrolment /\ strayed' = strayed /\ LeavesPlaces
      BY <1>5 DEF Register, CheckoutPaid, rows, history, LeavesPlaces
    <2> QED BY <2>1, RowsUntouched, PlacesStep
  <1>6. CASE \E e \in Enrolment : MarkEnrolmentRefunded(e)
    BY <1>6, RefundPlaces, PlacesStep
  <1>7. CASE \E e \in Enrolment, i \in Intake : TransferIntake(e, i)
    BY <1>7, TransferPlaces, PlacesStep
  <1>8. CASE UNCHANGED vars
    <2>1. enrolment' = enrolment /\ strayed' = strayed /\ LeavesPlaces
      BY <1>8 DEF vars, rows, history, LeavesPlaces
    <2> QED BY <2>1, RowsUntouched, PlacesStep
  <1> QED BY <1>1, <1>2, <1>3, <1>4, <1>5, <1>6, <1>7, <1>8 DEF Next

\* The place a confirmation counted under the locks of the cohorts is still there
\* when it commits: nobody enters a cohort without its lock, or the entry is one of
\* those the property names (confirmPayment's cohort step, transferCandidateIntake).
THEOREM CountedRoomIsKept == Spec => []CountedRoomStays
  <1>1. Init => Roomy
    <2> SUFFICES ASSUME Init PROVE Roomy
      OBVIOUS
    <2>1. \A w \in Worker : job[w].pc = "idle"
      BY DEF Init, Idle
    <2> QED BY <2>1 DEF Roomy, SeatFits, OneHolder, CountedRoomStays, HasRoom
  <1>2. Roomy => CountedRoomStays
    BY DEF Roomy
  <1> QED BY <1>1, <1>2, RoomyNext, Invariance, PTL DEF Spec

-----------------------------------------------------------------------------
(* Applied once.  A confirmation under way holds the lock of its payment,  *)
(* so nobody else books that payment before it commits.                    *)

Once ==
  /\ \A p \in Payment : confirmed[p] > 0 => payment[p].status \in {"SUCCESS", "FAILED"}
  /\ \A w \in Worker : job[w].pc \in Confirming => payment[job[w].pay].status # "SUCCESS"
  /\ \A v, w \in Worker :
       job[v].pc \in Confirming /\ job[w].pc \in Confirming /\ job[v].pay = job[w].pay
         => v = w

\* A payment is booked with no confirmation of it left under way.
Booked(p) == /\ payment'[p].status = "SUCCESS"
             /\ \A v \in Worker : ~(job'[v].pc \in Confirming /\ job'[v].pay = p)

\* What a step may do to a payment: nothing, a failure mark, a new row, or booking it.
PaymentsMove ==
  \A p \in Payment :
    \/ /\ payment'[p].status \in {payment[p].status, "FAILED"}
       /\ confirmed'[p] = confirmed[p]
    \/ /\ payment[p].status = "NONE" /\ payment'[p].status = "PENDING"
       /\ confirmed'[p] = confirmed[p]
    \/ /\ Booked(p)
       /\ confirmed'[p] = confirmed[p] \/ payment[p].status # "SUCCESS"

\* A row more, awaiting its payment.
Created(p) == \E row : row.status = "PENDING" /\ payment' = [payment EXCEPT ![p] = row]

\* What it may do to the locks: leave them with their holders, drop one, or take one
\* that is free, of a payment that is not booked.
LocksMove ==
  \A w \in Worker :
    \/ job'[w].pc \notin Confirming
    \/ job[w].pc \in Confirming /\ job'[w].pay = job[w].pay
    \/ /\ ~PaymentLocked(job'[w].pay)
       /\ payment[job'[w].pay].status # "SUCCESS" /\ payment' = payment
       /\ \A v \in Worker \ {w} : job'[v] = job[v]

\* The steps of both kinds keep the invariant and apply nothing twice.
LEMMA OnceStep ==
  ASSUME TypeOK, TypeOK', Once, PaymentsMove, LocksMove
  PROVE  /\ Once'
         /\ \A p \in Payment : confirmed[p] > 0 /\ confirmed'[p] # confirmed[p]
                                 => payment[p].status = "FAILED"
  <1>1. \A p \in Payment : confirmed'[p] > 0 => payment'[p].status \in {"SUCCESS", "FAILED"}
    BY DEF Once, PaymentsMove, Booked
  <1>2. ASSUME NEW w \in Worker, job'[w].pc \in Confirming
        PROVE  payment'[job'[w].pay].status # "SUCCESS"
    <2>1. job'[w].pay \in Payment
      BY <1>2 DEF TypeOK, JobRows, PaymentPc
    <2>2. payment[job'[w].pay].status # "SUCCESS"
      BY <1>2 DEF LocksMove, Once
    <2> QED BY <1>2, <2>1, <2>2 DEF PaymentsMove, Booked
  <1>3. ASSUME NEW v \in Worker, NEW w \in Worker, job'[v].pc \in Confirming,
               job'[w].pc \in Confirming, job'[v].pay = job'[w].pay
        PROVE  v = w
    BY <1>3 DEF LocksMove, Once, PaymentLocked
  <1>4. ASSUME NEW p \in Payment, confirmed[p] > 0, confirmed'[p] # confirmed[p]
        PROVE  payment[p].status = "FAILED"
    BY <1>4 DEF Once, PaymentsMove
  <1> QED BY <1>1, <1>2, <1>3, <1>4 DEF Once

\* One job moves on, and not to a confirmation.
LEMMA LockDropped ==
  ASSUME TypeOK, NEW w \in Worker, NEW j, j.pc \notin Confirming,
         job' = [job EXCEPT ![w] = j]
  PROVE  LocksMove
  BY DEF TypeOK, LocksMove

\* One job moves on, holding the lock it held, or taking a free one.
LEMMA LockHeld ==
  ASSUME NEW w \in Worker, \A v \in Worker \ {w} : job'[v] = job[v],
         \/ job[w].pc \in Confirming /\ job'[w].pay = job[w].pay
         \/ /\ ~PaymentLocked(job'[w].pay)
            /\ payment[job'[w].pay].status # "SUCCESS" /\ payment' = payment
  PROVE  LocksMove
  <1>1. ASSUME NEW u \in Worker, u # w, job'[u].pc \in Confirming
        PROVE  job[u].pc \in Confirming /\ job'[u].pay = job[u].pay
    <2>1. job'[u] = job[u]
      BY <1>1
    <2> QED BY <1>1, <2>1
  <1> QED BY <1>1, Zenon DEF LocksMove

\* The requests that arrive read, or create a payment.
LEMMA ArriveOnce ==
  ASSUME Inv, NEW w \in Worker, Arrive(w)
  PROVE  PaymentsMove /\ LocksMove
  <1> USE DEF rows, history
  <1>1. confirmed' = confirmed
    BY DEF Arrive, CreatePaymentAndEnrolment, FindAbandoned, InitiateGuestCheckout,
           RegisterForExam, ReceiveNotice, MarkPaymentFailed, ConfirmPaymentManually,
           FinishLectures, FindForReset, FindCardToReissue
  <1>2. CASE \E c \in Candidate, g \in Programme, staff \in BOOLEAN :
               CreatePaymentAndEnrolment(w, c, g, staff)
    <2>1. PICK p \in Payment :
            /\ payment[p].status = "NONE"
            /\ Created(p)
            /\ \E j : j.pc \notin Confirming /\ job' = [job EXCEPT ![w] = j]
      BY <1>2 DEF CreatePaymentAndEnrolment, NextPayment, Created, FreshPayment, AfterCreate,
                  Idle, Confirming
    <2> QED BY <1>1, <2>1, LockDropped DEF Created, PaymentsMove, Inv, TypeOK
  <1>3. CASE \E c \in Candidate, g \in Programme : InitiateGuestCheckout(w, c, g)
    <2>1. PICK p \in Payment :
            /\ payment[p].status = "NONE"
            /\ Created(p)
            /\ \E j : j.pc \notin Confirming /\ job' = [job EXCEPT ![w] = j]
      BY <1>3 DEF InitiateGuestCheckout, NextPayment, Created, FreshPayment, AfterCreate,
                  Idle, Confirming
    <2> QED BY <1>1, <2>1, LockDropped DEF Created, PaymentsMove, Inv, TypeOK
  <1>4. CASE \E c \in Candidate : RegisterForExam(w, c)
    <2>1. PICK p \in Payment :
            /\ payment[p].status = "NONE"
            /\ Created(p)
            /\ \E j : j.pc \notin Confirming /\ job' = [job EXCEPT ![w] = j]
      BY <1>4 DEF RegisterForExam, NextPayment, Created, FreshPayment, Idle, Confirming
    <2> QED BY <1>1, <2>1, LockDropped DEF Created, PaymentsMove, Inv, TypeOK
  <1>5. ASSUME payment' = payment, NEW j, j.pc \notin Confirming,
               job' = [job EXCEPT ![w] = j]
        PROVE  PaymentsMove /\ LocksMove
    BY <1>1, <1>5, LockDropped DEF PaymentsMove, Inv
  <1>6. CASE \E n \in Notice : ReceiveNotice(w, n)
    <2>1. PICK n : job' = [job EXCEPT ![w] = Noticed(n)]
      BY <1>6 DEF ReceiveNotice
    <2>2. Noticed(n).pc \notin Confirming
      BY DEF Noticed, Idle, Confirming
    <2> QED BY <1>5, <1>6, <2>1, <2>2 DEF ReceiveNotice
  <1>7. CASE \E p \in Payment, full \in BOOLEAN : ConfirmPaymentManually(w, p, full)
    <2>1. PICK p, full : job' = [job EXCEPT ![w] = Recording(p, full)]
      BY <1>7 DEF ConfirmPaymentManually
    <2>2. Recording(p, full).pc \notin Confirming
      BY DEF Recording, Idle, Confirming
    <2> QED BY <1>5, <1>7, <2>1, <2>2 DEF ConfirmPaymentManually
  <1>8. CASE \/ \E c, g, staff : FindAbandoned(w, c, g, staff)
             \/ \E p : MarkPaymentFailed(w, p)
             \/ \E e : FinishLectures(w, e) \/ FindForReset(w, e)
             \/ \E k : FindCardToReissue(w, k)
    <2>1. payment' = payment
      BY <1>8 DEF FindAbandoned, MarkPaymentFailed, FinishLectures, FindForReset,
                  FindCardToReissue
    <2>2. \E j : j.pc \notin Confirming /\ job' = [job EXCEPT ![w] = j]
      BY <1>8 DEF FindAbandoned, MarkPaymentFailed, FinishLectures, FindForReset,
                  FindCardToReissue, Idle, Confirming
    <2> QED BY <1>5, <2>1, <2>2
  <1> QED BY <1>2, <1>3, <1>4, <1>6, <1>7, <1>8 DEF Arrive

\* The steps of a request that book nothing.
LEMMA QuietOnce ==
  ASSUME Inv, NEW w \in Worker,
         \/ CreateRetryPayment(w) \/ OpenCheckout(w) \/ LoseAnswer(w) \/ WriteFailed(w)
         \/ \E full \in BOOLEAN : RecordOfflinePayment(w, full)
         \/ ConfirmAgain(w) \/ ConfirmRefused(w) \/ ConfirmGuestRefused(w)
         \/ CompleteProgramme(w) \/ ResetProgress(w) \/ ReissueIdCard(w)
         \/ RequestDies(w)
  PROVE  PaymentsMove /\ LocksMove
  <1> USE DEF rows, history
  <1>1. confirmed' = confirmed
    BY DEF CreateRetryPayment, OpenCheckout, LoseAnswer, WriteFailed, RecordOfflinePayment,
           ConfirmAgain, ConfirmRefused, ConfirmGuestRefused, CompleteProgramme,
           ResetProgress, ReissueIdCard, RequestDies
  <1>2. CASE CreateRetryPayment(w)
    <2>1. PICK p \in Payment :
            /\ payment[p].status = "NONE"
            /\ Created(p)
            /\ \E j : j.pc \notin Confirming /\ job' = [job EXCEPT ![w] = j]
      BY <1>2 DEF CreateRetryPayment, NextPayment, Created, FreshPayment, AfterCreate, Idle,
                  Confirming
    <2> QED BY <1>1, <2>1, LockDropped DEF Created, PaymentsMove, Inv, TypeOK
  <1>3. CASE WriteFailed(w)
    BY <1>1, <1>3, LockDropped DEF WriteFailed, Idle, Confirming, PaymentsMove, Inv, TypeOK,
                                     PaymentRow
  <1>4. CASE LoseAnswer(w)
    BY <1>1, <1>4 DEF LoseAnswer, Confirming, PaymentsMove, LocksMove, Inv, TypeOK, Job
  <1>5. CASE \E full \in BOOLEAN : RecordOfflinePayment(w, full)
    BY <1>1, <1>5, LockDropped
       DEF RecordOfflinePayment, Recording, Idle, Confirming, PaymentsMove, Inv, TypeOK
  <1>6. CASE payment' = payment /\ job' = [job EXCEPT ![w] = Idle]
    BY <1>1, <1>6, LockDropped DEF Idle, Confirming, PaymentsMove, Inv, TypeOK
  <1> QED BY <1>2, <1>3, <1>4, <1>5, <1>6
      DEF OpenCheckout, ConfirmAgain, ConfirmRefused, ConfirmGuestRefused,
          CompleteProgramme, ResetProgress, ReissueIdCard, RequestDies

\* A confirmation takes its lock, or goes on holding it.
LEMMA LockOnce ==
  ASSUME Inv, NEW w \in Worker, ConfirmLock(w) \/ ConfirmPlace(w)
  PROVE  PaymentsMove /\ LocksMove
  <1> USE DEF rows, history
  <1>1. payment' = payment /\ confirmed' = confirmed
    BY DEF ConfirmLock, ConfirmPlace
  <1>2. PaymentsMove
    BY <1>1 DEF PaymentsMove
  <1>3. CASE ConfirmLock(w)
    <2>1. /\ ~PaymentLocked(job[w].pay) /\ payment[job[w].pay].status # "SUCCESS"
          /\ \A v \in Worker \ {w} : job'[v] = job[v]
          /\ job'[w].pay = job[w].pay
      BY <1>3 DEF ConfirmLock, Inv, TypeOK, Job
    <2>2. ~PaymentLocked(job'[w].pay) /\ payment[job'[w].pay].status # "SUCCESS"
      BY <2>1
    <2> QED BY <1>1, <1>2, <2>1, <2>2, LockHeld
  <1>4. CASE ConfirmPlace(w)
    <2>1. PICK room, h : job' = [job EXCEPT ![w] = Placed(@, room, h)]
      BY <1>4 DEF ConfirmPlace
    <2>2. job[w].pc \in Confirming
      BY <1>4 DEF ConfirmPlace, Confirming
    <2>3. Placed(job[w], room, h).pay = job[w].pay
      BY DEF Placed, Inv, TypeOK, Job
    <2>4. job'[w].pay = job[w].pay /\ \A v \in Worker \ {w} : job'[v] = job[v]
      BY <2>1, <2>3 DEF Inv, TypeOK
    <2> QED BY <1>2, <2>2, <2>4, LockHeld
  <1> QED BY <1>3, <1>4

\* A payment is booked by whoever holds its lock, or while nobody does.
LEMMA BookedOnce ==
  ASSUME Inv, Once, NEW w \in Worker,
         \/ ConfirmCommit(w) \/ ConfirmExamFee(w) \/ ConfirmGuest(w)
         \/ RecordPartPayment(w)
  PROVE  PaymentsMove /\ LocksMove
  <1> USE DEF rows, history
  <1> DEFINE p == job[w].pay
  <1>1. job' = [job EXCEPT ![w] = Idle]
    BY DEF ConfirmCommit, ConfirmExamFee, ConfirmGuest, RecordPartPayment
  <1>2. job[w].pc \in PaymentPc
    BY DEF ConfirmCommit, ConfirmExamFee, ConfirmGuest, RecordPartPayment, PaymentPc,
           Confirming
  <1>3. p \in Payment
    BY <1>2 DEF Inv, TypeOK, JobRows
  <1>4. /\ payment'[p].status = "SUCCESS"
        /\ \A q \in Payment \ {p} : payment'[q] = payment[q] /\ confirmed'[q] = confirmed[q]
    <2>1. CASE ConfirmCommit(w)
      BY <1>3, <2>1 DEF ConfirmCommit, Inv, TypeOK, PaymentRow
    <2>2. CASE ConfirmExamFee(w)
      BY <1>3, <2>2 DEF ConfirmExamFee, Inv, TypeOK, PaymentRow
    <2>3. CASE RecordPartPayment(w)
      BY <1>3, <2>3 DEF RecordPartPayment, Inv, TypeOK, PaymentRow
    <2>4. CASE ConfirmGuest(w)
      <3>1. PICK e : /\ payment' = [payment EXCEPT ![p] = Attached(@, payment[p].guest, e)]
                     /\ confirmed' = [confirmed EXCEPT ![p] = @ + 1]
        BY <2>4 DEF ConfirmGuest
      <3>2. Attached(payment[p], payment[p].guest, e).status = "SUCCESS"
        BY <1>3 DEF Attached, Inv, TypeOK, PaymentRow
      <3> QED BY <1>3, <3>1, <3>2 DEF Inv, TypeOK
    <2> QED BY <2>1, <2>2, <2>3, <2>4
  <1>5. \A v \in Worker \ {w} : ~(job[v].pc \in Confirming /\ job[v].pay = p)
    <2>1. CASE ConfirmCommit(w)
      BY <2>1 DEF ConfirmCommit, Once, Confirming
    <2>2. CASE ConfirmExamFee(w) \/ RecordPartPayment(w)
      BY <2>2 DEF ConfirmExamFee, RecordPartPayment, PaymentLocked
    <2>3. CASE ConfirmGuest(w)
      BY <2>3 DEF ConfirmGuest, Inv, Tied, JobsTied, JobTied
    <2> QED BY <2>1, <2>2, <2>3
  <1>6. confirmed'[p] = confirmed[p] \/ payment[p].status # "SUCCESS"
    BY DEF ConfirmCommit, ConfirmExamFee, ConfirmGuest, RecordPartPayment, Once, Confirming
  <1>7. Booked(p)
    BY <1>1, <1>4, <1>5 DEF Booked, Idle, Confirming, Inv, TypeOK
  <1>8. LocksMove
    BY <1>1, LockDropped DEF Idle, Confirming, Inv
  <1> QED BY <1>4, <1>6, <1>7, <1>8 DEF PaymentsMove

\* Every step is one of these.
LEMMA OnceNext ==
  ASSUME Inv, Once, [Next]_vars
  PROVE  PaymentsMove /\ LocksMove
  <1> USE DEF rows, history
  <1>1. CASE \E w \in Worker : Arrive(w)
    BY <1>1, ArriveOnce
  <1>2. CASE \E w \in Worker : Proceed(w) \/ RequestDies(w)
    BY <1>2, QuietOnce, LockOnce, BookedOnce DEF Proceed
  <1>3. CASE /\ UNCHANGED <<payment, confirmed, job>>
    BY <1>3 DEF PaymentsMove, LocksMove
  <1> QED BY <1>1, <1>2, <1>3
      DEF Next, Register, CheckoutPaid, MarkEnrolmentRefunded, TransferIntake, vars

\* A confirmation is applied a second time only to a payment a failure mark has hidden
\* it on, for any number of notices, staff entries and retries (the FOR UPDATE lock and
\* the SUCCESS short circuit of confirmPayment).
THEOREM ConfirmedOnce == Spec => AppliedOnce
  <1> DEFINE Step == \A p \in Payment : confirmed[p] > 0 /\ confirmed'[p] # confirmed[p]
                                          => payment[p].status = "FAILED"
  <1>1. Init => Once
    BY DEF Init, Once, Idle, Confirming
  <1>2. Inv /\ Inv' /\ Once /\ [Next]_vars => Once' /\ Step
    <2> SUFFICES ASSUME Inv, Inv', Once, [Next]_vars PROVE Once' /\ Step
      OBVIOUS
    <2> QED BY OnceNext, OnceStep DEF Inv
  <1>3. Inv /\ Inv' /\ Once /\ [Next]_vars => [Step]_vars
    BY <1>2
  <1> HIDE DEF Step
  <1>4. Spec => [][Step]_vars
    BY <1>1, <1>2, <1>3, Invariance, PTL DEF Spec
  <1> QED BY <1>4 DEF Step, AppliedOnce
=============================================================================
