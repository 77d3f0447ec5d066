------------------------------ MODULE Enrolments ------------------------------
(***************************************************************************)
(* Fee payments and the enrolments they activate: checkout, the provider's *)
(* webhook, the staff entries of the finance ledger and the single         *)
(* confirmation transaction all of them funnel into                        *)
(* (src/lib/enrolment-transaction.ts).  An examination fee goes through    *)
(* the same transaction, for the candidate number alone.                   *)
(*                                                                         *)
(* Every table is a function from row ids to rows; ids grow in creation    *)
(* order and 0 is SQL's NULL.  A request that reads outside the            *)
(* transaction it later writes in is a job of a worker: it keeps what it   *)
(* read and acts on it later, whatever the table says by then.             *)
(***************************************************************************)
EXTENDS Naturals, FiniteSets

CONSTANTS
  Candidate,        \* people; one e-mail address each
  Null,             \* SQL's NULL where a candidate or programme could stand
  Programme,
  Intake,           \* intake ids, positive numbers
  Cohort,           \* cohort ids, positive numbers, oldest first
  CohortProgramme,  \* [Cohort -> Programme]
  CohortIntake,     \* [Cohort -> Intake]
  CohortCapacity,   \* [Cohort -> Nat]
  Guest,            \* the candidates who apply through the guest checkout
  Seeded,           \* enrolments, with an intake, the database starts with
  Worker,           \* request handlers in flight at once
  Requests,         \* the kinds of request an instance makes
  Provider,         \* "nomba" or "squadco"
  NombaBypass,      \* the beta switch: confirm without a checkout
  MaxPayments, MaxEnrolments, MaxCards,   \* bounds on rows created
  Deaths            \* whether requests may die half way, any number of them

Payment   == 1 .. MaxPayments
Enrolment == 1 .. MaxEnrolments
IdCard    == 1 .. MaxCards

EnrolmentStatus == {"NONE", "PENDING_PAYMENT", "ACTIVE", "COMPLETED", "REFUNDED"}
PaymentStatus   == {"NONE", "PENDING", "SUCCESS", "FAILED"}
\* What a webhook can report of a checkout; only Squadco tells of a pending one.
Outcome         == {"failed", "success"} \cup
                   (IF Provider = "squadco" THEN {"pending"} ELSE {})

RequestKind == {"register", "checkout", "guest", "exam", "webhook", "fail",
                "record", "refund", "complete", "reset", "transfer", "reissue"}

SeededRow == [candidate : Candidate, programme : Programme, intake : Intake]

ASSUME CandidateAssumption ==
  Null \notin Candidate \cup Programme /\ Guest \subseteq Candidate
ASSUME CohortAssumption ==
  /\ Intake \subseteq Nat \ {0}
  /\ Cohort \subseteq Nat \ {0}
  /\ CohortProgramme \in [Cohort -> Programme]
  /\ CohortIntake \in [Cohort -> Intake]
  /\ CohortCapacity \in [Cohort -> Nat]
ASSUME BoundAssumption ==
  MaxPayments \in Nat /\ MaxEnrolments \in Nat /\ MaxCards \in Nat
ASSUME RequestAssumption == Requests \subseteq RequestKind /\ Deaths \in BOOLEAN
ASSUME ProviderAssumption ==
  Provider \in {"nomba", "squadco"} /\ NombaBypass \in BOOLEAN
ASSUME SeededAssumption ==
  \* row k is enrolment k, awaiting payment k; its holder has no other
  /\ DOMAIN Seeded \subseteq Payment \cap Enrolment
  /\ Seeded \in [DOMAIN Seeded -> SeededRow]
  /\ \A j, k \in DOMAIN Seeded :
       Seeded[j].candidate = Seeded[k].candidate => j = k

VARIABLES
  registered,  \* candidates whose account exists
  number,      \* candidateNumber, 0 until the first confirmed payment
  drawn,       \* the last value taken from the candidate number sequence
  payment,     \* Payment rows, a guest checkout's own row included
  enrolment,   \* Enrolment rows
  card,        \* IdCard rows
  checkout,    \* the provider's order per payment
  events,      \* WebhookEvent rows: the event ids already received
  job,         \* what each worker is in the middle of
  confirmed,   \* history: how often a payment's confirmation was applied
  strayed      \* history: cohorts somebody was let into without their lock, since last counted

people == <<registered, number, drawn, card>>
rows == <<payment, enrolment>>
provider == <<checkout, events>>
history == <<confirmed, strayed>>
vars == <<people, rows, provider, job, history>>

-----------------------------------------------------------------------------
(* Rows and the constraints the database enforces on them.                 *)

NoPayment == [status |-> "NONE", candidate |-> Null, enrolment |-> 0,
              guest |-> Null, programme |-> Null]
NoEnrolment == [status |-> "NONE", candidate |-> Null, programme |-> Null,
                intake |-> 0, cohort |-> 0, completed |-> FALSE, schedules |-> 0]
NoCard == [holder |-> Null, number |-> 0, retired |-> FALSE, from |-> 0]

NextPayment(p) == /\ payment[p].status = "NONE"
                  /\ \A q \in Payment : q < p => payment[q].status # "NONE"
NextEnrolment(e) == /\ enrolment[e].status = "NONE"
                    /\ \A f \in Enrolment : f < e => enrolment[f].status # "NONE"
NextCard(k) == /\ card[k].holder = Null
               /\ \A j \in IdCard : j < k => card[j].holder # Null

LiveStatus(s) == s \notin {"NONE", "REFUNDED"}
Live(e) == LiveStatus(enrolment[e].status)
LiveIn(c, g) == {e \in Enrolment : /\ Live(e)
                                   /\ enrolment[e].candidate = c
                                   /\ enrolment[e].programme = g}

\* mutant: the partial index was never created
IndexAdmitsAll(e, s) == TRUE

\* enrolment_one_live_per_programme: may row e take status s?
IndexAdmits(e, s) ==
  LiveStatus(s) =>
    LiveIn(enrolment[e].candidate, enrolment[e].programme) \subseteq {e}

Occupies(e, h) == /\ enrolment[e].cohort = h
                  /\ enrolment[e].status \in {"ACTIVE", "COMPLETED"}
Occupied(h) == Cardinality({e \in Enrolment : Occupies(e, h)})

\* mutant: a full cohort counts as one with room
RoomsWhenFull(g, i) == {h \in Cohort : /\ CohortProgramme[h] = g
                                       /\ CohortIntake[h] = i
                                       /\ Occupied(h) <= CohortCapacity[h]}

\* The cohorts of a programme and intake with room, and the oldest of them.
Rooms(g, i) == {h \in Cohort : /\ CohortProgramme[h] = g
                               /\ CohortIntake[h] = i
                               /\ Occupied(h) < CohortCapacity[h]}
Oldest(H) == {h \in H : \A j \in H : h <= j}

ActiveCards(c) == {k \in IdCard : card[k].holder = c /\ ~card[k].retired}

LatestPayment(e, p) ==
  /\ payment[p].enrolment = e
  /\ \A q \in Payment : payment[q].enrolment = e => q <= p

Idle == [pc |-> "idle", pay |-> 0, enr |-> 0, card |-> 0, staff |-> FALSE,
         status |-> "NONE", intake |-> 0, cohort |-> 0, room |-> FALSE]

\* The row locks of a confirmation in progress: its payment, its candidate and,
\* once it has counted, the cohorts of the programme and intake it read.
Confirming == {"placing", "placed"}
PaymentLocked(p) == \E w \in Worker : job[w].pc \in Confirming /\ job[w].pay = p
CandidateLocked(c) ==
  \E w \in Worker : job[w].pc \in Confirming /\ payment[job[w].pay].candidate = c
CohortsLocked(g, i) ==
  \E w \in Worker : /\ job[w].pc = "placed"
                    /\ job[w].intake = i /\ i # 0
                    /\ enrolment[job[w].enr].programme = g

HoldsCohort(w, h) == /\ job[w].pc = "placed"
                     /\ job[w].intake = CohortIntake[h]
                     /\ enrolment[job[w].enr].programme = CohortProgramme[h]

\* A write of an enrolment that does not hold the lock of a cohort may let it in there:
\* the seat, or the status, it writes back is the one it read.
LetIn(w) == {h \in Cohort : /\ ~HoldsCohort(w, h)
                            /\ \E e \in Enrolment : ~Occupies(e, h) /\ Occupies(e, h)'}

\* The id a provider's notice carries: Nomba numbers each notice, Squadco's
\* is the transaction reference of the payment.
EventId(n) == IF Provider = "squadco" THEN [n EXCEPT !.outcome = "any"] ELSE n

\* The bounds on rows refuse a request that starts, never one under way: a row is
\* kept for every request that is going to need one.
Jobs(pc) == {w \in Worker : job[w].pc = pc}
SparePayment ==
  Cardinality(Jobs("retry")) < Cardinality({p \in Payment : payment[p].status = "NONE"})
SpareEnrolment ==
  Cardinality({p \in Payment : payment[p].guest # Null /\ payment[p].enrolment = 0})
    < Cardinality({e \in Enrolment : enrolment[e].status = "NONE"})
SpareCard ==
  Cardinality(Jobs("reissue")) + Cardinality({c \in Candidate : ActiveCards(c) = {}})
    < Cardinality({k \in IdCard : card[k].holder = Null})

\* mutant: the place is open before the money
FreshEnrolmentActive(c, g) == [NoEnrolment EXCEPT !.status = "ACTIVE",
                                                  !.candidate = c, !.programme = g]

FreshEnrolment(c, g) == [NoEnrolment EXCEPT !.status = "PENDING_PAYMENT",
                                            !.candidate = c, !.programme = g]
FreshPayment(c, e, guest, g) ==
  [status |-> "PENDING", candidate |-> c, enrolment |-> e, guest |-> guest,
   programme |-> g]

-----------------------------------------------------------------------------

Init ==
  /\ registered = {Seeded[k].candidate : k \in DOMAIN Seeded}
  /\ number = [c \in Candidate |-> 0]
  /\ drawn = 0
  /\ payment = [p \in Payment |->
       IF p \in DOMAIN Seeded
       THEN FreshPayment(Seeded[p].candidate, p, Null, Seeded[p].programme)
       ELSE NoPayment]
  /\ enrolment = [e \in Enrolment |->
       IF e \in DOMAIN Seeded
       THEN [FreshEnrolment(Seeded[e].candidate, Seeded[e].programme)
              EXCEPT !.intake = Seeded[e].intake]
       ELSE NoEnrolment]
  /\ card = [k \in IdCard |-> NoCard]
  /\ checkout = [p \in Payment |-> IF p \in DOMAIN Seeded THEN "open" ELSE "none"]
  /\ events = {}
  /\ job = [w \in Worker |-> Idle]
  /\ confirmed = [p \in Payment |-> 0]
  /\ strayed = {}

-----------------------------------------------------------------------------
(* Starting a payment.                                                     *)

\* An account made by another door than the guest checkout (/register, Google).
Register(c) ==
  /\ c \notin registered
  /\ registered' = registered \cup {c}
  /\ UNCHANGED <<rows, provider, history, number, drawn, card, job>>

\* mutant: the request loses sight of the row it created
AfterCreateUnnamed(p, staff) == [Idle EXCEPT !.pc = "checkout"]

\* Where a request stands once its Payment row is committed: staff recording a
\* transfer go on to applyOfflineRecording, everyone else to the provider.
AfterCreate(p, staff) ==
  [Idle EXCEPT !.pc = IF staff THEN "record"
                      ELSE IF NombaBypass THEN "confirm" ELSE "checkout",
               !.pay = p]

\* initiatePayment, and recordOfflinePayment when staff, with no live enrolment:
\* both rows in one transaction; the unique index would refuse a second one.
CreatePaymentAndEnrolment(w, c, g, staff) ==
  /\ job[w].pc = "idle"
  /\ c \in registered
  /\ LiveIn(c, g) = {}
  /\ SparePayment /\ SpareEnrolment
  /\ \E p \in Payment, e \in Enrolment :
       /\ NextPayment(p)
       /\ NextEnrolment(e)
       /\ enrolment' = [enrolment EXCEPT ![e] = FreshEnrolment(c, g)]
       /\ payment' = [payment EXCEPT ![p] = FreshPayment(c, e, Null, g)]
       /\ job' = [job EXCEPT ![w] = AfterCreate(p, staff)]
  /\ UNCHANGED <<people, provider, history>>

\* The same requests finding an unpaid enrolment whose latest attempt failed:
\* it is reused.  What was read is not locked.
FindAbandoned(w, c, g, staff) ==
  /\ job[w].pc = "idle"
  /\ c \in registered
  /\ SparePayment
  /\ \E e \in LiveIn(c, g), p \in Payment :
       /\ enrolment[e].status = "PENDING_PAYMENT"
       /\ LatestPayment(e, p)
       /\ payment[p].status = "FAILED"
       /\ job' = [job EXCEPT ![w] =
            [Idle EXCEPT !.pc = "retry", !.enr = e, !.staff = staff]]
  /\ UNCHANGED <<people, rows, provider, history>>

CreateRetryPayment(w) ==
  /\ job[w].pc = "retry"
  /\ \E p \in Payment :
       /\ NextPayment(p)
       /\ LET e == job[w].enr IN
          payment' = [payment EXCEPT ![p] =
            FreshPayment(enrolment[e].candidate, e, Null, enrolment[e].programme)]
       /\ job' = [job EXCEPT ![w] = AfterCreate(p, job[w].staff)]
  /\ UNCHANGED <<people, provider, history, enrolment>>

\* initiateGuestCheckout: the address must have no account at this moment.
InitiateGuestCheckout(w, c, g) ==
  /\ job[w].pc = "idle"
  /\ c \in Guest \ registered
  /\ SparePayment /\ SpareEnrolment
  /\ \E p \in Payment :
       /\ NextPayment(p)
       /\ payment' = [payment EXCEPT ![p] = FreshPayment(Null, 0, c, g)]
       /\ job' = [job EXCEPT ![w] = AfterCreate(p, FALSE)]
  /\ UNCHANGED <<people, provider, history, enrolment>>

\* registerForExam: a fee tied to no enrolment; the beta bypass does not reach it.
RegisterForExam(w, c) ==
  /\ job[w].pc = "idle"
  /\ c \in registered
  /\ SparePayment
  /\ \E p \in Payment :
       /\ NextPayment(p)
       /\ payment' = [payment EXCEPT ![p] = FreshPayment(c, 0, Null, Null)]
       /\ job' = [job EXCEPT ![w] = [Idle EXCEPT !.pc = "checkout", !.pay = p]]
  /\ UNCHANGED <<people, provider, history, enrolment>>

\* createCheckoutOrMarkFailed, when the provider answers with a payment page (when
\* its call throws before there is an order: WriteFailed).
OpenCheckout(w) ==
  /\ job[w].pc = "checkout"
  /\ checkout' = [checkout EXCEPT ![job[w].pay] = "open"]
  /\ job' = [job EXCEPT ![w] = Idle]
  /\ UNCHANGED <<people, rows, history, events>>

\* The provider made the order, but the answer is lost on its way back: the call
\* throws all the same, and what is left of the request is the failure mark.
LoseAnswer(w) ==
  /\ job[w].pc = "checkout"
  /\ checkout' = [checkout EXCEPT ![job[w].pay] = "open"]
  /\ job' = [job EXCEPT ![w].pc = "fail"]
  /\ UNCHANGED <<people, rows, history, events>>

-----------------------------------------------------------------------------
(* The provider.  A payer may be told that the payment is pending or was   *)
(* declined and try again on the same page; once paid, the order is closed.*)

CheckoutPaid(p) ==
  /\ checkout[p] = "open"
  /\ checkout' = [checkout EXCEPT ![p] = "paid"]
  /\ UNCHANGED <<people, rows, history, events, job>>

\* The notices that can be on their way: late ones and repeated ones too.
Notice == [payment : Payment, outcome : Outcome]
Sent(n) == IF n.outcome = "success" THEN checkout[n.payment] = "paid"
                                    ELSE checkout[n.payment] # "none"

\* What the route goes on to do with a notice, having read the payment: one of a
\* failure is dropped unless the payment is PENDING.
Noticed(n) ==
  CASE n.outcome = "success" -> [Idle EXCEPT !.pc = "confirm", !.pay = n.payment]
    [] n.outcome = "failed" /\ payment[n.payment].status = "PENDING"
         -> [Idle EXCEPT !.pc = "fail", !.pay = n.payment]
    [] OTHER -> Idle

\* The WebhookEvent is inserted first: a notice whose id is on record is answered
\* 200 and changes nothing.
ReceiveNotice(w, n) ==
  /\ job[w].pc = "idle"
  /\ Sent(n)
  /\ EventId(n) \notin events
  /\ events' = events \cup {EventId(n)}
  /\ job' = [job EXCEPT ![w] = Noticed(n)]
  /\ UNCHANGED <<people, rows, history, checkout>>

-----------------------------------------------------------------------------
(* The finance ledger.                                                     *)

\* markPaymentFailed checks the status before the transaction that writes it.
MarkPaymentFailed(w, p) ==
  /\ job[w].pc = "idle"
  /\ payment[p].status = "PENDING"
  /\ job' = [job EXCEPT ![w] = [Idle EXCEPT !.pc = "fail", !.pay = p]]
  /\ UNCHANGED <<people, rows, provider, history>>

\* The write shared by handlePaymentFailure, markPaymentFailed and, when the
\* provider's call throws, createCheckoutOrMarkFailed: by id alone, after
\* waiting for the row, whatever the row holds by then.
WriteFailed(w) ==
  /\ job[w].pc \in {"fail", "checkout"}
  /\ ~PaymentLocked(job[w].pay)
  /\ payment' = [payment EXCEPT ![job[w].pay].status = "FAILED"]
  /\ job' = [job EXCEPT ![w] = Idle]
  /\ UNCHANGED <<people, provider, history, enrolment>>

\* applyOfflineRecording: refused unless the payment is PENDING and tied to an
\* enrolment; a transfer of the fee or more goes on to the confirmation.
Recording(p, full) ==
  IF payment[p].status = "PENDING" /\ payment[p].enrolment # 0
  THEN [Idle EXCEPT !.pc = IF full THEN "confirm" ELSE "part", !.pay = p]
  ELSE Idle

ConfirmPaymentManually(w, p, full) ==
  /\ job[w].pc = "idle"
  /\ job' = [job EXCEPT ![w] = Recording(p, full)]
  /\ UNCHANGED <<people, rows, provider, history>>

RecordOfflinePayment(w, full) ==
  /\ job[w].pc = "record"
  /\ job' = [job EXCEPT ![w] = Recording(job[w].pay, full)]
  /\ UNCHANGED <<people, rows, provider, history>>

\* Short of the fee: the money is booked, nothing is activated.
RecordPartPayment(w) ==
  /\ job[w].pc = "part"
  /\ ~PaymentLocked(job[w].pay)
  /\ payment' = [payment EXCEPT ![job[w].pay].status = "SUCCESS"]
  /\ job' = [job EXCEPT ![w] = Idle]
  /\ UNCHANGED <<people, provider, history, enrolment>>

\* markEnrolmentRefunded: any enrolment, in any status.
MarkEnrolmentRefunded(e) ==
  /\ enrolment[e].status # "NONE"
  /\ enrolment' = [enrolment EXCEPT ![e].status = "REFUNDED"]
  /\ UNCHANGED <<people, provider, history, payment, job>>

-----------------------------------------------------------------------------
(* confirmPayment: one transaction under row locks on the payment, then    *)
(* the candidate (ConfirmLock), then the cohorts (ConfirmPlace).  The      *)
(* enrolment row itself is not locked: ConfirmLock reads it, ConfirmCommit *)
(* writes it.                                                              *)

\* SELECT ... FOR UPDATE on the payment: a SUCCESS row needs nothing more.
ConfirmAgain(w) ==
  /\ job[w].pc = "confirm"
  /\ ~PaymentLocked(job[w].pay)
  /\ payment[job[w].pay].status = "SUCCESS"
  /\ job' = [job EXCEPT ![w] = Idle]
  /\ UNCHANGED <<people, rows, provider, history>>

\* mutant: a payment marked FAILED is not confirmed any more
ConfirmLockPending(w) ==
  /\ job[w].pc = "confirm"
  /\ LET p == job[w].pay IN
     /\ ~PaymentLocked(p)
     /\ payment[p].enrolment # 0
     /\ ~CandidateLocked(payment[p].candidate)
     /\ payment[p].status # "SUCCESS"
     /\ job' = [job EXCEPT ![w] =
          IF payment[p].status = "PENDING"
          THEN [@ EXCEPT !.pc = "placing", !.enr = payment[p].enrolment] ELSE Idle]
  /\ UNCHANGED <<people, rows, provider, history>>

\* mutant: the payment is read, not locked
ConfirmLockUnlocked(w) ==
  /\ job[w].pc = "confirm"
  /\ LET p == job[w].pay
         e == payment[p].enrolment
     IN /\ payment[p].status # "SUCCESS"
        /\ e # 0
        /\ job' = [job EXCEPT ![w] =
             [@ EXCEPT !.pc = "placing", !.enr = e,
                       !.status = enrolment[e].status,
                       !.intake = enrolment[e].intake,
                       !.cohort = enrolment[e].cohort]]
  /\ UNCHANGED <<people, rows, provider, history>>

ConfirmLock(w) ==
  /\ job[w].pc = "confirm"
  /\ LET p == job[w].pay
         e == payment[p].enrolment
     IN /\ ~PaymentLocked(p)
        /\ payment[p].status # "SUCCESS"
        /\ e # 0
        /\ ~CandidateLocked(payment[p].candidate)
        /\ job' = [job EXCEPT ![w] =
             [@ EXCEPT !.pc = "placing", !.enr = e,
                       !.status = enrolment[e].status,
                       !.intake = enrolment[e].intake,
                       !.cohort = enrolment[e].cohort]]
  /\ UNCHANGED <<people, rows, provider, history>>

\* Steps 3 and 6: a number on the first confirmed payment only, from a sequence
\* (the values aborted transactions waste are not modelled), and a card carrying
\* it unless a card is live.
\* mutants: the sequence is read, not advanced; a number is drawn every time
NumberOfLast(c) == IF number[c] = 0 THEN drawn ELSE number[c]
NumberOfNext(c) == drawn + 1

NumberOf(c) == IF number[c] = 0 THEN drawn + 1 ELSE number[c]

AssignNumber(c) ==
  /\ number' = [number EXCEPT ![c] = NumberOf(c)]
  /\ drawn' = IF number[c] = 0 THEN drawn + 1 ELSE drawn

Printed(c) == [NoCard EXCEPT !.holder = c, !.number = NumberOf(c)]

NumberAndCard(c) ==
  /\ AssignNumber(c)
  /\ IF ActiveCards(c) # {}
     THEN card' = card
     ELSE \E k \in IdCard : NextCard(k) /\ card' = [card EXCEPT ![k] = Printed(c)]

\* Step 5 for an enrolment read as (intake, cohort): the oldest cohort with room,
\* or else the one the row had.
Seats(row, seen) ==
  LET rooms == Rooms(row.programme, seen.intake) IN
  IF rooms # {} THEN Oldest(rooms) ELSE {seen.cohort}

Placed(j, room, h) == [j EXCEPT !.pc = "placed", !.room = room, !.cohort = h]

Counted(w) ==
  strayed' = {h \in strayed : \/ CohortProgramme[h] # enrolment[job[w].enr].programme
                              \/ CohortIntake[h] # job[w].intake}

\* mutant: the cohorts are counted, not locked
ConfirmPlaceUnlocked(w) ==
  /\ job[w].pc = "placing"
  /\ LET row == enrolment[job[w].enr] IN
     \E h \in Seats(row, job[w]) :
       job' = [job EXCEPT ![w] =
                 Placed(@, Rooms(row.programme, job[w].intake) # {}, h)]
  /\ Counted(w)
  /\ UNCHANGED <<people, rows, provider, confirmed>>

ConfirmPlace(w) ==
  /\ job[w].pc = "placing"
  /\ LET row == enrolment[job[w].enr]
         room == Rooms(row.programme, job[w].intake) # {}
     IN /\ ~CohortsLocked(row.programme, job[w].intake)
        /\ \E h \in Seats(row, job[w]) : job' = [job EXCEPT ![w] = Placed(@, room, h)]
  /\ Counted(w)
  /\ UNCHANGED <<people, rows, provider, confirmed>>

\* Step 4: ACTIVE in any case, with or without a seat; a schedule only if the row
\* read was not ACTIVE and the row has an intake.
Scheduled(row, seen) ==
  IF seen.status # "ACTIVE" /\ row.intake # 0 THEN row.schedules + 1
                                              ELSE row.schedules

Activated(row, seen) == [row EXCEPT !.status = "ACTIVE", !.cohort = seen.cohort,
                                    !.schedules = Scheduled(row, seen)]

ConfirmCommit(w) ==
  /\ job[w].pc = "placed"
  /\ LET p == job[w].pay
         e == job[w].enr
     IN /\ IndexAdmits(e, "ACTIVE")
        /\ enrolment' = [enrolment EXCEPT ![e] = Activated(@, job[w])]
        /\ payment' = [payment EXCEPT ![p].status = "SUCCESS"]
        /\ NumberAndCard(payment[p].candidate)
        /\ confirmed' = [confirmed EXCEPT ![p] = @ + 1]
  /\ strayed' = strayed \cup LetIn(w)
  /\ job' = [job EXCEPT ![w] = Idle]
  /\ UNCHANGED <<provider, registered>>

\* The unique index refuses the activation: everything is rolled back.
ConfirmRefused(w) ==
  /\ job[w].pc = "placed"
  /\ ~IndexAdmits(job[w].enr, "ACTIVE")
  /\ job' = [job EXCEPT ![w] = Idle]
  /\ UNCHANGED <<people, rows, provider, history>>

\* An examination fee: steps 2 and 3 under the same locks, and no more.
ConfirmExamFee(w) ==
  /\ job[w].pc = "confirm"
  /\ LET p == job[w].pay
         c == payment[p].candidate
     IN /\ ~PaymentLocked(p)
        /\ payment[p].status # "SUCCESS"
        /\ payment[p].enrolment = 0
        /\ c # Null
        /\ ~CandidateLocked(c)
        /\ payment' = [payment EXCEPT ![p].status = "SUCCESS"]
        /\ AssignNumber(c)
        /\ confirmed' = [confirmed EXCEPT ![p] = @ + 1]
  /\ job' = [job EXCEPT ![w] = Idle]
  /\ UNCHANGED <<provider, registered, card, enrolment, strayed>>

\* mutant: the payment is not tied to the enrolment it opened
AttachedToCandidate(row, c, e) == [row EXCEPT !.status = "SUCCESS", !.candidate = c]

Attached(row, c, e) == [row EXCEPT !.status = "SUCCESS", !.candidate = c,
                                   !.enrolment = e]

\* Step 1b, for a guest checkout: the account and the enrolment are created in
\* the same transaction, with no intake, hence no cohort and no schedule.
ConfirmGuest(w) ==
  /\ job[w].pc = "confirm"
  /\ LET p == job[w].pay
         c == payment[p].guest
     IN /\ payment[p].status # "SUCCESS"
        /\ payment[p].candidate = Null
        /\ c \notin registered
        /\ registered' = registered \cup {c}
        /\ \E e \in Enrolment :
             /\ NextEnrolment(e)
             /\ enrolment' = [enrolment EXCEPT ![e] =
                  [NoEnrolment EXCEPT !.status = "ACTIVE", !.candidate = c,
                                      !.programme = payment[p].programme]]
             /\ payment' = [payment EXCEPT ![p] = Attached(@, c, e)]
        /\ NumberAndCard(c)
        /\ confirmed' = [confirmed EXCEPT ![p] = @ + 1]
  /\ job' = [job EXCEPT ![w] = Idle]
  /\ UNCHANGED <<provider, strayed>>

\* The address has an account by now: the insert fails, and with it, in
\* PostgreSQL, every later statement of the transaction, the lookup the catch
\* block goes on to make included.
ConfirmGuestRefused(w) ==
  /\ job[w].pc = "confirm"
  /\ LET p == job[w].pay
     IN /\ payment[p].status # "SUCCESS"
        /\ payment[p].candidate = Null
        /\ payment[p].guest \in registered
  /\ job' = [job EXCEPT ![w] = Idle]
  /\ UNCHANGED <<people, rows, provider, history>>

-----------------------------------------------------------------------------
(* After activation: completion, reset, transfer, card reissue.            *)

\* completeProgramme reads the row, in whatever status, counts its lectures (all done,
\* of any enrolment: Coursework), and writes back a status derived from what it read.
\* Of the candidate the action asks only that they have a number (requireEnrolled).
FinishLectures(w, e) ==
  /\ job[w].pc = "idle"
  /\ enrolment[e].status # "NONE"
  /\ number[enrolment[e].candidate] # 0
  /\ ~enrolment[e].completed
  /\ job' = [job EXCEPT ![w] =
       [Idle EXCEPT !.pc = "complete", !.enr = e, !.status = enrolment[e].status]]
  /\ UNCHANGED <<people, rows, provider, history>>

CompletedStatus(seen) == IF seen = "ACTIVE" THEN "COMPLETED" ELSE seen

CompleteProgramme(w) ==
  /\ job[w].pc = "complete"
  /\ LET e == job[w].enr
         s == CompletedStatus(job[w].status)
     IN enrolment' = IF IndexAdmits(e, s)
                     THEN [enrolment EXCEPT ![e] =
                            [@ EXCEPT !.completed = TRUE, !.status = s]]
                     ELSE enrolment
  /\ strayed' = strayed \cup LetIn(w)
  /\ job' = [job EXCEPT ![w] = Idle]
  /\ UNCHANGED <<people, provider, payment, confirmed>>

\* resetEnrolmentProgress: COMPLETED when read means ACTIVE when written; the
\* schedules are deleted and one is generated again.
FindForReset(w, e) ==
  /\ job[w].pc = "idle"
  /\ enrolment[e].status # "NONE"
  /\ job' = [job EXCEPT ![w] =
       [Idle EXCEPT !.pc = "reset", !.enr = e, !.status = enrolment[e].status]]
  /\ UNCHANGED <<people, rows, provider, history>>

\* mutant: whatever the row was, it starts over
ResetRowActive(row, seen) ==
  [row EXCEPT !.completed = FALSE, !.status = "ACTIVE",
              !.schedules = IF row.intake # 0 THEN 1 ELSE 0]

\* mutant: the schedules are deleted and none is generated
ResetRowUnscheduled(row, seen) ==
  [row EXCEPT !.completed = FALSE,
              !.status = IF seen = "COMPLETED" THEN "ACTIVE" ELSE @,
              !.schedules = 0]

ResetRow(row, seen) ==
  [row EXCEPT !.completed = FALSE,
              !.status = IF seen = "COMPLETED" THEN "ACTIVE" ELSE @,
              !.schedules = IF row.intake # 0 THEN 1 ELSE 0]

ResetProgress(w) ==
  /\ job[w].pc = "reset"
  /\ LET e == job[w].enr
         row == ResetRow(enrolment[e], job[w].status)
     IN enrolment' = IF IndexAdmits(e, row.status)
                     THEN [enrolment EXCEPT ![e] = row] ELSE enrolment
  /\ strayed' = strayed \cup LetIn(w)
  /\ job' = [job EXCEPT ![w] = Idle]
  /\ UNCHANGED <<people, provider, payment, confirmed>>

\* transferCandidateIntake: one transaction under the locks of the new intake's
\* cohorts; refused without room, and for an enrolment that has no intake.
TransferIntake(e, i) ==
  /\ enrolment[e].status # "NONE"
  /\ enrolment[e].intake # 0
  /\ ~CohortsLocked(enrolment[e].programme, i)
  /\ \E h \in Oldest(Rooms(enrolment[e].programme, i)) :
       enrolment' = [enrolment EXCEPT ![e].intake = i, ![e].cohort = h]
  /\ UNCHANGED <<people, provider, history, payment, job>>

\* reissueIdCard finds the live card, then retires it by id and inserts a copy.
FindCardToReissue(w, k) ==
  /\ job[w].pc = "idle"
  /\ card[k].holder # Null
  /\ ~card[k].retired
  /\ SpareCard
  /\ job' = [job EXCEPT ![w] = [Idle EXCEPT !.pc = "reissue", !.card = k]]
  /\ UNCHANGED <<people, rows, provider, history>>

\* mutant: neither column is unique
SuccessorAlways(k) == TRUE

\* The unique columns: one successor per card, one live card per number.
SuccessorAdmitted(k) ==
  /\ \A j \in IdCard : card[j].from # k
  /\ \A j \in IdCard \ {k} : card[j].number = card[k].number => card[j].retired

ReissueIdCard(w) ==
  /\ job[w].pc = "reissue"
  /\ LET k == job[w].card IN
     IF SuccessorAdmitted(k)
     THEN \E j \in IdCard :
            /\ NextCard(j)
            /\ card' = [card EXCEPT ![k].retired = TRUE,
                                    ![j] = [card[k] EXCEPT !.retired = FALSE,
                                                           !.from = k]]
     ELSE card' = card
  /\ job' = [job EXCEPT ![w] = Idle]
  /\ UNCHANGED <<rows, provider, history, registered, number, drawn>>

-----------------------------------------------------------------------------
\* The server restarts, a query fails, a transaction is the victim of a deadlock
\* or times out: what was committed stays, the rest of the request is gone.
RequestDies(w) ==
  /\ job[w].pc # "idle"
  /\ Deaths
  /\ job' = [job EXCEPT ![w] = Idle]
  /\ UNCHANGED <<people, rows, provider, history>>

\* A request of kind k arrives at an idle worker.
Arrive(w) ==
  \/ /\ "checkout" \in Requests
     /\ \E c \in Candidate, g \in Programme :
          CreatePaymentAndEnrolment(w, c, g, FALSE) \/ FindAbandoned(w, c, g, FALSE)
  \/ /\ "guest" \in Requests
     /\ \E c \in Candidate, g \in Programme : InitiateGuestCheckout(w, c, g)
  \/ "exam" \in Requests /\ \E c \in Candidate : RegisterForExam(w, c)
  \/ "webhook" \in Requests /\ \E n \in Notice : ReceiveNotice(w, n)
  \/ "fail" \in Requests /\ \E p \in Payment : MarkPaymentFailed(w, p)
  \/ /\ "record" \in Requests
     /\ \/ \E c \in Candidate, g \in Programme :
             CreatePaymentAndEnrolment(w, c, g, TRUE) \/ FindAbandoned(w, c, g, TRUE)
        \/ \E p \in Payment, full \in BOOLEAN : ConfirmPaymentManually(w, p, full)
  \/ "complete" \in Requests /\ \E e \in Enrolment : FinishLectures(w, e)
  \/ "reset" \in Requests /\ \E e \in Enrolment : FindForReset(w, e)
  \/ "reissue" \in Requests /\ \E k \in IdCard : FindCardToReissue(w, k)

Proceed(w) ==
  \/ CreateRetryPayment(w) \/ OpenCheckout(w) \/ LoseAnswer(w) \/ WriteFailed(w)
  \/ \E full \in BOOLEAN : RecordOfflinePayment(w, full)
  \/ RecordPartPayment(w)
  \/ ConfirmAgain(w) \/ ConfirmLock(w) \/ ConfirmPlace(w)
  \/ ConfirmCommit(w) \/ ConfirmRefused(w)
  \/ ConfirmExamFee(w) \/ ConfirmGuest(w) \/ ConfirmGuestRefused(w)
  \/ CompleteProgramme(w) \/ ResetProgress(w) \/ ReissueIdCard(w)

Next ==
  \/ "register" \in Requests /\ \E c \in Candidate : Register(c)
  \/ \E p \in Payment : CheckoutPaid(p)
  \/ "refund" \in Requests /\ \E e \in Enrolment : MarkEnrolmentRefunded(e)
  \/ /\ "transfer" \in Requests
     /\ \E e \in Enrolment, i \in Intake : TransferIntake(e, i)
  \/ \E w \in Worker : Arrive(w) \/ Proceed(w) \/ RequestDies(w)

Spec == Init /\ [][Next]_vars

\* Requests under way finish, and the provider repeats a notice until it is
\* answered.  A notice needs strong fairness only because the model's workers
\* are few; the server takes every delivery.
Fairness ==
  /\ \A w \in Worker : WF_vars(Proceed(w))
  /\ \A n \in Notice : SF_vars(\E w \in Worker : ReceiveNotice(w, n))

FairSpec == Spec /\ Fairness

-----------------------------------------------------------------------------
PaymentRow == [status : PaymentStatus, candidate : Candidate \cup {Null},
               enrolment : {0} \cup Enrolment, guest : Candidate \cup {Null},
               programme : Programme \cup {Null}]
EnrolmentRow == [status : EnrolmentStatus, candidate : Candidate \cup {Null},
                 programme : Programme \cup {Null}, intake : {0} \cup Intake,
                 cohort : {0} \cup Cohort, completed : BOOLEAN, schedules : Nat]
CardRow == [holder : Candidate \cup {Null}, number : Nat, retired : BOOLEAN,
            from : {0} \cup IdCard]
JobPc == {"idle", "retry", "checkout", "fail", "record", "part", "confirm",
          "placing", "placed", "complete", "reset", "reissue"}
Job == [pc : JobPc, pay : {0} \cup Payment, enr : {0} \cup Enrolment,
        card : {0} \cup IdCard, staff : BOOLEAN, status : EnrolmentStatus,
        intake : {0} \cup Intake, cohort : {0} \cup Cohort, room : BOOLEAN]
\* What a step of a job needs: the row it acts on.
PaymentPc == {"checkout", "fail", "record", "part", "confirm"} \cup Confirming
EnrolmentPc == {"retry", "complete", "reset"} \cup Confirming
JobRows(j) ==
  /\ j.pc \in PaymentPc => j.pay \in Payment
  /\ j.pc \in EnrolmentPc => j.enr \in Enrolment
  /\ j.pc = "reissue" => j.card \in IdCard

\* Type correctness: every row, job and notice is one the schema admits, and a
\* request under way names the row it is about to write.
TypeOK ==
  /\ registered \subseteq Candidate
  /\ number \in [Candidate -> Nat]
  /\ drawn \in Nat
  /\ payment \in [Payment -> PaymentRow]
  /\ enrolment \in [Enrolment -> EnrolmentRow]
  /\ card \in [IdCard -> CardRow]
  /\ checkout \in [Payment -> {"none", "open", "paid"}]
  /\ events \subseteq [payment : Payment, outcome : Outcome \cup {"any"}]
  /\ job \in [Worker -> Job]
  /\ \A w \in Worker : JobRows(job[w])
  /\ confirmed \in [Payment -> Nat]
  /\ strayed \subseteq Cohort

\* A candidate never holds two live enrolments in one programme, whatever
\* checkouts, retries, late confirmations, refunds, completions and resets cross.
OneLiveEnrolment ==
  \A e, f \in Enrolment :
    /\ Live(e) /\ Live(f)
    /\ enrolment[e].candidate = enrolment[f].candidate
    /\ enrolment[e].programme = enrolment[f].programme
    => e = f

\* What the ledger's history shows of an enrolment: it was activated by a confirmed
\* payment of its own candidate.
Paid(e) == \E p \in Payment : /\ payment[p].enrolment = e
                              /\ payment[p].candidate = enrolment[e].candidate
                              /\ confirmed[p] > 0

\* Nobody studies unpaid: an enrolment that is ACTIVE or COMPLETED was activated
\* by the confirmation of a payment of its own, by its own candidate.  A part
\* payment, a refund, a reset or a stale completion never opens one.
ActiveOnlyIfPaid ==
  \A e \in Enrolment : enrolment[e].status \in {"ACTIVE", "COMPLETED"} => Paid(e)

\* A number is issued with the first confirmed payment and not before, and no two
\* candidates share one.
NumberIffConfirmed ==
  /\ \A c \in Candidate : number[c] # 0 <=>
       \E p \in Payment : payment[p].candidate = c /\ confirmed[p] > 0
  /\ \A c, d \in Candidate : number[c] = number[d] /\ number[c] # 0 => c = d

\* Whoever had a programme fee confirmed holds exactly one live card, with their
\* number on it, whatever confirmations, examination fees and reissues cross;
\* nobody else holds one.
PaidAFee(c) == \E p \in Payment : /\ payment[p].candidate = c
                                  /\ payment[p].enrolment # 0
                                  /\ confirmed[p] > 0
OneLiveCard ==
  \A c \in Candidate :
    IF PaidAFee(c) THEN \E k \in IdCard : ActiveCards(c) = {k} /\ card[k].number = number[c]
    ELSE ActiveCards(c) = {}

\* A number, once issued, is never replaced, not even when a second programme
\* is paid for or a payment is confirmed twice.
NumberIsForLife ==
  [][\A c \in Candidate : number[c] # 0 => number'[c] = number[c]]_vars

\* Whoever studies in an intake has a schedule of deadlines: not only right after
\* the confirmation, but after every reset, refund, repeated confirmation and
\* transfer that crosses it.
ScheduledIfDated ==
  \A e \in Enrolment :
    enrolment[e].status \in {"ACTIVE", "COMPLETED"} /\ enrolment[e].intake # 0
      => enrolment[e].schedules > 0

\* Two payments contending for the last place do not race past the capacity check
\* together: the room a confirmation counted is still there when it commits, whatever
\* other confirmations, transfers and refunds commit in between - unless somebody was
\* let in meanwhile by a write that takes no lock of the cohort: a completion or a
\* reset that brings a refunded row back, or a confirmation that found no room and
\* writes back a seat of another intake (enrolment-transaction.ts:224).
CountedRoomStays ==
  \A w \in Worker :
    job[w].pc = "placed" /\ job[w].room =>
      \/ Occupied(job[w].cohort) < CohortCapacity[job[w].cohort]
      \/ job[w].cohort \in strayed

\* Money paid at the provider is confirmed in the end, whatever failure notices, lost
\* answers, failure marks, full staff entries and retries cross it, where no refund and
\* no crash intervenes.  A payment staff book a part of is exempt: the part makes it
\* SUCCESS, and the provider's notice of the whole is then dropped (ConfirmAgain).
PartOf(w, p) == job[w].pc = "part" /\ job[w].pay = p
PaidIsConfirmed ==
  \A p \in Payment :
    [](\A w \in Worker : ~PartOf(w, p))
      => ((checkout[p] = "paid") ~> (confirmed[p] > 0))

\* A confirmation is applied once, however many notices and staff entries bring it at
\* the same time: a second time only where a failure mark, written by id after the
\* first, has hidden that it was.
AppliedOnce ==
  [][\A p \in Payment : confirmed[p] > 0 /\ confirmed'[p] # confirmed[p]
                           => payment[p].status = "FAILED"]_vars

-----------------------------------------------------------------------------
(* How rows, jobs, numbers and cards refer to one another: what the safety *)
(* properties above rest on, and with them an inductive invariant.         *)

\* A payment tied to an enrolment is its candidate's, who has an account; one tied
\* to nobody is a guest's, and was never confirmed.
RowsTied ==
  /\ \A e \in Enrolment :
       /\ enrolment[e].status = "NONE" <=> enrolment[e].candidate = Null
       /\ enrolment[e].candidate # Null => enrolment[e].candidate \in registered
  /\ \A p \in Payment :
       /\ payment[p].status = "NONE" => payment[p].candidate = Null
       /\ payment[p].candidate = Null => payment[p].enrolment = 0
       /\ payment[p].enrolment # 0 =>
            enrolment[payment[p].enrolment].candidate = payment[p].candidate
       /\ payment[p].status # "NONE" /\ payment[p].candidate = Null =>
            payment[p].guest # Null
       /\ confirmed[p] > 0 => payment[p].candidate # Null
       /\ checkout[p] # "none" => payment[p].status # "NONE"

\* The rows a request under way names exist, and what it saw active was paid for.
JobTied(j) ==
  /\ j.pc \in PaymentPc => payment[j.pay].status # "NONE"
  /\ j.pc \in EnrolmentPc => enrolment[j.enr].status # "NONE"
  /\ j.pc \in Confirming => /\ payment[j.pay].candidate # Null
                            /\ j.enr = payment[j.pay].enrolment
  /\ j.pc \in {"complete", "reset"} =>
       /\ j.status # "NONE"
       /\ j.status \in {"ACTIVE", "COMPLETED"} => Paid(j.enr)
  /\ j.pc = "reissue" => card[j.card].holder # Null

JobsTied == \A w \in Worker : JobTied(job[w])

\* Numbers come from the sequence, each once.
NumbersTied ==
  \A c \in Candidate :
    /\ number[c] <= drawn
    /\ \A d \in Candidate : number[c] = number[d] /\ number[c] # 0 => c = d

\* A card carries its holder's number, and a retired one has a successor.
CardsTied ==
  \A k \in IdCard :
    /\ card[k].holder # Null =>
         card[k].number = number[card[k].holder] /\ card[k].number # 0
    /\ card[k].retired => \E j \in IdCard : card[j].from = k
    /\ card[k].holder = Null => card[k].from = 0 /\ ~card[k].retired

-----------------------------------------------------------------------------
(* What the repository says of the program and the code does not keep: each *)
(* of these is refuted by a run of its own.                                 *)

\* "Irreversible" (src/app/actions/payment.ts, confirmPaymentManually): a payment
\* booked as SUCCESS stays so.  A request that read it PENDING marks it FAILED.
SuccessIsIrreversible ==
  [][\A p \in Payment : payment[p].status = "SUCCESS" =>
                        payment'[p].status = "SUCCESS"]_vars

=============================================================================
