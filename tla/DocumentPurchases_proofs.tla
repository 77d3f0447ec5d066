----------------------- MODULE DocumentPurchases_proofs -----------------------
(***************************************************************************)
(* Theorems of DocumentPurchases, for any buyers, templates, codes,        *)
(* requests, prices and bounds, with and without the beta switch: type     *)
(* correctness, that the purchases implement Ownership, and that the       *)
(* library's books balance.                                                *)
(***************************************************************************)
EXTENDS DocumentPurchases, FiniteSetTheorems, TLAPS

\* What a payment was opened for.
Due(p) == <<payment[p].candidate, payment[p].template>>

\* A payment is somebody's for something from the start; an id nobody has drawn
\* has an empty row and no order at the provider.
PaymentsTied ==
  \A p \in Payment :
    IF OnRecord(p) THEN Due(p) \in Candidate \X Template
    ELSE payment[p] = NoPayment /\ checkout[p] = "none"

\* A purchase points at a payment that was opened for it.
PointsHome ==
  \A x \in Candidate \X Template :
    purchase[x].payment # 0 => OnRecord(purchase[x].payment) /\ Due(purchase[x].payment) = x

\* What was confirmed was handed over.
HandedOver == \A p \in Payment : payment[p].confirmed => purchase[Due(p)].purchased

\* What a request under way relies on.
JobTied(j) ==
  /\ j.pc \in {"priced", "first", "retry"} => j.candidate \in Candidate /\ j.template \in Template
  /\ j.pc \in {"checkout", "confirm", "confirming", "fail"} => j.pay \in Payment /\ OnRecord(j.pay)
  /\ j.pc = "checkout" => checkout[j.pay] = "none"
  /\ j.pc \in {"confirm", "confirming"} => MoneyTaken(j.pay)
  /\ j.pc = "confirming" =>
       <<j.candidate, j.template>> = Due(j.pay) /\ ~payment[j.pay].confirmed

\* One confirmation of a payment at a time, and one request to open its page.
OneAtATime ==
  \A v, w \in Worker :
    /\ job[v].pc = "confirming" /\ job[w].pc = "confirming" /\ job[v].pay = job[w].pay => v = w
    /\ job[v].pc = "checkout" /\ job[w].pc = "checkout" /\ job[v].pay = job[w].pay => v = w

Opening(p) == \E w \in Worker : job[w].pc = "checkout" /\ job[w].pay = p

RowsInv == PaymentsTied /\ PointsHome /\ HandedOver
JobsInv == (\A w \in Worker : JobTied(job[w])) /\ OneAtATime
Inv == TypeOK /\ RowsInv /\ JobsInv

-----------------------------------------------------------------------------
(* Types.                                                                  *)

LEMMA Empties == /\ NoPayment \in PaymentRow
                 /\ NoPurchase \in PurchaseRow
                 /\ Idle \in Job
                 /\ Idle.pc = "idle"
BY DEF NoPayment, NoPurchase, Idle, PaymentRow, PurchaseRow, Job, PaymentStatus

LEMMA PaymentsAreNumbers == 0 \notin Payment /\ Payment \subseteq Nat
BY DocumentAssumption DEF Payment

\* A discount is at most the price: what is due is never negative.
LEMMA AmountIsNatural ==
  ASSUME TypeOK, NEW t \in Template, NEW d PROVE AmountDue(t, d) \in Nat
<1>1. template[t].price \in Nat /\ Discount \in Nat
  BY DocumentAssumption DEF TypeOK, TemplateRow
<1>2. DiscountOff(t) \in Nat /\ DiscountOff(t) <= template[t].price
  BY <1>1 DEF DiscountOff
<1> QED BY <1>1, <1>2 DEF AmountDue

LEMMA InitInv == Init => Inv
<1> SUFFICES ASSUME Init PROVE Inv
  OBVIOUS
<1>1. /\ payment = [p \in Payment |-> NoPayment]
      /\ purchase = [x \in Candidate \X Template |-> NoPurchase]
      /\ checkout = [p \in Payment |-> "none"]
      /\ job = [w \in Worker |-> Idle]
  BY DEF Init
<1>2. TypeOK
  <2>1. template \in [Template -> TemplateRow] /\ code \in [Code -> CodeRow]
    <3>1. [active : {TRUE}, price : Price, sold : {0}, revenue : {0}] \subseteq TemplateRow
      <4> SUFFICES ASSUME NEW r \in [active : {TRUE}, price : Price, sold : {0}, revenue : {0}]
                   PROVE  r \in TemplateRow
        OBVIOUS
      <4>1. /\ r = [active |-> r.active, price |-> r.price, sold |-> r.sold, revenue |-> r.revenue]
            /\ r.active \in {TRUE} /\ r.price \in Price /\ r.sold \in {0} /\ r.revenue \in {0}
        OBVIOUS
      <4>2. {TRUE} \subseteq BOOLEAN /\ {0} \subseteq Nat
        OBVIOUS
      <4> QED BY <4>1, <4>2, Zenon DEF TemplateRow
    <3>2. template \in [Template -> [active : {TRUE}, price : Price, sold : {0}, revenue : {0}]]
      BY DEF Init
    <3>3. code = [d \in Code |-> [active |-> TRUE, redeemed |-> 0]]
      BY DEF Init
    <3>4. [active |-> TRUE, redeemed |-> 0] \in CodeRow
      BY DEF CodeRow
    <3> QED BY <3>1, <3>2, <3>3, <3>4
  <2>2. /\ payment \in [Payment -> PaymentRow] /\ job \in [Worker -> Job]
        /\ purchase \in [Candidate \X Template -> PurchaseRow]
        /\ checkout \in [Payment -> {"none", "open", "paid"}]
    BY <1>1, Empties
  <2> QED BY <2>1, <2>2 DEF TypeOK, Init
<1>3. RowsInv
  BY <1>1 DEF RowsInv, PaymentsTied, PointsHome, HandedOver, OnRecord, NoPayment, NoPurchase
<1>4. JobsInv
  BY <1>1, Empties DEF JobsInv, JobTied, OneAtATime
<1> QED BY <1>2, <1>3, <1>4 DEF Inv

\* A worker's next job, and the rows it finds in its own.
LEMMA JobIsTyped == ASSUME TypeOK, NEW w \in Worker PROVE job[w] \in Job
BY DEF TypeOK

LEMMA JobsTyped ==
  ASSUME TypeOK, NEW w \in Worker, NEW j \in Job, job' = [job EXCEPT ![w] = j]
  PROVE  /\ job' \in [Worker -> Job]
         /\ job'[w] = j
         /\ \A v \in Worker : v # w => job'[v] = job[v]
BY DEF TypeOK

-----------------------------------------------------------------------------
(* What is kept.                                                           *)

\* Payments stay what they were opened for, and money taken stays taken.
Grows ==
  \A p \in Payment :
    /\ OnRecord(p) => OnRecord(p)' /\ Due(p)' = Due(p)
    /\ MoneyTaken(p) => MoneyTaken(p)'

\* A worker takes up a job that is in order; the others' stay in order as long as
\* nothing is confirmed that they are confirming.
LEMMA JobsKept ==
  ASSUME TypeOK, JobsInv, Grows,
         NEW w \in Worker, NEW j \in Job, job' = [job EXCEPT ![w] = j],
         JobTied(j)',
         j.pc = "confirming" => ~PaymentLocked(j.pay),
         j.pc = "checkout" => ~Opening(j.pay),
         \A v \in Worker : v # w =>
           /\ job[v].pc = "confirming"
                => payment'[job[v].pay].confirmed = payment[job[v].pay].confirmed
           /\ job[v].pc = "checkout" => checkout'[job[v].pay] = checkout[job[v].pay]
  PROVE  JobsInv'
<1>1. job'[w] = j /\ \A v \in Worker : v # w => job'[v] = job[v]
  BY JobsTyped
<1>2. ASSUME NEW v \in Worker PROVE JobTied(job[v])'
  <2>1. CASE v = w
    BY <2>1, <1>1 DEF JobTied, OnRecord, MoneyTaken, Due
  <2>2. CASE v # w
    <3>1. JobTied(job[v]) /\ job'[v] = job[v]
      BY <2>2, <1>1 DEF JobsInv
    <3> QED BY <2>2, <3>1 DEF JobTied, Grows, OnRecord, MoneyTaken, Due
  <2> QED BY <2>1, <2>2
<1>3. OneAtATime'
  BY <1>1 DEF JobsInv, OneAtATime, PaymentLocked, Opening
<1> QED BY <1>2, <1>3 DEF JobsInv

\* Nothing of the rows changes but that an order may be opened or paid at the
\* provider for a payment that is on record.
Quiet ==
  /\ UNCHANGED <<payment, purchase>>
  /\ \A p \in Payment : OnRecord(p) \/ checkout'[p] = checkout[p]
  /\ \A p \in Payment : checkout[p] = "paid" => checkout'[p] = "paid"

LEMMA QuietKeeps == ASSUME RowsInv, Quiet PROVE RowsInv' /\ Grows
<1>1. PaymentsTied'
  BY DEF RowsInv, Quiet, PaymentsTied, OnRecord, Due
<1>2. PointsHome' /\ HandedOver'
  BY DEF RowsInv, Quiet, PointsHome, HandedOver, OnRecord, Due
<1>3. Grows
  BY DEF Quiet, Grows, OnRecord, Due, MoneyTaken
<1> QED BY <1>1, <1>2, <1>3 DEF RowsInv

\* A quiet step that gives a worker its next job.
LEMMA QuietTakes ==
  ASSUME Inv, Quiet, NEW w \in Worker, NEW j \in Job, job' = [job EXCEPT ![w] = j],
         JobTied(j),
         j.pc = "confirming" => ~PaymentLocked(j.pay),
         j.pc # "checkout",
         \A v \in Worker : v # w /\ job[v].pc = "checkout"
           => checkout'[job[v].pay] = checkout[job[v].pay]
  PROVE  RowsInv' /\ JobsInv'
<1>1. RowsInv' /\ Grows
  BY QuietKeeps DEF Inv
<1>2. JobTied(j)'
  BY <1>1 DEF JobTied, Grows, Quiet, OnRecord, MoneyTaken, Due
<1>3. JobsInv'
  BY <1>1, <1>2, JobsKept DEF Inv, Quiet
<1> QED BY <1>1, <1>3

\* A quiet step that touches no job.
LEMMA QuietSpares ==
  ASSUME Inv, Quiet, UNCHANGED job,
         \A v \in Worker : job[v].pc = "checkout"
           => checkout'[job[v].pay] = checkout[job[v].pay]
  PROVE  RowsInv' /\ JobsInv'
<1>1. RowsInv' /\ Grows
  BY QuietKeeps DEF Inv
<1>2. ASSUME NEW v \in Worker PROVE JobTied(job[v])'
  <2>1. JobTied(job[v])
    BY DEF Inv, JobsInv
  <2> QED BY <1>1, <2>1 DEF JobTied, Grows, Quiet, OnRecord, MoneyTaken, Due
<1>3. OneAtATime'
  BY DEF Inv, JobsInv, OneAtATime
<1> QED BY <1>1, <1>2, <1>3 DEF JobsInv

LEMMA IdleIsTied == JobTied(Idle)
BY Empties DEF JobTied

-----------------------------------------------------------------------------
(* One lemma per action.                                                   *)

LEMMA PriceStep ==
  ASSUME Inv, NEW w \in Worker, NEW c \in Candidate, NEW t \in Template,
         NEW d \in Code \cup {Null}, PricePurchase(w, c, t, d)
  PROVE  Inv'
<1>1. PICK j : j = [Idle EXCEPT !.pc = "priced", !.candidate = c, !.template = t,
                                !.code = d, !.amount = AmountDue(t, d)]
  OBVIOUS
<1>2. AmountDue(t, d) \in Nat
  BY AmountIsNatural DEF Inv
<1>3. j \in Job /\ j.pc = "priced" /\ j.candidate = c /\ j.template = t
  BY <1>1, <1>2, Empties DEF Idle, Job
<1>4. /\ job' = [job EXCEPT ![w] = j]
      /\ UNCHANGED <<template, code, payment, purchase, checkout, events, deaths, edits>>
  BY <1>1 DEF PricePurchase, catalogue, bounds
<1>5. Quiet /\ JobTied(j)
  BY <1>3, <1>4 DEF Quiet, JobTied
<1>6. RowsInv' /\ JobsInv'
  BY <1>3, <1>4, <1>5, QuietTakes
<1>7. TypeOK'
  BY <1>3, <1>4, JobsTyped DEF Inv, TypeOK
<1> QED BY <1>6, <1>7 DEF Inv

LEMMA FindStep == ASSUME Inv, NEW w \in Worker, FindPurchase(w) PROVE Inv'
<1>1. PICK j : /\ j \in {[job[w] EXCEPT !.pc = "first"], [job[w] EXCEPT !.pc = "retry"], Idle}
               /\ job' = [job EXCEPT ![w] = j]
  BY DEF FindPurchase
<1>2. /\ UNCHANGED <<template, code, payment, purchase, checkout, events, deaths, edits>>
      /\ job[w].pc = "priced"
  BY DEF FindPurchase, catalogue, bounds
<1>3. job[w] \in Job /\ JobTied(job[w])
  BY JobIsTyped DEF Inv, JobsInv
<1>4. j \in Job /\ JobTied(j) /\ j.pc \notin {"confirming", "checkout"}
  <2>1. CASE j = Idle
    BY <2>1, Empties, IdleIsTied
  <2>2. CASE j = [job[w] EXCEPT !.pc = "first"]
    <3>1. j \in Job /\ j.pc = "first" /\ j.candidate = job[w].candidate /\ j.template = job[w].template
      BY <2>2, <1>3 DEF Job
    <3> QED BY <3>1, <1>2, <1>3 DEF JobTied
  <2>3. CASE j = [job[w] EXCEPT !.pc = "retry"]
    <3>1. j \in Job /\ j.pc = "retry" /\ j.candidate = job[w].candidate /\ j.template = job[w].template
      BY <2>3, <1>3 DEF Job
    <3> QED BY <3>1, <1>2, <1>3 DEF JobTied
  <2> QED BY <1>1, <2>1, <2>2, <2>3
<1>5. RowsInv' /\ JobsInv'
  <2>1. Quiet
    BY <1>2 DEF Quiet
  <2> QED BY <1>1, <1>2, <1>4, <2>1, QuietTakes
<1>6. TypeOK'
  BY <1>1, <1>2, <1>4, JobsTyped DEF Inv, TypeOK
<1> QED BY <1>5, <1>6 DEF Inv

\* A request that only ends: the worker is idle, and the rows are as they were.
LEMMA EndStep ==
  ASSUME Inv, NEW w \in Worker, job' = [job EXCEPT ![w] = Idle],
         UNCHANGED <<payment, purchase>>, Quiet,
         UNCHANGED <<template, code, events, edits>>,
         checkout' \in [Payment -> {"none", "open", "paid"}], deaths' \in Nat,
         \A v \in Worker : v # w /\ job[v].pc = "checkout"
           => checkout'[job[v].pay] = checkout[job[v].pay]
  PROVE  Inv'
<1>1. RowsInv' /\ JobsInv'
  BY Empties, IdleIsTied, QuietTakes
<1>2. TypeOK'
  BY Empties, JobsTyped DEF Inv, TypeOK
<1> QED BY <1>1, <1>2 DEF Inv

\* The order is made: the page opens, or the request goes on to its failure mark.
LEMMA OpenStep ==
  ASSUME Inv, NEW w \in Worker, OpenCheckout(w) \/ LoseAnswer(w) PROVE Inv'
<1>1. /\ job[w].pc = "checkout"
      /\ checkout' = [checkout EXCEPT ![job[w].pay] = "open"]
      /\ UNCHANGED <<template, code, payment, purchase, events, deaths, edits>>
  BY DEF OpenCheckout, LoseAnswer, catalogue, bounds
<1>2. job[w].pay \in Payment /\ OnRecord(job[w].pay) /\ checkout[job[w].pay] = "none"
  BY <1>1 DEF Inv, JobsInv, JobTied
<1>3. PICK j \in Job : /\ job' = [job EXCEPT ![w] = j] /\ JobTied(j)
                       /\ j.pc \notin {"checkout", "confirm", "confirming"}
  <2>1. CASE OpenCheckout(w)
    BY <2>1, Empties, IdleIsTied DEF OpenCheckout
  <2>2. CASE LoseAnswer(w)
    <3>1. PICK j : j = [Idle EXCEPT !.pc = "fail", !.pay = job[w].pay]
      OBVIOUS
    <3>2. j \in Job /\ j.pc = "fail" /\ j.pay = job[w].pay
      BY <1>2, <3>1, Empties DEF Idle, Job
    <3>3. JobTied(j)
      BY <1>2, <3>2 DEF JobTied
    <3> QED BY <2>2, <3>1, <3>2, <3>3 DEF LoseAnswer
  <2> QED BY <2>1, <2>2
<1>4. checkout \in [Payment -> {"none", "open", "paid"}]
  BY DEF Inv, TypeOK
<1>5. Quiet
  BY <1>1, <1>2, <1>4 DEF Quiet
<1>6. ASSUME NEW v \in Worker, v # w, job[v].pc = "checkout"
      PROVE  checkout'[job[v].pay] = checkout[job[v].pay]
  BY <1>1, <1>6, <1>4 DEF Inv, JobsInv, OneAtATime
<1>7. RowsInv' /\ JobsInv'
  BY <1>3, <1>5, <1>6, QuietTakes
<1>8. TypeOK'
  BY <1>1, <1>3, <1>4, JobsTyped DEF Inv, TypeOK
<1> QED BY <1>7, <1>8 DEF Inv

LEMMA DieStep == ASSUME Inv, NEW w \in Worker, Die(w) PROVE Inv'
<1>1. /\ job' = [job EXCEPT ![w] = Idle]
      /\ UNCHANGED <<template, code, payment, purchase, checkout, events, edits>>
      /\ deaths' \in Nat
  BY DEF Die, Inv, TypeOK, catalogue
<1>2. Quiet
  BY <1>1 DEF Quiet
<1> QED BY <1>1, <1>2, EndStep DEF Inv, TypeOK

\* A request takes up a payment that is on record, to fail or to confirm it.
LEMMA TakesUp ==
  ASSUME Inv, NEW w \in Worker, NEW p \in Payment, NEW pc \in {"confirm", "fail"},
         OnRecord(p), pc = "confirm" => MoneyTaken(p),
         job' = [job EXCEPT ![w] = [Idle EXCEPT !.pc = pc, !.pay = p]],
         UNCHANGED <<payment, purchase, checkout>>
  PROVE  RowsInv' /\ JobsInv' /\ job' \in [Worker -> Job]
<1>1. PICK j : j = [Idle EXCEPT !.pc = pc, !.pay = p]
  OBVIOUS
<1>2. j \in Job /\ j.pc = pc /\ j.pay = p
  BY <1>1, Empties DEF Idle, Job
<1>3. Quiet /\ JobTied(j) /\ job' = [job EXCEPT ![w] = j]
  BY <1>1, <1>2 DEF Quiet, JobTied
<1>4. RowsInv' /\ JobsInv'
  BY <1>2, <1>3, QuietTakes
<1>5. job' \in [Worker -> Job]
  BY <1>2, <1>3, JobsTyped DEF Inv
<1> QED BY <1>4, <1>5

LEMMA NoticeStep ==
  ASSUME Inv, NEW w \in Worker, NEW n \in Notice, ReceiveNotice(w, n) PROVE Inv'
<1>1. n.payment \in Payment
  BY DEF Notice
<1>2. /\ UNCHANGED <<template, code, payment, purchase, checkout, deaths, edits>>
      /\ events' = events \cup {n}
      /\ Sent(n)
  BY DEF ReceiveNotice, catalogue, bounds
<1>3. OnRecord(n.payment)
  BY <1>1, <1>2 DEF Sent, Inv, RowsInv, PaymentsTied
<1>4. RowsInv' /\ JobsInv' /\ job' \in [Worker -> Job]
  <2>1. CASE Success(n)
    <3>1. job' = [job EXCEPT ![w] = [Idle EXCEPT !.pc = "confirm", !.pay = n.payment]]
      BY <2>1 DEF ReceiveNotice
    <3>2. MoneyTaken(n.payment)
      BY <1>2, <2>1 DEF Sent, MoneyTaken
    <3> QED BY <1>1, <1>2, <1>3, <3>1, <3>2, TakesUp
  <2>2. CASE ~Success(n) /\ payment[n.payment].status = "PENDING"
    <3>1. job' = [job EXCEPT ![w] = [Idle EXCEPT !.pc = "fail", !.pay = n.payment]]
      BY <2>2 DEF ReceiveNotice
    <3> QED BY <1>1, <1>2, <1>3, <3>1, TakesUp
  <2>3. CASE ~Success(n) /\ payment[n.payment].status # "PENDING"
    <3>1. job' = [job EXCEPT ![w] = Idle]
      BY <2>3 DEF ReceiveNotice
    <3>2. Quiet
      BY <1>2 DEF Quiet
    <3>3. RowsInv' /\ JobsInv'
      BY <1>2, <3>1, <3>2, Empties, IdleIsTied, QuietTakes
    <3> QED BY <3>1, <3>3, Empties, JobsTyped DEF Inv
  <2> QED BY <2>1, <2>2, <2>3
<1>5. TypeOK'
  <2>1. events' \subseteq Notice
    BY <1>2 DEF Inv, TypeOK
  <2> QED BY <1>2, <1>4, <2>1 DEF Inv, TypeOK
<1> QED BY <1>4, <1>5 DEF Inv

LEMMA MarkFailedStep ==
  ASSUME Inv, NEW w \in Worker, NEW p \in Payment, MarkPaymentFailed(w, p) PROVE Inv'
<1>1. /\ job' = [job EXCEPT ![w] = [Idle EXCEPT !.pc = "fail", !.pay = p]]
      /\ UNCHANGED <<template, code, payment, purchase, checkout, events, deaths, edits>>
      /\ OnRecord(p)
  BY DEF MarkPaymentFailed, catalogue, bounds, OnRecord
<1>2. RowsInv' /\ JobsInv' /\ job' \in [Worker -> Job]
  BY <1>1, TakesUp
<1>3. TypeOK'
  BY <1>1, <1>2 DEF Inv, TypeOK
<1> QED BY <1>2, <1>3 DEF Inv

\* The purchase found points at the payment, so the payment was opened for it; it is
\* not owned, so the payment was not confirmed before.
LEMMA LockStep == ASSUME Inv, NEW w \in Worker, ConfirmLock(w) PROVE Inv'
<1> DEFINE p == job[w].pay
<1>1. /\ job[w].pc = "confirm" /\ ~PaymentLocked(p)
      /\ UNCHANGED <<template, code, payment, purchase, checkout, events, deaths, edits>>
  BY DEF ConfirmLock, catalogue, bounds
<1>2. job[w] \in Job /\ p \in Payment /\ MoneyTaken(p) /\ OnRecord(p)
  BY <1>1, JobIsTyped DEF Inv, JobsInv, JobTied
<1>3. Quiet
  BY <1>1 DEF Quiet
<1>4. CASE ToConfirm(p) = {}
  <2>1. job' = [job EXCEPT ![w] = Idle]
    BY <1>4 DEF ConfirmLock
  <2> QED BY <1>1, <1>3, <2>1, EndStep DEF Inv, TypeOK
<1>5. CASE ToConfirm(p) # {}
  <2>1. PICK x \in ToConfirm(p) :
          job' = [job EXCEPT ![w] =
            [@ EXCEPT !.pc = "confirming", !.candidate = x[1], !.template = x[2],
                      !.code = purchase[x].code, !.amount = purchase[x].amount]]
    BY <1>5 DEF ConfirmLock
  <2>2. /\ x \in Candidate \X Template
        /\ purchase[x].payment = p /\ ~purchase[x].purchased
    BY DEF ToConfirm, LinkedTo
  <2>3. x[1] \in Candidate /\ x[2] \in Template /\ x = <<x[1], x[2]>>
    BY <2>2
  <2>4. Due(p) = x
    BY <1>2, <2>2, PaymentsAreNumbers DEF Inv, RowsInv, PointsHome
  <2>5. ~payment[p].confirmed
    BY <1>2, <2>2, <2>4 DEF Inv, RowsInv, HandedOver
  <2>6. purchase[x].code \in Code \cup {Null} /\ purchase[x].amount \in Nat
    BY <2>2 DEF Inv, TypeOK, PurchaseRow
  <2>7. PICK j : j = [job[w] EXCEPT !.pc = "confirming", !.candidate = x[1],
                        !.template = x[2], !.code = purchase[x].code,
                        !.amount = purchase[x].amount]
    OBVIOUS
  <2>8. /\ j \in Job /\ j.pc = "confirming" /\ j.pay = p
        /\ j.candidate = x[1] /\ j.template = x[2]
    BY <1>2, <2>3, <2>6, <2>7 DEF Job
  <2>9. JobTied(j)
    BY <1>2, <2>3, <2>4, <2>5, <2>8 DEF JobTied
  <2>10. job' = [job EXCEPT ![w] = j]
    BY <2>1, <2>7 DEF Inv, TypeOK
  <2>11. RowsInv' /\ JobsInv'
    BY <1>1, <1>3, <2>8, <2>9, <2>10, QuietTakes
  <2>12. TypeOK'
    BY <1>1, <2>8, <2>10, JobsTyped DEF Inv, TypeOK
  <2> QED BY <2>11, <2>12 DEF Inv
<1> QED BY <1>4, <1>5

LEMMA PaidStep == ASSUME Inv, NEW p \in Payment, CheckoutPaid(p) PROVE Inv'
<1>1. /\ checkout[p] = "open" /\ checkout' = [checkout EXCEPT ![p] = "paid"]
      /\ UNCHANGED <<template, code, payment, purchase, events, job, deaths, edits>>
  BY DEF CheckoutPaid, catalogue, bounds
<1>2. checkout \in [Payment -> {"none", "open", "paid"}] /\ OnRecord(p)
  BY <1>1 DEF Inv, TypeOK, RowsInv, PaymentsTied
<1>3. Quiet
  BY <1>1, <1>2 DEF Quiet
<1>4. RowsInv' /\ JobsInv'
  <2>1. ASSUME NEW v \in Worker, job[v].pc = "checkout"
        PROVE  checkout'[job[v].pay] = checkout[job[v].pay]
    BY <2>1, <1>1, <1>2 DEF Inv, JobsInv, JobTied
  <2> QED BY <1>1, <1>3, <2>1, QuietSpares
<1>5. TypeOK'
  BY <1>1, <1>2 DEF Inv, TypeOK
<1> QED BY <1>4, <1>5 DEF Inv

LEMMA LibraryStep == ASSUME Inv, Library PROVE Inv'
<1>1. UNCHANGED <<payment, purchase, checkout, events, job, deaths>>
  BY DEF Library, UpdateTemplatePrice, SetDocumentTemplateActive, SetDiscountCodeActive
<1>2. RowsInv' /\ JobsInv'
  <2>1. Quiet
    BY <1>1 DEF Quiet
  <2> QED BY <1>1, <2>1, QuietSpares
<1>3. edits' \in Nat
  BY DEF Library, UpdateTemplatePrice, SetDocumentTemplateActive, SetDiscountCodeActive,
         Edits, Inv, TypeOK
<1>4. template' \in [Template -> TemplateRow] /\ code' \in [Code -> CodeRow]
  <2>1. template \in [Template -> TemplateRow] /\ code \in [Code -> CodeRow]
    BY DEF Inv, TypeOK
  <2>2. ASSUME NEW t \in Template, NEW x \in Price, UpdateTemplatePrice(t, x)
        PROVE  template' \in [Template -> TemplateRow] /\ code' \in [Code -> CodeRow]
    <3>1. [template[t] EXCEPT !.price = x] \in TemplateRow
      BY <2>1 DEF TemplateRow
    <3> QED BY <2>1, <2>2, <3>1 DEF UpdateTemplatePrice
  <2>3. ASSUME NEW t \in Template, SetDocumentTemplateActive(t)
        PROVE  template' \in [Template -> TemplateRow] /\ code' \in [Code -> CodeRow]
    <3>1. [template[t] EXCEPT !.active = ~template[t].active] \in TemplateRow
      BY <2>1 DEF TemplateRow
    <3> QED BY <2>1, <2>3, <3>1 DEF SetDocumentTemplateActive
  <2>4. ASSUME NEW d \in Code, SetDiscountCodeActive(d)
        PROVE  template' \in [Template -> TemplateRow] /\ code' \in [Code -> CodeRow]
    <3>1. [code[d] EXCEPT !.active = ~code[d].active] \in CodeRow
      BY <2>1 DEF CodeRow
    <3> QED BY <2>1, <2>4, <3>1 DEF SetDiscountCodeActive
  <2> QED BY <2>2, <2>3, <2>4 DEF Library
<1>5. TypeOK'
  BY <1>1, <1>3, <1>4 DEF Inv, TypeOK
<1> QED BY <1>2, <1>5 DEF Inv

\* A payment is marked FAILED whatever it was; nothing else of its row changes.
LEMMA FailedStep == ASSUME Inv, NEW w \in Worker, WriteFailed(w) PROVE Inv'
<1> DEFINE p == job[w].pay
<1>1. /\ job[w].pc \in {"fail", "checkout"}
      /\ payment' = [payment EXCEPT ![p].status = "FAILED"]
      /\ job' = [job EXCEPT ![w] = Idle]
      /\ UNCHANGED <<template, code, purchase, checkout, events, deaths, edits>>
  BY DEF WriteFailed, catalogue, bounds
<1>2. p \in Payment /\ OnRecord(p)
  BY <1>1 DEF Inv, JobsInv, JobTied
<1>3. payment \in [Payment -> PaymentRow]
  BY DEF Inv, TypeOK
<1>4. PICK r : r = [payment[p] EXCEPT !.status = "FAILED"]
  OBVIOUS
<1>5. /\ r \in PaymentRow /\ r.status = "FAILED"
      /\ r.candidate = payment[p].candidate /\ r.template = payment[p].template
      /\ r.confirmed = payment[p].confirmed
  BY <1>2, <1>3, <1>4 DEF PaymentRow, PaymentStatus
<1>6. /\ payment' \in [Payment -> PaymentRow]
      /\ payment'[p] = r
      /\ \A q \in Payment : q # p => payment'[q] = payment[q]
  BY <1>1, <1>2, <1>3, <1>4, <1>5
<1>7. \A q \in Payment : /\ OnRecord(q)' <=> OnRecord(q)
                         /\ Due(q)' = Due(q)
                         /\ payment'[q].confirmed = payment[q].confirmed
                         /\ MoneyTaken(q) => MoneyTaken(q)'
  BY <1>1, <1>2, <1>5, <1>6 DEF OnRecord, Due, MoneyTaken
<1>8. Grows
  BY <1>7 DEF Grows
<1>9. RowsInv'
  <2>1. PaymentsTied'
    BY <1>1, <1>2, <1>6, <1>7 DEF Inv, RowsInv, PaymentsTied
  <2>2. PointsHome'
    BY <1>1, <1>7 DEF Inv, RowsInv, PointsHome, TypeOK, PurchaseRow
  <2>3. HandedOver'
    BY <1>1, <1>7 DEF Inv, RowsInv, HandedOver
  <2> QED BY <2>1, <2>2, <2>3 DEF RowsInv
<1>10. JobsInv'
  <2>1. \A v \in Worker : job[v].pc = "confirming" => job[v].pay \in Payment
    BY DEF Inv, JobsInv, JobTied
  <2>2. JobTied(Idle)'
    BY Empties DEF JobTied
  <2> QED BY <1>1, <1>7, <1>8, <2>1, <2>2, Empties, JobsKept DEF Inv
<1>11. TypeOK'
  BY <1>1, <1>6, Empties, JobsTyped DEF Inv, TypeOK
<1> QED BY <1>9, <1>10, <1>11 DEF Inv

\* The payment created is a fresh one, for the item of the request.
LEMMA CreateRow ==
  ASSUME Inv, NEW c \in Candidate, NEW t \in Template, NEW p \in Payment,
         NEW d \in Code \cup {Null}, NEW a \in Nat, ~OnRecord(p),
         payment' = [payment EXCEPT ![p] =
           [status |-> "PENDING", candidate |-> c, template |-> t,
            code |-> d, amount |-> a, confirmed |-> FALSE]],
         purchase' = [purchase EXCEPT ![<<c, t>>] =
           [@ EXCEPT !.payment = p, !.code = d, !.amount = a]],
         UNCHANGED checkout
  PROVE  /\ RowsInv' /\ Grows
         /\ payment' \in [Payment -> PaymentRow]
         /\ purchase' \in [Candidate \X Template -> PurchaseRow]
         /\ OnRecord(p)'
         /\ \A q \in Payment : payment'[q].confirmed = payment[q].confirmed
<1> DEFINE y == <<c, t>>
<1>1. PICK r : r = [status |-> "PENDING", candidate |-> c, template |-> t,
                    code |-> d, amount |-> a, confirmed |-> FALSE]
  OBVIOUS
<1>2. PICK x : x = [purchase[y] EXCEPT !.payment = p, !.code = d, !.amount = a]
  OBVIOUS
<1>3. /\ payment \in [Payment -> PaymentRow]
      /\ purchase \in [Candidate \X Template -> PurchaseRow]
      /\ y \in Candidate \X Template
  BY DEF Inv, TypeOK
<1>4. /\ r \in PaymentRow /\ r.status = "PENDING" /\ r.confirmed = FALSE
      /\ r.candidate = c /\ r.template = t
  BY <1>1 DEF PaymentRow, PaymentStatus
<1>5. /\ x \in PurchaseRow /\ x.payment = p /\ x.purchased = purchase[y].purchased
  BY <1>2, <1>3 DEF PurchaseRow
<1>6. /\ payment' \in [Payment -> PaymentRow]
      /\ payment'[p] = r
      /\ \A q \in Payment : q # p => payment'[q] = payment[q]
  BY <1>1, <1>3, <1>4
<1>7. /\ purchase' \in [Candidate \X Template -> PurchaseRow]
      /\ purchase'[y] = x
      /\ \A z \in Candidate \X Template : z # y => purchase'[z] = purchase[z]
  BY <1>2, <1>3, <1>5
<1>8. payment[p] = NoPayment
  BY DEF Inv, RowsInv, PaymentsTied
<1>9. /\ OnRecord(p)' /\ Due(p)' = y
      /\ \A q \in Payment : q # p => (OnRecord(q)' <=> OnRecord(q)) /\ Due(q)' = Due(q)
      /\ \A q \in Payment : payment'[q].confirmed = payment[q].confirmed
  <2>1. OnRecord(p)' /\ Due(p)' = y
    BY <1>4, <1>6 DEF OnRecord, Due
  <2>2. \A q \in Payment : q # p => (OnRecord(q)' <=> OnRecord(q)) /\ Due(q)' = Due(q)
    BY <1>6 DEF OnRecord, Due
  <2>3. payment[p].confirmed = FALSE
    BY <1>8 DEF NoPayment
  <2>4. \A q \in Payment : payment'[q].confirmed = payment[q].confirmed
    BY <1>4, <1>6, <2>3
  <2> QED BY <2>1, <2>2, <2>4
<1>10. Grows
  BY <1>9 DEF Grows, MoneyTaken
<1>11. PaymentsTied'
  BY <1>3, <1>6, <1>9 DEF Inv, RowsInv, PaymentsTied
<1>12. PointsHome'
  <2>1. ASSUME NEW z \in Candidate \X Template, NEW q, q = purchase'[z].payment, q # 0
        PROVE  OnRecord(q)' /\ Due(q)' = z
    <3>1. CASE z = y
      BY <2>1, <3>1, <1>5, <1>7, <1>9
    <3>2. CASE z # y
      <4>1. q = purchase[z].payment /\ q \in Payment
        BY <2>1, <3>2, <1>3, <1>7 DEF PurchaseRow
      <4>2. OnRecord(q) /\ Due(q) = z
        BY <2>1, <4>1 DEF Inv, RowsInv, PointsHome
      <4> QED BY <4>1, <4>2, <1>9
    <3> QED BY <3>1, <3>2
  <2> QED BY <2>1 DEF PointsHome
<1>13. HandedOver'
  <2>1. ASSUME NEW q \in Payment, payment'[q].confirmed
        PROVE  purchase[Due(q)]'.purchased
    <3>1. q # p /\ payment[q].confirmed /\ Due(q)' = Due(q)
      BY <2>1, <1>4, <1>6, <1>9
    <3>2. OnRecord(q) /\ Due(q) \in Candidate \X Template /\ purchase[Due(q)].purchased
      BY <3>1 DEF Inv, RowsInv, PaymentsTied, HandedOver, NoPayment
    <3> QED BY <3>1, <3>2, <1>5, <1>7
  <2> QED BY <2>1 DEF HandedOver
<1> QED BY <1>6, <1>7, <1>9, <1>10, <1>11, <1>12, <1>13 DEF RowsInv

LEMMA CreateStep == ASSUME Inv, NEW w \in Worker, CreatePayment(w) PROVE Inv'
<1> DEFINE j == job[w]
           c == j.candidate
           t == j.template
<1>1. /\ j.pc \in {"first", "retry"}
      /\ UNCHANGED <<template, code, checkout, events, deaths, edits>>
  BY DEF CreatePayment, catalogue, bounds
<1>2. /\ j \in Job /\ c \in Candidate /\ t \in Template
      /\ j.code \in Code \cup {Null} /\ j.amount \in Nat
  BY <1>1, JobIsTyped DEF Inv, JobsInv, JobTied, Job
<1>3. CASE j.pc = "first" /\ purchase[<<c, t>>].payment # 0
  <2>1. job' = [job EXCEPT ![w] = Idle] /\ UNCHANGED <<payment, purchase>>
    BY <1>3 DEF CreatePayment
  <2>2. Quiet
    BY <1>1, <2>1 DEF Quiet
  <2> QED BY <1>1, <2>1, <2>2, EndStep DEF Inv, TypeOK
<1>4. CASE ~(j.pc = "first" /\ purchase[<<c, t>>].payment # 0)
  <2>1. PICK p \in Payment :
          /\ NextPayment(p)
          /\ payment' = [payment EXCEPT ![p] =
               [status |-> "PENDING", candidate |-> c, template |-> t,
                code |-> j.code, amount |-> j.amount, confirmed |-> FALSE]]
          /\ purchase' = [purchase EXCEPT ![<<c, t>>] = PointedAt(@, j, p)]
          /\ job' = [job EXCEPT ![w] =
               [Idle EXCEPT !.pc = IF NombaBypass THEN "confirm" ELSE "checkout",
                            !.pay = p]]
    BY <1>4 DEF CreatePayment
  <2>2. ~OnRecord(p)
    BY <2>1 DEF NextPayment
  <2>3. purchase' = [purchase EXCEPT ![<<c, t>>] =
                       [@ EXCEPT !.payment = p, !.code = j.code, !.amount = j.amount]]
    BY <2>1 DEF PointedAt
  <2>4. /\ RowsInv' /\ Grows
        /\ payment' \in [Payment -> PaymentRow]
        /\ purchase' \in [Candidate \X Template -> PurchaseRow]
        /\ OnRecord(p)'
        /\ \A q \in Payment : payment'[q].confirmed = payment[q].confirmed
    BY <1>1, <1>2, <2>1, <2>2, <2>3, CreateRow
  <2>5. PICK k : k = [Idle EXCEPT !.pc = IF NombaBypass THEN "confirm" ELSE "checkout",
                                  !.pay = p]
    OBVIOUS
  <2>6. k \in Job /\ k.pay = p /\ k.pc = (IF NombaBypass THEN "confirm" ELSE "checkout")
    BY <2>5, Empties DEF Idle, Job
  <2>7. checkout'[p] = "none"
    BY <1>1, <2>2 DEF Inv, RowsInv, PaymentsTied
  <2>8. JobTied(k)'
    BY <2>4, <2>6, <2>7 DEF JobTied, MoneyTaken
  <2>9. ~Opening(p)
    BY <2>2 DEF Opening, Inv, JobsInv, JobTied
  <2>10. \A v \in Worker : job[v].pc = "confirming" => job[v].pay \in Payment
    BY DEF Inv, JobsInv, JobTied
  <2>11. job' = [job EXCEPT ![w] = k] /\ k.pc # "confirming"
    BY <2>1, <2>5, <2>6
  <2>12. JobsInv'
    BY <1>1, <2>4, <2>6, <2>8, <2>9, <2>10, <2>11, JobsKept DEF Inv
  <2>13. TypeOK'
    BY <1>1, <2>4, <2>6, <2>11, JobsTyped DEF Inv, TypeOK
  <2> QED BY <2>4, <2>12, <2>13 DEF Inv
<1> QED BY <1>3, <1>4

\* The confirmation books the payment it locked and hands over what it was for.
LEMMA CommitRows ==
  ASSUME Inv, NEW w \in Worker, ConfirmCommit(w)
  PROVE  /\ job[w].pay \in Payment /\ OnRecord(job[w].pay) /\ MoneyTaken(job[w].pay)
         /\ Due(job[w].pay) \in Candidate \X Template
         /\ payment[job[w].pay].confirmed = FALSE
         /\ payment' \in [Payment -> PaymentRow]
         /\ purchase' \in [Candidate \X Template -> PurchaseRow]
         /\ payment'[job[w].pay].confirmed = TRUE
         /\ \A q \in Payment : q # job[w].pay => payment'[q] = payment[q]
         /\ \A q \in Payment : (OnRecord(q)' <=> OnRecord(q)) /\ Due(q)' = Due(q)
         /\ purchase'[Due(job[w].pay)].purchased = TRUE
         /\ \A z \in Candidate \X Template :
              /\ purchase'[z].payment = purchase[z].payment
              /\ z # Due(job[w].pay) => purchase'[z] = purchase[z]
<1> DEFINE j == job[w]
           p == j.pay
           y == <<j.candidate, j.template>>
<1>1. /\ j.pc = "confirming"
      /\ payment' = [payment EXCEPT ![p].status = "SUCCESS", ![p].confirmed = TRUE]
      /\ purchase' = [purchase EXCEPT ![y].purchased = TRUE]
  BY DEF ConfirmCommit
<1>2. /\ p \in Payment /\ OnRecord(p) /\ MoneyTaken(p) /\ y = Due(p)
      /\ ~payment[p].confirmed
  BY <1>1 DEF Inv, JobsInv, JobTied
<1>3. /\ payment \in [Payment -> PaymentRow]
      /\ purchase \in [Candidate \X Template -> PurchaseRow]
  BY DEF Inv, TypeOK
<1>4. y \in Candidate \X Template
  BY <1>2 DEF Inv, RowsInv, PaymentsTied
<1>5. PICK r : r = [payment[p] EXCEPT !.status = "SUCCESS", !.confirmed = TRUE]
  OBVIOUS
<1>6. PICK x : x = [purchase[y] EXCEPT !.purchased = TRUE]
  OBVIOUS
<1>7. /\ r \in PaymentRow /\ r.status = "SUCCESS" /\ r.confirmed = TRUE
      /\ r.candidate = payment[p].candidate /\ r.template = payment[p].template
  BY <1>2, <1>3, <1>5 DEF PaymentRow, PaymentStatus
<1>8. x \in PurchaseRow /\ x.purchased = TRUE /\ x.payment = purchase[y].payment
  BY <1>3, <1>4, <1>6 DEF PurchaseRow
<1>9. /\ payment' \in [Payment -> PaymentRow]
      /\ payment'[p] = r
      /\ \A q \in Payment : q # p => payment'[q] = payment[q]
  BY <1>1, <1>2, <1>3, <1>5, <1>7
<1>10. /\ purchase' \in [Candidate \X Template -> PurchaseRow]
       /\ purchase'[y] = x
       /\ \A z \in Candidate \X Template : z # y => purchase'[z] = purchase[z]
  BY <1>1, <1>3, <1>4, <1>6, <1>8
<1>11. payment[p].confirmed = FALSE
  BY <1>2, <1>3 DEF PaymentRow
<1>12. \A q \in Payment : (OnRecord(q)' <=> OnRecord(q)) /\ Due(q)' = Due(q)
  BY <1>2, <1>7, <1>9 DEF OnRecord, Due
<1> QED BY <1>2, <1>4, <1>7, <1>8, <1>9, <1>10, <1>11, <1>12

LEMMA CommitStep == ASSUME Inv, NEW w \in Worker, ConfirmCommit(w) PROVE Inv'
<1> DEFINE j == job[w]
           p == j.pay
<1>1. /\ job' = [job EXCEPT ![w] = Idle]
      /\ UNCHANGED <<checkout, events, deaths, edits>>
      /\ j.pc = "confirming"
      /\ j \in Job
  BY JobIsTyped DEF ConfirmCommit, bounds, Inv
<1>2. /\ p \in Payment
      /\ payment' \in [Payment -> PaymentRow]
      /\ \A q \in Payment : q # p => payment'[q] = payment[q]
      /\ \A q \in Payment : (OnRecord(q)' <=> OnRecord(q)) /\ Due(q)' = Due(q)
      /\ \A z \in Candidate \X Template :
           /\ purchase'[z].payment = purchase[z].payment
           /\ z # Due(p) => purchase'[z] = purchase[z]
  BY CommitRows
<1>3. purchase'[Due(p)].purchased = TRUE /\ OnRecord(p)
  BY CommitRows
<1>4. RowsInv'
  <2>1. PaymentsTied'
    BY <1>1, <1>2, <1>3 DEF Inv, RowsInv, PaymentsTied
  <2>2. PointsHome'
    BY <1>2 DEF Inv, RowsInv, PointsHome, TypeOK, PurchaseRow
  <2>3. HandedOver'
    <3>1. ASSUME NEW q \in Payment, payment'[q].confirmed PROVE purchase'[Due(q)].purchased
      <4>1. CASE Due(q) = Due(p)
        BY <4>1, <1>3
      <4>2. CASE Due(q) # Due(p)
        <5>1. payment[q].confirmed
          BY <3>1, <4>2, <1>2
        <5>2. OnRecord(q) /\ Due(q) \in Candidate \X Template /\ purchase[Due(q)].purchased
          BY <5>1 DEF Inv, RowsInv, PaymentsTied, HandedOver, NoPayment
        <5> QED BY <4>2, <5>2, <1>2
      <4> QED BY <4>1, <4>2
    <3> QED BY <3>1, <1>2 DEF HandedOver
  <2> QED BY <2>1, <2>2, <2>3 DEF RowsInv
<1>5. JobsInv'
  <2>1. Grows
    BY <1>1, <1>2 DEF Grows, MoneyTaken
  <2>2. JobTied(Idle)'
    BY Empties DEF JobTied
  <2>3. ASSUME NEW v \in Worker, v # w, job[v].pc = "confirming"
        PROVE  payment'[job[v].pay].confirmed = payment[job[v].pay].confirmed
    BY <2>3, <1>1, <1>2 DEF Inv, JobsInv, JobTied, OneAtATime
  <2> QED BY <1>1, <2>1, <2>2, <2>3, Empties, JobsKept DEF Inv
<1>6. TypeOK'
  <2>1. purchase' \in [Candidate \X Template -> PurchaseRow]
    BY CommitRows
  <2>2. j.template \in Template
    <3>1. Due(p) \in Candidate \X Template
      BY CommitRows
    <3>2. <<j.candidate, j.template>> = Due(p)
      BY <1>1 DEF Inv, JobsInv, JobTied
    <3> QED BY <3>1, <3>2
  <2>3. template' \in [Template -> TemplateRow]
    <3>1. template \in [Template -> TemplateRow] /\ j.amount \in Nat
      BY <1>1 DEF Inv, TypeOK, Job
    <3>2. PICK r : r = [template[j.template] EXCEPT
             !.sold = template[j.template].sold + 1,
             !.revenue = template[j.template].revenue + j.amount]
      OBVIOUS
    <3>3. r \in TemplateRow
      <4>1. /\ template[j.template] \in TemplateRow
            /\ template[j.template].sold + 1 \in Nat
            /\ template[j.template].revenue + j.amount \in Nat
        BY <2>2, <3>1 DEF TemplateRow
      <4> QED BY <3>2, <4>1, Zenon DEF TemplateRow
    <3>4. template' = [template EXCEPT ![j.template] = r]
      BY <2>2, <3>1, <3>2 DEF ConfirmCommit
    <3> QED BY <3>1, <3>3, <3>4
  <2>4. code' \in [Code -> CodeRow]
    <3>1. code \in [Code -> CodeRow] /\ j.code \in Code \cup {Null}
      BY <1>1 DEF Inv, TypeOK, Job
    <3>2. CASE j.code = Null
      BY <3>1, <3>2 DEF ConfirmCommit
    <3>3. CASE j.code # Null
      <4>1. [code[j.code] EXCEPT !.redeemed = code[j.code].redeemed + 1] \in CodeRow
        BY <3>1, <3>3 DEF CodeRow
      <4> QED BY <3>1, <3>3, <4>1 DEF ConfirmCommit
    <3> QED BY <3>2, <3>3
  <2> QED BY <1>1, <1>2, <2>1, <2>3, <2>4, Empties, JobsTyped DEF Inv, TypeOK
<1> QED BY <1>4, <1>5, <1>6 DEF Inv

-----------------------------------------------------------------------------
LEMMA NextInv == Inv /\ [Next]_vars => Inv'
<1> SUFFICES ASSUME Inv, [Next]_vars PROVE Inv'
  OBVIOUS
<1>1. ASSUME NEW w \in Worker, Ordering(w) PROVE Inv'
  BY <1>1, PriceStep, FindStep, CreateStep, OpenStep DEF Ordering
<1>2. ASSUME NEW w \in Worker, Settling(w) PROVE Inv'
  BY <1>2, NoticeStep, MarkFailedStep, FailedStep, LockStep, CommitStep DEF Settling
<1>3. CASE UNCHANGED vars
  <2>1. UNCHANGED <<template, code, payment, purchase, checkout, events, job, deaths, edits>>
    BY <1>3 DEF vars, catalogue, bounds
  <2>2. Quiet
    BY <2>1 DEF Quiet
  <2>3. RowsInv' /\ JobsInv'
    BY <2>1, <2>2, QuietSpares
  <2> QED BY <2>1, <2>3 DEF Inv, TypeOK
<1> QED BY <1>1, <1>2, <1>3, DieStep, PaidStep, LibraryStep DEF Next

\* The inductive invariant behind the theorems: types; every payment is somebody's
\* for something; a purchase points at a payment made for it; what was confirmed was
\* handed over; requests under way rely on what is so.
THEOREM Invariance == Spec => []Inv
BY InitInv, NextInv, PTL DEF Spec

\* Type correctness: every row, notice and request under way is one the schema and
\* the code admit.
THEOREM TypeCorrect == Spec => []TypeOK
<1>1. Inv => TypeOK
  BY DEF Inv
<1> QED BY <1>1, Invariance, PTL

-----------------------------------------------------------------------------
(* The refinement of Ownership.                                            *)

\* Every variable of Ownership under its mapping.
LEMMA InitMaps == Init => Own!Init
<1> SUFFICES ASSUME Init PROVE Own!Init
  OBVIOUS
<1>1. /\ payment = [p \in Payment |-> NoPayment]
      /\ purchase = [x \in Candidate \X Template |-> NoPurchase]
      /\ checkout = [p \in Payment |-> "none"]
  BY DEF Init
<1>2. \A p \in Payment : ~MoneyTaken(p) /\ ~payment[p].confirmed /\ Due(p) = <<Null, Null>>
  BY <1>1 DEF MoneyTaken, OnRecord, NoPayment, Due
<1>3. \A x \in Candidate \X Template : ~purchase[x].purchased
  BY <1>1 DEF NoPurchase
<1> QED BY <1>2, <1>3 DEF Own!Init, Due

\* A step that leaves what payments are for, what is taken, booked and owned as it
\* was is a stuttering step of Ownership.
Still ==
  /\ \A p \in Payment : /\ Due(p)' = Due(p)
                        /\ MoneyTaken(p)' <=> MoneyTaken(p)
                        /\ payment'[p].confirmed <=> payment[p].confirmed
  /\ \A x \in Candidate \X Template : purchase'[x].purchased <=> purchase[x].purchased

LEMMA StillStutters == Still => UNCHANGED Own!vars
<1> SUFFICES ASSUME Still PROVE UNCHANGED Own!vars
  OBVIOUS
<1> USE DEF Still, Due
<1>1. UNCHANGED [p \in Payment |-> <<payment[p].candidate, payment[p].template>>]
  OBVIOUS
<1>2. UNCHANGED {p \in Payment : MoneyTaken(p)}
  OBVIOUS
<1>3. UNCHANGED {p \in Payment : payment[p].confirmed}
  OBVIOUS
<1>4. UNCHANGED {x \in Candidate \X Template : purchase[x].purchased}
  OBVIOUS
<1> QED BY <1>1, <1>2, <1>3, <1>4 DEF Own!vars

\* Opening a payment is opening an order; under the beta switch it is paid at once.
LEMMA CreateMaps ==
  ASSUME Inv, Inv', NEW w \in Worker, CreatePayment(w) PROVE [Own!Next]_(Own!vars)
<1> DEFINE j == job[w]
           c == j.candidate
           t == j.template
<1>1. j.pc \in {"first", "retry"} /\ UNCHANGED checkout
  BY DEF CreatePayment
<1>2. /\ c \in Candidate /\ t \in Template
      /\ j.code \in Code \cup {Null} /\ j.amount \in Nat
  BY <1>1, JobIsTyped DEF Inv, JobsInv, JobTied, Job
<1>3. CASE j.pc = "first" /\ purchase[<<c, t>>].payment # 0
  <2>1. UNCHANGED <<payment, purchase>>
    BY <1>3 DEF CreatePayment
  <2>2. Still
    BY <1>1, <2>1 DEF Still, Due, MoneyTaken, OnRecord
  <2> QED BY <2>2, StillStutters
<1>4. CASE ~(j.pc = "first" /\ purchase[<<c, t>>].payment # 0)
  <2>1. PICK p \in Payment :
          /\ NextPayment(p)
          /\ payment' = [payment EXCEPT ![p] =
               [status |-> "PENDING", candidate |-> c, template |-> t,
                code |-> j.code, amount |-> j.amount, confirmed |-> FALSE]]
          /\ purchase' = [purchase EXCEPT ![<<c, t>>] = PointedAt(@, j, p)]
    BY <1>4 DEF CreatePayment
  <2>2. /\ ~OnRecord(p) /\ payment[p] = NoPayment /\ checkout[p] = "none"
    BY <2>1 DEF NextPayment, Inv, RowsInv, PaymentsTied
  <2>3. /\ payment \in [Payment -> PaymentRow]
        /\ purchase \in [Candidate \X Template -> PurchaseRow]
        /\ <<c, t>> \in Candidate \X Template
    BY <1>2 DEF Inv, TypeOK
  <2>4. /\ Due(p)' = <<c, t>> /\ payment'[p].confirmed = FALSE /\ OnRecord(p)'
        /\ \A q \in Payment : q # p => payment'[q] = payment[q]
    BY <2>1, <2>3 DEF Due, OnRecord
  <2>5. \A z \in Candidate \X Template : purchase'[z].purchased = purchase[z].purchased
    <3>1. PointedAt(purchase[<<c, t>>], j, p).purchased = purchase[<<c, t>>].purchased
      BY <2>3 DEF PointedAt, PurchaseRow
    <3> QED BY <2>1, <2>3, <3>1
  <2>6. Due(p) = <<Null, Null>> /\ payment[p].confirmed = FALSE /\ ~MoneyTaken(p)
    BY <2>2 DEF Due, NoPayment, MoneyTaken
  <2>7. \A q \in Payment : q # p => /\ Due(q)' = Due(q)
                                    /\ MoneyTaken(q)' <=> MoneyTaken(q)
                                    /\ payment'[q].confirmed = payment[q].confirmed
    BY <1>1, <2>4 DEF Due, MoneyTaken, OnRecord
  <2>8. [q \in Payment |-> Due(q)]' = [[q \in Payment |-> Due(q)] EXCEPT ![p] = <<c, t>>]
    BY <2>4, <2>7
  <2>9. {q \in Payment : MoneyTaken(q)}' \in
          {{q \in Payment : MoneyTaken(q)}, {q \in Payment : MoneyTaken(q)} \cup {p}}
    <3>1. CASE MoneyTaken(p)'
      BY <3>1, <2>7
    <3>2. CASE ~MoneyTaken(p)'
      BY <3>2, <2>6, <2>7
    <3> QED BY <3>1, <3>2
  <2>10. UNCHANGED {q \in Payment : payment[q].confirmed}
    BY <2>4, <2>6, <2>7
  <2>11. UNCHANGED {z \in Candidate \X Template : purchase[z].purchased}
    BY <2>5
  <2>12. PICK x \in Candidate \X Template : x = <<c, t>>
    BY <2>3
  <2>13. Own!Open(p, x)
    <3>1. [q \in Payment |-> Due(q)][p] = <<Null, Null>>
      BY <2>6
    <3> QED BY <2>8, <2>9, <2>10, <2>11, <2>12, <3>1, Zenon DEF Own!Open, Due
  <2> QED BY <2>13 DEF Own!Next
<1> QED BY <1>3, <1>4

LEMMA PaidMaps ==
  ASSUME Inv, NEW p \in Payment, CheckoutPaid(p) PROVE Own!Next
<1>1. /\ checkout[p] = "open" /\ checkout' = [checkout EXCEPT ![p] = "paid"]
      /\ UNCHANGED <<payment, purchase>>
      /\ checkout \in [Payment -> {"none", "open", "paid"}]
  BY DEF CheckoutPaid, Inv, TypeOK
<1>2. OnRecord(p) /\ Due(p) \in Candidate \X Template
  BY <1>1 DEF Inv, RowsInv, PaymentsTied
<1>3. Due(p) # <<Null, Null>>
  BY <1>2, DocumentAssumption
<1>4. MoneyTaken(p)' /\ \A q \in Payment : q # p => (MoneyTaken(q)' <=> MoneyTaken(q))
  BY <1>1 DEF MoneyTaken, OnRecord
<1>5. {q \in Payment : MoneyTaken(q)}' = {q \in Payment : MoneyTaken(q)} \cup {p}
  BY <1>4
<1>6. Own!Take(p)
  BY <1>1, <1>3, <1>5 DEF Own!Take, Due
<1> QED BY <1>6 DEF Own!Next

LEMMA CommitMaps ==
  ASSUME Inv, NEW w \in Worker, ConfirmCommit(w) PROVE Own!Next
<1>0. PICK p \in Payment : p = job[w].pay
  BY CommitRows
<1>1. /\ MoneyTaken(p) /\ payment[p].confirmed = FALSE
      /\ Due(p) \in Candidate \X Template
      /\ payment'[p].confirmed = TRUE
      /\ \A q \in Payment : q # p => payment'[q] = payment[q]
      /\ \A q \in Payment : (OnRecord(q)' <=> OnRecord(q)) /\ Due(q)' = Due(q)
      /\ purchase'[Due(p)].purchased = TRUE
      /\ \A z \in Candidate \X Template : z # Due(p) => purchase'[z] = purchase[z]
  BY <1>0, CommitRows
<1>2. UNCHANGED checkout
  BY DEF ConfirmCommit
<1>3. UNCHANGED [q \in Payment |-> Due(q)]
  BY <1>1
<1>4. UNCHANGED {q \in Payment : MoneyTaken(q)}
  BY <1>1, <1>2 DEF MoneyTaken
<1>5. {q \in Payment : payment[q].confirmed}' = {q \in Payment : payment[q].confirmed} \cup {p}
  BY <1>1
<1>6. {z \in Candidate \X Template : purchase[z].purchased}'
        = {z \in Candidate \X Template : purchase[z].purchased} \cup {Due(p)}
  BY <1>1
<1>7. Own!Book(p)
  <2>1. [q \in Payment |-> Due(q)][p] = Due(p)
    BY <1>1
  <2>2. p \in {q \in Payment : MoneyTaken(q)} \ {q \in Payment : payment[q].confirmed}
    BY <1>1
  <2> QED BY <1>3, <1>4, <1>5, <1>6, <2>1, <2>2, Zenon DEF Own!Book, Due
<1> QED BY <1>7 DEF Own!Next

LEMMA FailedMaps ==
  ASSUME Inv, NEW w \in Worker, WriteFailed(w) PROVE UNCHANGED Own!vars
<1> DEFINE p == job[w].pay
<1>1. /\ job[w].pc \in {"fail", "checkout"}
      /\ payment' = [payment EXCEPT ![p].status = "FAILED"]
      /\ UNCHANGED <<purchase, checkout>>
      /\ payment \in [Payment -> PaymentRow]
  BY DEF WriteFailed, Inv, TypeOK
<1>2. p \in Payment /\ OnRecord(p)
  BY <1>1 DEF Inv, JobsInv, JobTied
<1>3. \A q \in Payment : /\ payment'[q].candidate = payment[q].candidate
                         /\ payment'[q].template = payment[q].template
                         /\ payment'[q].confirmed = payment[q].confirmed
  BY <1>1, <1>2 DEF PaymentRow
<1>4. \A q \in Payment : OnRecord(q)' <=> OnRecord(q)
  BY <1>1, <1>2 DEF OnRecord, PaymentRow
<1>5. Still
  BY <1>1, <1>3, <1>4 DEF Still, Due, MoneyTaken
<1> QED BY <1>5, StillStutters

\* Every other step leaves payments, purchases and what is paid alone.
LEMMA OthersMap ==
  ASSUME UNCHANGED <<payment, purchase>>,
         \A p \in Payment : checkout'[p] = "paid" <=> checkout[p] = "paid"
  PROVE  UNCHANGED Own!vars
<1>1. Still
  BY DEF Still, Due, MoneyTaken, OnRecord
<1> QED BY <1>1, StillStutters

LEMMA OpenMaps ==
  ASSUME Inv, NEW w \in Worker, OpenCheckout(w) \/ LoseAnswer(w)
  PROVE  UNCHANGED Own!vars
<1>1. /\ job[w].pc = "checkout"
      /\ checkout' = [checkout EXCEPT ![job[w].pay] = "open"]
      /\ checkout \in [Payment -> {"none", "open", "paid"}]
      /\ UNCHANGED <<payment, purchase>>
  BY DEF OpenCheckout, LoseAnswer, Inv, TypeOK
<1>2. checkout[job[w].pay] = "none"
  BY <1>1 DEF Inv, JobsInv, JobTied
<1> QED BY <1>1, <1>2, OthersMap

LEMMA NextMaps == Inv /\ Inv' /\ [Next]_vars => [Own!Next]_(Own!vars)
<1> SUFFICES ASSUME Inv, Inv', [Next]_vars PROVE [Own!Next]_(Own!vars)
  OBVIOUS
<1>1. ASSUME NEW w \in Worker, Ordering(w) PROVE [Own!Next]_(Own!vars)
  <2>1. CASE \E c \in Candidate, t \in Template, d \in Code \cup {Null} : PricePurchase(w, c, t, d)
    <3>1. UNCHANGED <<payment, purchase, checkout>>
      BY <2>1 DEF PricePurchase
    <3> QED BY <3>1, OthersMap
  <2>2. CASE FindPurchase(w)
    <3>1. UNCHANGED <<payment, purchase, checkout>>
      BY <2>2 DEF FindPurchase
    <3> QED BY <3>1, OthersMap
  <2> QED BY <1>1, <2>1, <2>2, CreateMaps, OpenMaps DEF Ordering
<1>2. ASSUME NEW w \in Worker, Settling(w) PROVE [Own!Next]_(Own!vars)
  <2>1. CASE (\E n \in Notice : ReceiveNotice(w, n)) \/ (\E p \in Payment : MarkPaymentFailed(w, p))
    <3>1. UNCHANGED <<payment, purchase, checkout>>
      BY <2>1 DEF ReceiveNotice, MarkPaymentFailed
    <3> QED BY <3>1, OthersMap
  <2>2. CASE ConfirmLock(w)
    <3>1. UNCHANGED <<payment, purchase, checkout>>
      BY <2>2 DEF ConfirmLock
    <3> QED BY <3>1, OthersMap
  <2> QED BY <1>2, <2>1, <2>2, FailedMaps, CommitMaps DEF Settling
<1>3. CASE \E w \in Worker : Die(w)
  <2>1. UNCHANGED <<payment, purchase, checkout>>
    BY <1>3 DEF Die
  <2> QED BY <2>1, OthersMap
<1>4. CASE Library
  <2>1. UNCHANGED <<payment, purchase, checkout>>
    BY <1>4 DEF Library, UpdateTemplatePrice, SetDocumentTemplateActive, SetDiscountCodeActive
  <2> QED BY <2>1, OthersMap
<1>5. CASE UNCHANGED vars
  <2>1. UNCHANGED <<payment, purchase, checkout>>
    BY <1>5 DEF vars
  <2> QED BY <2>1, OthersMap
<1> QED BY <1>1, <1>2, <1>3, <1>4, <1>5, PaidMaps DEF Next

\* The purchases implement Ownership: an order is booked at most once, only for money
\* taken; an item is handed over by the booking of an order for it, and by nothing
\* else; it is never taken back - however notices repeat, retries re-point the
\* purchase, failures overwrite payments and requests die.
THEOREM Refinement == Spec => OwnedAsPromised
<1>1. Spec => []Inv
  BY Invariance
<1>2. []Inv /\ [][Next]_vars => [][Own!Next]_(Own!vars)
  BY NextMaps, PTL
<1> QED BY <1>1, <1>2, InitMaps, PTL DEF Spec, OwnedAsPromised, Own!Spec

\* Nothing is served for which nobody paid: an owned template has a confirmed payment
\* of its buyer for it, for which money was taken.
PaidFor ==
  \A x \in Candidate \X Template : purchase[x].purchased =>
    \E p \in Payment : payment[p].confirmed /\ MoneyTaken(p) /\ Due(p) = x

\* It follows from the promise of Ownership alone: whatever step of it this one is.
LEMMA OwnershipPays ==
  ASSUME Inv, PaidFor, [Own!Next]_(Own!vars)
  PROVE  PaidFor'
<1> DEFINE due == [p \in Payment |-> Due(p)]
           taken == {p \in Payment : MoneyTaken(p)}
           booked == {p \in Payment : payment[p].confirmed}
           owned == {x \in Candidate \X Template : purchase[x].purchased}
<1>1. ASSUME NEW p \in Payment, payment[p].confirmed
      PROVE  due[p] # <<Null, Null>>
  <2>1. Due(p) \in Candidate \X Template
    BY <1>1 DEF Inv, RowsInv, PaymentsTied, NoPayment
  <2> QED BY <2>1, DocumentAssumption
<1>2. \A x \in owned : \E p \in booked : p \in taken /\ due[p] = x
  BY DEF PaidFor
<1>3. \/ UNCHANGED <<due, taken, booked, owned>>
      \/ \E o \in Payment :
           \/ taken' = taken \cup {o} /\ UNCHANGED <<due, booked, owned>>
           \/ /\ o \in taken \ booked
              /\ booked' = booked \cup {o} /\ owned' = owned \cup {due[o]}
              /\ UNCHANGED <<due, taken>>
           \/ /\ due[o] = <<Null, Null>> /\ \E x : due' = [due EXCEPT ![o] = x]
              /\ taken' \in {taken, taken \cup {o}}
              /\ UNCHANGED <<booked, owned>>
  BY DEF Own!Next, Own!vars, Own!Open, Own!Take, Own!Book, Due
<1>4. booked \subseteq Payment /\ \A p \in booked : due[p] # <<Null, Null>>
  BY <1>1
<1>5. due = [p \in Payment |-> due[p]]
  OBVIOUS
<1>6. SUFFICES \A x \in owned' : \E p \in booked' : p \in taken' /\ due'[p] = x
  BY DEF PaidFor
<1> HIDE DEF due, taken, booked, owned
<1> QED BY <1>2, <1>3, <1>4, <1>5

\* Whoever owns a document of the library paid for it, whichever requests crossed.
THEOREM OwnedIsPaid == Spec => []PaidFor
<1>1. Init => PaidFor
  BY DEF Init, PaidFor, NoPurchase
<1>2. Inv /\ Inv' /\ PaidFor /\ [Next]_vars => PaidFor'
  BY NextMaps, OwnershipPays
<1> QED BY <1>1, <1>2, Invariance, PTL DEF Spec

-----------------------------------------------------------------------------
(* Sums.  Total is a recursive function; that it exists, and what one      *)
(* summand more adds to it, is shown by looking at the first id where it   *)
(* would go wrong.                                                         *)

IsRunningTotal(f, a, N) ==
  f = [n \in 0 .. N |-> IF n = 0 THEN 0 ELSE f[n - 1] + a[n]]

\* A set of natural numbers has a least one, unless it is empty.
LEMMA LeastNumber ==
  ASSUME NEW B \in SUBSET Nat, B # {}
  PROVE  \E m \in B : \A k \in B : m <= k
<1>1. PICK m \in B : \A k \in B : ~(<<k, m>> \in OpToRel(<, Nat))
  BY NatLessThanWellFounded, WFMin
<1>2. \A k \in B : ~(k < m)
  BY <1>1 DEF OpToRel
<1> QED BY <1>2

LEMMA RunningTotalExists ==
  ASSUME NEW N \in Nat, NEW a \in [1 .. N -> Nat]
  PROVE  \E f : IsRunningTotal(f, a, N)
<1> DEFINE B == {n \in 0 .. N : ~\E f : IsRunningTotal(f, a, n)}
<1>1. B \in SUBSET Nat /\ \A n \in 0 .. N : n \in B <=> ~\E f : IsRunningTotal(f, a, n)
  OBVIOUS
<1>2. B \subseteq 0 .. N
  OBVIOUS
<1> HIDE DEF B
<1>3. ASSUME B # {} PROVE FALSE
  <2>1. PICK m \in B : \A k \in B : m <= k
    BY <1>3, <1>1, LeastNumber
  <2>2. CASE m = 0
    <3>1. IsRunningTotal([n \in 0 .. 0 |-> 0], a, 0)
      BY DEF IsRunningTotal
    <3> QED BY <1>1, <2>1, <2>2, <3>1
  <2>3. CASE m # 0
    <3>1. m \in 1 .. N /\ m - 1 \in 0 .. N /\ m - 1 \notin B
      BY <1>2, <2>1, <2>3
    <3>2. PICK f : IsRunningTotal(f, a, m - 1)
      BY <1>1, <3>1
    <3> DEFINE g == [n \in 0 .. m |-> IF n = m THEN f[m - 1] + a[m] ELSE f[n]]
    <3>3. m \in Nat /\ m > 0
      BY <3>1
    <3>4. ASSUME NEW n \in 0 .. m
          PROVE  g[n] = IF n = 0 THEN 0 ELSE g[n - 1] + a[n]
      <4>1. CASE n = m
        BY <3>3, <4>1
      <4>2. CASE n # m
        <5>1. n \in 0 .. m - 1 /\ (n # 0 => n - 1 \in 0 .. m /\ n - 1 # m)
          BY <3>3, <4>2
        <5>2. f[n] = IF n = 0 THEN 0 ELSE f[n - 1] + a[n]
          BY <3>2, <5>1 DEF IsRunningTotal
        <5> QED BY <4>2, <5>1, <5>2
      <4> QED BY <4>1, <4>2
    <3>5. IsRunningTotal(g, a, m)
      BY <3>4 DEF IsRunningTotal
    <3> QED BY <1>1, <2>1, <3>1, <3>5
  <2> QED BY <2>2, <2>3
<1> QED BY <1>3, <1>1

\* The definition's LET is such a function.
LEMMA TotalRuns ==
  ASSUME NEW a \in [Payment -> Nat]
  PROVE  \E f : IsRunningTotal(f, a, MaxPayments) /\ Total(a) = f[MaxPayments]
<1>1. \E f : IsRunningTotal(f, a, MaxPayments)
  BY RunningTotalExists, DocumentAssumption DEF Payment
<1> DEFINE h == CHOOSE f : f = [n \in 0 .. MaxPayments |-> IF n = 0 THEN 0 ELSE f[n - 1] + a[n]]
<1>2. IsRunningTotal(h, a, MaxPayments)
  BY <1>1 DEF IsRunningTotal
<1>3. Total(a) = h[MaxPayments]
  BY DEF Total
<1> QED BY <1>2, <1>3

\* Two running totals whose summands differ at one id, and by how much they differ.
LEMMA TotalsDiffer ==
  ASSUME NEW a \in [Payment -> Nat], NEW b \in [Payment -> Nat],
         NEW p \in Payment, NEW x \in Nat, b[p] = a[p] + x,
         \A q \in Payment : q # p => b[q] = a[q],
         NEW f, NEW g,
         IsRunningTotal(f, a, MaxPayments), IsRunningTotal(g, b, MaxPayments)
  PROVE  g[MaxPayments] = f[MaxPayments] + x
<1>1. PICK N \in Nat : N = MaxPayments /\ Payment = 1 .. N
  BY DocumentAssumption DEF Payment
<1> DEFINE Off(n) == IF n < p THEN 0 ELSE x
           B == {n \in 0 .. N : ~(f[n] \in Nat /\ g[n] = f[n] + Off(n))}
<1>2. B \in SUBSET Nat /\ \A n \in 0 .. N : n \in B <=> ~(f[n] \in Nat /\ g[n] = f[n] + Off(n))
  OBVIOUS
<1>3. B \subseteq 0 .. N
  OBVIOUS
<1> HIDE DEF B
<1>4. ASSUME B # {} PROVE FALSE
  <2>1. PICK m \in B : \A k \in B : m <= k
    BY <1>4, <1>2, LeastNumber
  <2>2. /\ f[m] = IF m = 0 THEN 0 ELSE f[m - 1] + a[m]
        /\ g[m] = IF m = 0 THEN 0 ELSE g[m - 1] + b[m]
    BY <1>3, <1>1, <2>1 DEF IsRunningTotal
  <2>3. CASE m = 0
    BY <1>2, <1>3, <1>1, <2>1, <2>2, <2>3
  <2>4. CASE m # 0
    <3>1. m - 1 \in 0 .. N /\ m - 1 \notin B /\ m \in 1 .. N
      BY <1>3, <2>1, <2>4
    <3>2. f[m - 1] \in Nat /\ g[m - 1] = f[m - 1] + Off(m - 1)
      BY <1>2, <3>1
    <3>3. a[m] \in Nat /\ b[m] \in Nat /\ b[m] = IF m = p THEN a[m] + x ELSE a[m]
      BY <1>1, <3>1
    <3>4. f[m] = f[m - 1] + a[m] /\ g[m] = g[m - 1] + b[m]
      BY <2>2, <2>4
    <3>5. PICK u, v \in Nat : u = f[m - 1] /\ v = a[m]
      BY <3>2, <3>3
    <3>6. f[m] = u + v /\ g[m] = u + Off(m - 1) + b[m]
      BY <3>2, <3>4, <3>5
    <3>7. Off(m - 1) + b[m] = v + Off(m)
      <4>1. CASE m < p
        BY <1>1, <3>1, <3>3, <3>5, <4>1
      <4>2. CASE m = p
        BY <1>1, <3>1, <3>3, <3>5, <4>2
      <4>3. CASE m > p
        BY <1>1, <3>1, <3>3, <3>5, <4>3
      <4> QED BY <1>1, <3>1, <4>1, <4>2, <4>3
    <3>8. Off(m) \in Nat /\ Off(m - 1) \in Nat
      OBVIOUS
    <3> HIDE DEF Off
    <3>9. f[m] \in Nat /\ g[m] = f[m] + Off(m)
      <4>1. PICK y, z, s \in Nat : y = Off(m) /\ z = Off(m - 1) /\ s = b[m]
        BY <3>3, <3>8
      <4>2. f[m] = u + v /\ g[m] = u + z + s /\ z + s = v + y
        BY <3>6, <3>7, <4>1
      <4>3. f[m] \in Nat /\ g[m] = f[m] + y
        BY <4>2
      <4> QED BY <4>1, <4>3
    <3> QED BY <1>2, <1>3, <2>1, <3>9
  <2> QED BY <2>3, <2>4
<1>5. g[N] = f[N] + Off(N)
  BY <1>4, <1>2
<1> QED BY <1>5, <1>1

\* One summand more.
LEMMA TotalGrows ==
  ASSUME NEW a \in [Payment -> Nat], NEW b \in [Payment -> Nat],
         NEW p \in Payment, a[p] = 0, \A q \in Payment : q # p => b[q] = a[q]
  PROVE  Total(b) = Total(a) + b[p]
<1>1. PICK f : IsRunningTotal(f, a, MaxPayments) /\ Total(a) = f[MaxPayments]
  BY TotalRuns
<1>2. PICK g : IsRunningTotal(g, b, MaxPayments) /\ Total(b) = g[MaxPayments]
  BY TotalRuns
<1>3. b[p] \in Nat /\ b[p] = a[p] + b[p]
  OBVIOUS
<1>4. PICK x \in Nat : x = b[p]
  BY <1>3
<1>5. b[p] = a[p] + x
  BY <1>3, <1>4
<1>6. IsRunningTotal(f, a, MaxPayments)
  BY <1>1
<1>7. IsRunningTotal(g, b, MaxPayments)
  BY <1>2
<1>8. \A q \in Payment : q # p => b[q] = a[q]
  OBVIOUS
<1>9. g[MaxPayments] = f[MaxPayments] + x
  BY <1>5, <1>6, <1>7, <1>8, TotalsDiffer
<1> QED BY <1>1, <1>2, <1>4, <1>9

\* Nothing adds up to nothing.
LEMMA TotalOfNothing ==
  ASSUME NEW a \in [Payment -> Nat], \A p \in Payment : a[p] = 0
  PROVE  Total(a) = 0
<1>1. PICK f : IsRunningTotal(f, a, MaxPayments) /\ Total(a) = f[MaxPayments]
  BY TotalRuns
<1>2. MaxPayments \in Nat
  BY DocumentAssumption
<1> DEFINE B == {n \in 0 .. MaxPayments : f[n] # 0}
<1>3. B \in SUBSET Nat /\ \A n \in 0 .. MaxPayments : n \in B <=> f[n] # 0
  OBVIOUS
<1>4. B \subseteq 0 .. MaxPayments
  OBVIOUS
<1> HIDE DEF B
<1>5. ASSUME B # {} PROVE FALSE
  <2>1. PICK m \in B : \A k \in B : m <= k
    BY <1>3, <1>5, LeastNumber
  <2>2. f[m] = IF m = 0 THEN 0 ELSE f[m - 1] + a[m]
    BY <1>1, <1>4, <2>1 DEF IsRunningTotal
  <2>3. m # 0 => m - 1 \in 0 .. MaxPayments /\ m - 1 \notin B /\ m \in Payment
    BY <1>2, <1>4, <2>1 DEF Payment
  <2> QED BY <1>3, <1>4, <2>1, <2>2, <2>3
<1> QED BY <1>1, <1>2, <1>3, <1>5

-----------------------------------------------------------------------------
(* The books.                                                              *)

\* A row, or a request, that goes by the code and the sum a payment was opened with.
SameTerms(y, p) == y.code = payment[p].code /\ y.amount = payment[p].amount

\* Whatever a retry re-points and whoever confirms: the purchase carries the terms of
\* the payment it points at, and a confirmation books the terms of the payment it locked.
Terms ==
  /\ \A x \in Candidate \X Template :
       purchase[x].payment # 0 => SameTerms(purchase[x], purchase[x].payment)
  /\ \A w \in Worker : job[w].pc = "confirming" => SameTerms(job[w], job[w].pay)

\* What a payment was opened with stays, and nothing is confirmed.
Unsold ==
  /\ \A p \in Payment :
       /\ payment'[p].confirmed = payment[p].confirmed
       /\ OnRecord(p) => /\ payment'[p].template = payment[p].template
                         /\ payment'[p].code = payment[p].code
                         /\ payment'[p].amount = payment[p].amount
  /\ \A t \in Template : /\ template'[t].sold = template[t].sold
                         /\ template'[t].revenue = template[t].revenue
  /\ \A d \in Code : code'[d].redeemed = code[d].redeemed

LEMMA ConfirmedIsOnRecord ==
  ASSUME Inv, NEW p \in Payment, payment[p].confirmed
  PROVE  OnRecord(p)
BY DEF Inv, RowsInv, PaymentsTied, NoPayment

LEMMA TakingsAreNumbers ==
  ASSUME TypeOK, NEW t \in Template
  PROVE  Takings(t) \in [Payment -> Nat]
BY DEF TypeOK, PaymentRow, Takings

LEMMA UnsoldBalances ==
  ASSUME Inv, BooksBalance, Unsold
  PROVE  BooksBalance'
<1>1. ASSUME NEW t \in Template
      PROVE  Booked(t)' = Booked(t) /\ Takings(t)' = Takings(t)
  <2>1. \A p \in Payment : /\ p \in Booked(t)' <=> p \in Booked(t)
                           /\ p \in Booked(t) => payment'[p].amount = payment[p].amount
    BY ConfirmedIsOnRecord DEF Unsold, Booked
  <2>2. Booked(t)' = Booked(t)
    BY <2>1 DEF Booked
  <2> QED BY <2>1, <2>2 DEF Takings
<1>2. ASSUME NEW d \in Code PROVE Redeemed(d)' = Redeemed(d)
  BY ConfirmedIsOnRecord DEF Unsold, Redeemed
<1> QED BY <1>1, <1>2 DEF BooksBalance, Unsold

LEMMA InitBooks == ASSUME Init PROVE Terms /\ BooksBalance
<1>1. Inv
  BY InitInv
<1>2. \A p \in Payment : payment[p].confirmed = FALSE
  BY DEF Init, NoPayment
<1>3. Terms
  BY DEF Init, Terms, NoPurchase, Idle
<1>4. ASSUME NEW t \in Template
      PROVE  Cardinality(Booked(t)) = 0 /\ Total(Takings(t)) = 0
  <2>1. Booked(t) = {}
    BY <1>2 DEF Booked
  <2>2. \A p \in Payment : Takings(t)[p] = 0
    BY <2>1 DEF Takings
  <2> QED BY <1>1, <2>1, <2>2, FS_EmptySet, TakingsAreNumbers, TotalOfNothing DEF Inv
<1>5. ASSUME NEW d \in Code PROVE Cardinality(Redeemed(d)) = 0
  <2>1. Redeemed(d) = {}
    BY <1>2 DEF Redeemed
  <2> QED BY <2>1, FS_EmptySet
<1>6. /\ \A t \in Template : template[t].sold = 0 /\ template[t].revenue = 0
      /\ \A d \in Code : code[d].redeemed = 0
  BY DEF Init
<1> QED BY <1>3, <1>4, <1>5, <1>6 DEF BooksBalance

\* Steps that leave the purchases alone and confirm nothing.
LEMMA TermsKept ==
  ASSUME Inv, Terms, Unsold, UNCHANGED purchase,
         \A w \in Worker : job'[w].pc = "confirming" =>
           \/ job'[w] = job[w]
           \/ /\ SameTerms(job'[w], job'[w].pay)
              /\ job'[w].pay \in Payment /\ OnRecord(job'[w].pay)
  PROVE  Terms'
<1>1. ASSUME NEW x \in Candidate \X Template, purchase'[x].payment # 0
      PROVE  SameTerms(purchase[x], purchase[x].payment)'
  <2>1. /\ purchase[x].payment \in Payment /\ OnRecord(purchase[x].payment)
        /\ SameTerms(purchase[x], purchase[x].payment)
    BY <1>1 DEF Inv, TypeOK, PurchaseRow, RowsInv, PointsHome, Terms
  <2> QED BY <2>1 DEF SameTerms, Unsold
<1>2. ASSUME NEW w \in Worker, job'[w].pc = "confirming"
      PROVE  SameTerms(job[w], job[w].pay)'
  <2>1. CASE job'[w] = job[w]
    <3>1. job[w].pay \in Payment /\ OnRecord(job[w].pay) /\ SameTerms(job[w], job[w].pay)
      BY <1>2, <2>1 DEF Inv, JobsInv, JobTied, Terms
    <3> QED BY <2>1, <3>1 DEF SameTerms, Unsold
  <2>2. CASE job'[w] # job[w]
    <3>1. /\ SameTerms(job'[w], job'[w].pay)
          /\ job'[w].pay \in Payment /\ OnRecord(job'[w].pay)
      BY <1>2, <2>2
    <3> QED BY <3>1 DEF SameTerms, Unsold
  <2> QED BY <2>1, <2>2
<1> QED BY <1>1, <1>2 DEF Terms

LEMMA CalmBooks ==
  ASSUME Inv, Terms, BooksBalance, Unsold, UNCHANGED purchase,
         \A w \in Worker : job'[w].pc = "confirming" => job'[w] = job[w]
  PROVE  Terms' /\ BooksBalance'
BY TermsKept, UnsoldBalances

\* A worker that takes up anything but the commit of a confirmation.
LEMMA WorkerBooks ==
  ASSUME Inv, Terms, BooksBalance, Unsold, UNCHANGED purchase,
         NEW w \in Worker, NEW j, job' = [job EXCEPT ![w] = j], j.pc # "confirming"
  PROVE  Terms' /\ BooksBalance'
<1>1. \A v \in Worker : job'[v] = IF v = w THEN j ELSE job[v]
  BY DEF Inv, TypeOK
<1>2. \A v \in Worker : job'[v].pc = "confirming" => job'[v] = job[v]
  BY <1>1
<1> QED BY <1>2, CalmBooks

LEMMA RowsAloneUnsold == ASSUME UNCHANGED <<template, code, payment>> PROVE Unsold
BY DEF Unsold

LEMMA OrderingBooks ==
  ASSUME Inv, Terms, BooksBalance, NEW w \in Worker,
         \/ \E c \in Candidate, t \in Template, d \in Code \cup {Null} : PricePurchase(w, c, t, d)
         \/ FindPurchase(w)
         \/ OpenCheckout(w) \/ LoseAnswer(w)
         \/ \E n \in Notice : ReceiveNotice(w, n)
         \/ \E p \in Payment : MarkPaymentFailed(w, p)
         \/ Die(w)
  PROVE  Terms' /\ BooksBalance'
<1>1. UNCHANGED <<template, code, payment, purchase>>
  BY DEF PricePurchase, FindPurchase, OpenCheckout, LoseAnswer, ReceiveNotice, MarkPaymentFailed, Die,
         catalogue
<1>2. \E j : job' = [job EXCEPT ![w] = j] /\ j.pc # "confirming"
  <2>1. ASSUME NEW c \in Candidate, NEW t \in Template, NEW d \in Code \cup {Null},
               PricePurchase(w, c, t, d)
        PROVE  \E j : job' = [job EXCEPT ![w] = j] /\ j.pc # "confirming"
    <3>1. PICK j : j = [Idle EXCEPT !.pc = "priced", !.candidate = c, !.template = t,
                                    !.code = d, !.amount = AmountDue(t, d)]
      OBVIOUS
    <3>2. j.pc # "confirming"
      BY <3>1 DEF Idle
    <3> QED BY <2>1, <3>1, <3>2 DEF PricePurchase
  <2>2. CASE FindPurchase(w)
    <3>1. job[w] \in Job
      BY JobIsTyped DEF Inv
    <3>2. PICK j : /\ j = (LET x == purchase[job[w].candidate, job[w].template] IN
                           IF x.payment = 0 THEN [job[w] EXCEPT !.pc = "first"]
                           ELSE IF ~x.purchased /\ payment[x.payment].status # "PENDING"
                           THEN [job[w] EXCEPT !.pc = "retry"]
                           ELSE Idle)
      OBVIOUS
    <3>3. j.pc # "confirming"
      BY <3>1, <3>2 DEF Job, Idle
    <3>4. job' = [job EXCEPT ![w] = j]
      BY <2>2, <3>2 DEF FindPurchase
    <3> QED BY <3>3, <3>4
  <2>3. CASE OpenCheckout(w) \/ Die(w)
    <3>1. Idle.pc # "confirming"
      BY DEF Idle
    <3> QED BY <2>3, <3>1 DEF OpenCheckout, Die
  <2>4. ASSUME NEW n \in Notice, ReceiveNotice(w, n)
        PROVE  \E j : job' = [job EXCEPT ![w] = j] /\ j.pc # "confirming"
    <3>1. PICK j : j = IF Success(n) THEN [Idle EXCEPT !.pc = "confirm", !.pay = n.payment]
                       ELSE IF payment[n.payment].status = "PENDING"
                       THEN [Idle EXCEPT !.pc = "fail", !.pay = n.payment]
                       ELSE Idle
      OBVIOUS
    <3>2. j.pc # "confirming"
      BY <3>1 DEF Idle
    <3> QED BY <2>4, <3>1, <3>2 DEF ReceiveNotice
  <2>5. ASSUME NEW p \in Payment, MarkPaymentFailed(w, p)
        PROVE  \E j : job' = [job EXCEPT ![w] = j] /\ j.pc # "confirming"
    <3>1. PICK j : j = [Idle EXCEPT !.pc = "fail", !.pay = p]
      OBVIOUS
    <3>2. j.pc # "confirming"
      BY <3>1 DEF Idle
    <3> QED BY <2>5, <3>1, <3>2 DEF MarkPaymentFailed
  <2>6. CASE LoseAnswer(w)
    <3>1. PICK j : j = [Idle EXCEPT !.pc = "fail", !.pay = job[w].pay]
      OBVIOUS
    <3>2. j.pc # "confirming"
      BY <3>1 DEF Idle
    <3> QED BY <2>6, <3>1, <3>2 DEF LoseAnswer
  <2> QED BY <2>1, <2>2, <2>3, <2>4, <2>5, <2>6
<1>3. PICK j : job' = [job EXCEPT ![w] = j] /\ j.pc # "confirming"
  BY <1>2
<1>4. Unsold
  BY <1>1, RowsAloneUnsold
<1> QED BY <1>1, <1>3, <1>4, WorkerBooks

LEMMA PaidBooks ==
  ASSUME Inv, Terms, BooksBalance, NEW p \in Payment, CheckoutPaid(p)
  PROVE  Terms' /\ BooksBalance'
<1>1. UNCHANGED <<template, code, payment, purchase, job>>
  BY DEF CheckoutPaid, catalogue
<1>2. Unsold
  BY <1>1, RowsAloneUnsold
<1> QED BY <1>1, <1>2, CalmBooks

LEMMA LibraryBooks ==
  ASSUME Inv, Terms, BooksBalance, Library
  PROVE  Terms' /\ BooksBalance'
<1>1. UNCHANGED <<payment, purchase, job>>
  BY DEF Library, SetDocumentTemplateActive, UpdateTemplatePrice, SetDiscountCodeActive
<1>2. /\ template \in [Template -> TemplateRow] /\ code \in [Code -> CodeRow]
  BY DEF Inv, TypeOK
<1>3. /\ \A t \in Template : template'[t].sold = template[t].sold
                             /\ template'[t].revenue = template[t].revenue
      /\ \A d \in Code : code'[d].redeemed = code[d].redeemed
  <2>1. ASSUME NEW s \in Template, SetDocumentTemplateActive(s) PROVE <1>3!1 /\ <1>3!2
    BY <1>2, <2>1 DEF SetDocumentTemplateActive, TemplateRow
  <2>2. ASSUME NEW s \in Template, NEW x \in Price, UpdateTemplatePrice(s, x)
        PROVE  <1>3!1 /\ <1>3!2
    BY <1>2, <2>2 DEF UpdateTemplatePrice, TemplateRow
  <2>3. ASSUME NEW e \in Code, SetDiscountCodeActive(e) PROVE <1>3!1 /\ <1>3!2
    BY <1>2, <2>3 DEF SetDiscountCodeActive, CodeRow
  <2> QED BY <2>1, <2>2, <2>3 DEF Library
<1>4. Unsold
  BY <1>1, <1>3 DEF Unsold
<1> QED BY <1>1, <1>4, CalmBooks

LEMMA FailedBooks ==
  ASSUME Inv, Terms, BooksBalance, NEW w \in Worker, WriteFailed(w)
  PROVE  Terms' /\ BooksBalance'
<1>1. /\ payment' = [payment EXCEPT ![job[w].pay].status = "FAILED"]
      /\ UNCHANGED <<template, code, purchase>>
      /\ job' = [job EXCEPT ![w] = Idle]
  BY DEF WriteFailed, catalogue
<1>2. \A p \in Payment : /\ payment'[p].confirmed = payment[p].confirmed
                         /\ payment'[p].template = payment[p].template
                         /\ payment'[p].code = payment[p].code
                         /\ payment'[p].amount = payment[p].amount
  BY <1>1 DEF Inv, TypeOK, PaymentRow
<1>3. Unsold
  BY <1>1, <1>2 DEF Unsold
<1>4. Idle.pc # "confirming"
  BY DEF Idle
<1> QED BY <1>1, <1>3, <1>4, WorkerBooks

LEMMA LockBooks ==
  ASSUME Inv, Terms, BooksBalance, NEW w \in Worker, ConfirmLock(w)
  PROVE  Terms' /\ BooksBalance'
<1>1. UNCHANGED <<template, code, payment, purchase>>
  BY DEF ConfirmLock, catalogue
<1>2. Unsold
  BY <1>1, RowsAloneUnsold
<1>3. CASE ToConfirm(job[w].pay) = {}
  <2>1. job' = [job EXCEPT ![w] = Idle] /\ Idle.pc # "confirming"
    BY <1>3 DEF ConfirmLock, Idle
  <2> QED BY <1>1, <1>2, <2>1, WorkerBooks
<1>4. CASE ToConfirm(job[w].pay) # {}
  <2>1. PICK x \in ToConfirm(job[w].pay) :
          job' = [job EXCEPT ![w] =
            [job[w] EXCEPT !.pc = "confirming", !.candidate = x[1], !.template = x[2],
                           !.code = purchase[x].code, !.amount = purchase[x].amount]]
    BY <1>4 DEF ConfirmLock
  <2>2. x \in Candidate \X Template /\ purchase[x].payment = job[w].pay
    BY DEF ToConfirm, LinkedTo
  <2>3. PICK j : j = [job[w] EXCEPT !.pc = "confirming", !.candidate = x[1], !.template = x[2],
                                    !.code = purchase[x].code, !.amount = purchase[x].amount]
    OBVIOUS
  <2>4. j.pay = job[w].pay /\ j.code = purchase[x].code /\ j.amount = purchase[x].amount
    BY <2>3, JobIsTyped DEF Inv, Job
  <2>5. job[w].pay \in Payment /\ OnRecord(job[w].pay)
    BY DEF ConfirmLock, Inv, JobsInv, JobTied
  <2>6. SameTerms(j, j.pay)
    BY <2>2, <2>4, <2>5, PaymentsAreNumbers DEF Terms, SameTerms
  <2>7. \A v \in Worker : job'[v] = IF v = w THEN j ELSE job[v]
    BY <2>1, <2>3 DEF Inv, TypeOK
  <2>8. \A v \in Worker : job'[v].pc = "confirming" =>
           \/ job'[v] = job[v]
           \/ /\ SameTerms(job'[v], job'[v].pay)
              /\ job'[v].pay \in Payment /\ OnRecord(job'[v].pay)
    BY <2>4, <2>5, <2>6, <2>7
  <2> QED BY <1>1, <1>2, <2>8, TermsKept, UnsoldBalances
<1> QED BY <1>3, <1>4

\* The row is pointed at the payment just created, with that payment's terms.
LEMMA CreateBooks ==
  ASSUME Inv, Terms, BooksBalance, NEW w \in Worker, CreatePayment(w)
  PROVE  Terms' /\ BooksBalance'
<1> DEFINE j == job[w]
           c == j.candidate
           t == j.template
<1>1. UNCHANGED <<template, code>>
  BY DEF CreatePayment, catalogue
<1>2. j \in Job /\ c \in Candidate /\ t \in Template /\ j.pc \in {"first", "retry"}
  BY JobIsTyped DEF CreatePayment, Inv, JobsInv, JobTied
<1>3. CASE j.pc = "first" /\ purchase[<<c, t>>].payment # 0
  <2>1. job' = [job EXCEPT ![w] = Idle] /\ UNCHANGED <<payment, purchase>>
    BY <1>3 DEF CreatePayment
  <2>2. Unsold /\ Idle.pc # "confirming"
    BY <1>1, <2>1, RowsAloneUnsold DEF Idle
  <2> QED BY <2>1, <2>2, WorkerBooks
<1>4. CASE ~(j.pc = "first" /\ purchase[<<c, t>>].payment # 0)
  <2>1. PICK p \in Payment :
          /\ NextPayment(p)
          /\ payment' = [payment EXCEPT ![p] =
               [status |-> "PENDING", candidate |-> c, template |-> t,
                code |-> j.code, amount |-> j.amount, confirmed |-> FALSE]]
          /\ purchase' = [purchase EXCEPT ![<<c, t>>] = PointedAt(@, j, p)]
          /\ job' = [job EXCEPT ![w] =
               [Idle EXCEPT !.pc = IF NombaBypass THEN "confirm" ELSE "checkout",
                            !.pay = p]]
    BY <1>4 DEF CreatePayment
  <2>2. ~OnRecord(p) /\ payment[p].confirmed = FALSE
    BY <2>1 DEF NextPayment, Inv, RowsInv, PaymentsTied, NoPayment
  <2>3. PICK y \in Candidate \X Template : y = <<c, t>>
    <3>1. <<c, t>> \in Candidate \X Template
      BY <1>2
    <3> QED BY <3>1
  <2>4. PICK x : x = [purchase[y] EXCEPT !.payment = p, !.code = j.code, !.amount = j.amount]
    OBVIOUS
  <2>5. x.payment = p /\ x.code = j.code /\ x.amount = j.amount
    BY <2>3, <2>4 DEF Inv, TypeOK, PurchaseRow
  <2>6. \A z \in Candidate \X Template : purchase'[z] = IF z = y THEN x ELSE purchase[z]
    BY <2>1, <2>3, <2>4 DEF Inv, TypeOK, PointedAt
  <2>7. /\ payment'[p].confirmed = FALSE
        /\ payment'[p].code = j.code /\ payment'[p].amount = j.amount
        /\ \A q \in Payment : q # p => payment'[q] = payment[q]
    BY <2>1 DEF Inv, TypeOK
  <2>8. Unsold
    BY <1>1, <2>2, <2>7 DEF Unsold
  <2>9. \A v \in Worker : job'[v].pc = "confirming" => job'[v] = job[v]
    <3>1. PICK k : k = [Idle EXCEPT !.pc = IF NombaBypass THEN "confirm" ELSE "checkout",
                                    !.pay = p]
      OBVIOUS
    <3>2. k.pc # "confirming" /\ \A v \in Worker : job'[v] = IF v = w THEN k ELSE job[v]
      BY <2>1, <3>1 DEF Idle, Inv, TypeOK
    <3> QED BY <3>2
  <2>10. ASSUME NEW z \in Candidate \X Template, purchase'[z].payment # 0
         PROVE  SameTerms(purchase[z], purchase[z].payment)'
    <3>1. CASE z = y
      BY <2>5, <2>6, <2>7, <3>1 DEF SameTerms
    <3>2. CASE z # y
      <4>1. purchase'[z] = purchase[z]
        BY <2>6, <3>2
      <4>2. /\ purchase[z].payment \in Payment /\ purchase[z].payment # p
            /\ SameTerms(purchase[z], purchase[z].payment)
        BY <2>2, <2>10, <4>1 DEF Inv, TypeOK, PurchaseRow, RowsInv, PointsHome, Terms
      <4> QED BY <2>7, <4>1, <4>2 DEF SameTerms
    <3> QED BY <3>1, <3>2
  <2>11. ASSUME NEW v \in Worker, job'[v].pc = "confirming"
         PROVE  SameTerms(job[v], job[v].pay)'
    <3>1. job'[v] = job[v] /\ job[v].pay \in Payment /\ job[v].pay # p
          /\ SameTerms(job[v], job[v].pay)
      BY <2>2, <2>9, <2>11 DEF Inv, JobsInv, JobTied, Terms
    <3> QED BY <2>7, <3>1 DEF SameTerms
  <2> QED BY <2>8, <2>10, <2>11, UnsoldBalances DEF Terms
<1> QED BY <1>3, <1>4

\* One payment more in a set of payments.
LEMMA OneMore ==
  ASSUME NEW S \in SUBSET Payment, NEW p \in Payment, p \notin S
  PROVE  Cardinality(S \cup {p}) = Cardinality(S) + 1
<1>1. IsFiniteSet(Payment)
  BY DocumentAssumption, FS_Interval DEF Payment
<1>2. IsFiniteSet(S)
  BY <1>1, FS_Subset
<1> QED BY <1>2, FS_AddElement

\* What a commit does to the rows, in the terms of the payment it confirms.
Sold(p) ==
  /\ p \in Payment /\ payment[p].confirmed = FALSE
  /\ payment'[p].confirmed = TRUE
  /\ \A q \in Payment : q # p => payment'[q] = payment[q]
  /\ \A q \in Payment : /\ payment'[q].template = payment[q].template
                        /\ payment'[q].code = payment[q].code
                        /\ payment'[q].amount = payment[q].amount
  /\ payment[p].template \in Template
  /\ \A t \in Template :
       IF t = payment[p].template
       THEN /\ template'[t].sold = template[t].sold + 1
            /\ template'[t].revenue = template[t].revenue + payment[p].amount
       ELSE template'[t] = template[t]
  /\ \A d \in Code : IF d = payment[p].code
                     THEN code'[d].redeemed = code[d].redeemed + 1
                     ELSE code'[d] = code[d]
  /\ \A x \in Candidate \X Template : /\ purchase'[x].payment = purchase[x].payment
                                      /\ purchase'[x].code = purchase[x].code
                                      /\ purchase'[x].amount = purchase[x].amount

LEMMA CommitSells ==
  ASSUME Inv, Terms, NEW w \in Worker, NEW p, p = job[w].pay, ConfirmCommit(w)
  PROVE  /\ Sold(p)
         /\ job'[w] = Idle
         /\ \A v \in Worker : v # w => job'[v] = job[v]
<1>1. /\ job[w].pc = "confirming" /\ job[w] \in Job
      /\ job' = [job EXCEPT ![w] = Idle]
      /\ payment' = [payment EXCEPT ![p].status = "SUCCESS", ![p].confirmed = TRUE]
      /\ purchase' = [purchase EXCEPT ![<<job[w].candidate, job[w].template>>].purchased = TRUE]
      /\ template' = [template EXCEPT ![job[w].template].sold = @ + 1,
                                      ![job[w].template].revenue = @ + job[w].amount]
      /\ code' = IF job[w].code = Null THEN code
                 ELSE [code EXCEPT ![job[w].code].redeemed = @ + 1]
  BY JobIsTyped DEF ConfirmCommit, Inv
<1>2. /\ p \in Payment /\ payment[p].confirmed = FALSE
      /\ payment'[p].confirmed = TRUE /\ Due(p) \in Candidate \X Template
      /\ \A q \in Payment : q # p => payment'[q] = payment[q]
  BY CommitRows
<1>3. /\ <<job[w].candidate, job[w].template>> = Due(p)
      /\ job[w].code = payment[p].code /\ job[w].amount = payment[p].amount
  BY <1>1 DEF Inv, JobsInv, JobTied, Terms, SameTerms
<1>4. job[w].template = payment[p].template /\ payment[p].template \in Template
  BY <1>2, <1>3 DEF Due
<1>5. /\ payment'[p].template = payment[p].template
      /\ payment'[p].code = payment[p].code
      /\ payment'[p].amount = payment[p].amount
  BY <1>1, <1>2 DEF Inv, TypeOK, PaymentRow
<1>6. \A q \in Payment : /\ payment'[q].template = payment[q].template
                         /\ payment'[q].code = payment[q].code
                         /\ payment'[q].amount = payment[q].amount
  BY <1>2, <1>5
<1>7. \A t \in Template :
        IF t = payment[p].template
        THEN /\ template'[t].sold = template[t].sold + 1
             /\ template'[t].revenue = template[t].revenue + payment[p].amount
        ELSE template'[t] = template[t]
  BY <1>1, <1>3, <1>4 DEF Inv, TypeOK, TemplateRow
<1>8. \A d \in Code : IF d = payment[p].code
                      THEN code'[d].redeemed = code[d].redeemed + 1
                      ELSE code'[d] = code[d]
  BY <1>1, <1>3, DocumentAssumption DEF Inv, TypeOK, CodeRow
<1>9. \A x \in Candidate \X Template : /\ purchase'[x].payment = purchase[x].payment
                                       /\ purchase'[x].code = purchase[x].code
                                       /\ purchase'[x].amount = purchase[x].amount
  BY <1>1 DEF Inv, TypeOK, PurchaseRow
<1>10. job'[w] = Idle /\ \A v \in Worker : v # w => job'[v] = job[v]
  BY <1>1 DEF Inv, TypeOK
<1> QED BY <1>2, <1>4, <1>6, <1>7, <1>8, <1>9, <1>10 DEF Sold

LEMMA CommitBooks ==
  ASSUME Inv, Inv', Terms, BooksBalance, NEW w \in Worker, ConfirmCommit(w)
  PROVE  Terms' /\ BooksBalance'
<1>1. PICK p : Sold(p) /\ p = job[w].pay
  BY CommitSells
<1>2. job'[w] = Idle /\ \A v \in Worker : v # w => job'[v] = job[v]
  BY <1>1, CommitSells
<1>3. /\ p \in Payment /\ payment[p].confirmed = FALSE
      /\ payment'[p].confirmed = TRUE
      /\ payment[p].template \in Template
  BY <1>1 DEF Sold
<1>4. /\ \A q \in Payment : q # p => payment'[q] = payment[q]
      /\ \A q \in Payment : /\ payment'[q].template = payment[q].template
                            /\ payment'[q].code = payment[q].code
                            /\ payment'[q].amount = payment[q].amount
  BY <1>1 DEF Sold
<1>5. \A t \in Template :
        IF t = payment[p].template
        THEN /\ template'[t].sold = template[t].sold + 1
             /\ template'[t].revenue = template[t].revenue + payment[p].amount
        ELSE template'[t] = template[t]
  BY <1>1 DEF Sold
<1>6. \A d \in Code : IF d = payment[p].code
                      THEN code'[d].redeemed = code[d].redeemed + 1
                      ELSE code'[d] = code[d]
  BY <1>1 DEF Sold
<1>7. Terms'
  <2>1. ASSUME NEW x \in Candidate \X Template, purchase'[x].payment # 0
        PROVE  SameTerms(purchase[x], purchase[x].payment)'
    <3>1. /\ purchase'[x].payment = purchase[x].payment
          /\ purchase'[x].code = purchase[x].code
          /\ purchase'[x].amount = purchase[x].amount
      BY <1>1 DEF Sold
    <3>2. purchase[x].payment \in Payment /\ SameTerms(purchase[x], purchase[x].payment)
      BY <2>1, <3>1 DEF Inv, TypeOK, PurchaseRow, Terms
    <3> QED BY <1>4, <3>1, <3>2 DEF SameTerms
  <2>2. ASSUME NEW v \in Worker, job'[v].pc = "confirming"
        PROVE  SameTerms(job[v], job[v].pay)'
    <3>1. v # w
      BY <1>2, <2>2 DEF Idle
    <3>2. job'[v] = job[v]
      BY <1>2, <3>1
    <3>3. job[v].pay \in Payment /\ SameTerms(job[v], job[v].pay)
      BY <2>2, <3>2 DEF Inv, JobsInv, JobTied, Terms
    <3> QED BY <1>4, <3>2, <3>3 DEF SameTerms
  <2> QED BY <2>1, <2>2 DEF Terms
<1>8. ASSUME NEW t \in Template
      PROVE  template'[t].sold = Cardinality(Booked(t)') /\ template'[t].revenue = Total(Takings(t)')
  <2>1. template[t].sold = Cardinality(Booked(t)) /\ template[t].revenue = Total(Takings(t))
    BY DEF BooksBalance
  <2>2. CASE t # payment[p].template
    <3>1. template'[t] = template[t]
      BY <1>5, <1>6, <2>2
    <3>2. Booked(t)' = Booked(t)
      BY <1>3, <1>4, <2>2 DEF Booked
    <3>3. Takings(t)' = Takings(t)
      BY <1>4, <3>2 DEF Takings
    <3> QED BY <2>1, <3>1, <3>2, <3>3
  <2>3. CASE t = payment[p].template
    <3>1. /\ template'[t].sold = template[t].sold + 1
          /\ template'[t].revenue = template[t].revenue + payment[p].amount
      BY <1>5, <1>6, <2>3
    <3>2. Booked(t)' = Booked(t) \cup {p} /\ p \notin Booked(t) /\ Booked(t) \in SUBSET Payment
      BY <1>3, <1>4, <2>3 DEF Booked
    <3>3. Cardinality(Booked(t)') = Cardinality(Booked(t)) + 1
      BY <1>3, <3>2, OneMore
    <3>4. PICK a, b : a = Takings(t) /\ b = Takings(t)'
      OBVIOUS
    <3>5. a \in [Payment -> Nat] /\ b \in [Payment -> Nat]
      BY <3>4, TakingsAreNumbers DEF Inv, TypeOK, PaymentRow, Takings
    <3>6. a[p] = 0 /\ b[p] = payment[p].amount
      BY <1>3, <1>4, <3>2, <3>4 DEF Takings
    <3>7. \A q \in Payment : q # p => b[q] = a[q]
      BY <1>4, <3>2, <3>4 DEF Takings
    <3>8. Total(b) = Total(a) + b[p]
      BY <1>3, <3>5, <3>6, <3>7, TotalGrows
    <3> QED BY <2>1, <3>1, <3>3, <3>4, <3>6, <3>8
  <2> QED BY <2>2, <2>3
<1>9. ASSUME NEW d \in Code PROVE code'[d].redeemed = Cardinality(Redeemed(d)')
  <2>1. code[d].redeemed = Cardinality(Redeemed(d))
    BY DEF BooksBalance
  <2>2. CASE d # payment[p].code
    <3>1. code'[d] = code[d]
      BY <1>5, <1>6, <2>2
    <3>2. Redeemed(d)' = Redeemed(d)
      BY <1>3, <1>4, <2>2 DEF Redeemed
    <3> QED BY <2>1, <3>1, <3>2
  <2>3. CASE d = payment[p].code
    <3>1. code'[d].redeemed = code[d].redeemed + 1
      BY <1>5, <1>6, <2>3
    <3>2. Redeemed(d)' = Redeemed(d) \cup {p} /\ p \notin Redeemed(d)
          /\ Redeemed(d) \in SUBSET Payment
      BY <1>3, <1>4, <2>3 DEF Redeemed
    <3>3. Cardinality(Redeemed(d)') = Cardinality(Redeemed(d)) + 1
      BY <1>3, <3>2, OneMore
    <3> QED BY <2>1, <3>1, <3>3
  <2> QED BY <2>2, <2>3
<1> QED BY <1>7, <1>8, <1>9 DEF BooksBalance

LEMMA NextBooks == Inv /\ Inv' /\ Terms /\ BooksBalance /\ [Next]_vars => Terms' /\ BooksBalance'
<1> SUFFICES ASSUME Inv, Inv', Terms, BooksBalance, [Next]_vars PROVE Terms' /\ BooksBalance'
  OBVIOUS
<1>1. ASSUME NEW w \in Worker, Ordering(w) PROVE Terms' /\ BooksBalance'
  BY <1>1, OrderingBooks, CreateBooks DEF Ordering
<1>2. ASSUME NEW w \in Worker, Settling(w) PROVE Terms' /\ BooksBalance'
  BY <1>2, OrderingBooks, FailedBooks, LockBooks, CommitBooks DEF Settling
<1>3. ASSUME NEW w \in Worker, Die(w) PROVE Terms' /\ BooksBalance'
  BY <1>3, OrderingBooks
<1>4. CASE UNCHANGED vars
  <2>1. UNCHANGED <<template, code, payment, purchase, job>>
    BY <1>4 DEF vars, catalogue
  <2>2. Unsold
    BY <2>1, RowsAloneUnsold
  <2> QED BY <2>1, <2>2, CalmBooks
<1> QED BY <1>1, <1>2, <1>3, <1>4, PaidBooks, LibraryBooks DEF Next

\* The books balance: a template's purchaseCount and revenue and a code's redemptions
\* are at all times what the confirmed payments, with the sums and codes they were
\* opened with, add up to.
THEOREM BooksAlwaysBalance == Spec => []BooksBalance
<1>1. Init => Terms /\ BooksBalance
  BY InitBooks
<1>2. Inv /\ Inv' /\ (Terms /\ BooksBalance) /\ [Next]_vars => (Terms /\ BooksBalance)'
  BY NextBooks
<1> QED BY <1>1, <1>2, Invariance, PTL DEF Spec
=============================================================================
