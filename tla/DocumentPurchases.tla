--------------------------- MODULE DocumentPurchases ---------------------------
(***************************************************************************)
(* Buying a document template (src/lib/document-purchase.ts and the        *)
(* server action around it): the price and the discount code are read, one *)
(* DocumentPurchase row per candidate and template is created or re-used,  *)
(* a payment is opened at the provider, and the provider's notice confirms *)
(* the purchase.                                                           *)
(*                                                                         *)
(* Only the confirmation locks anything, and what it locks is its Payment  *)
(* row.  A request is a job of a worker that keeps what it has read.  Sums *)
(* of money are small numbers; a payment id of 0 is SQL's NULL.            *)
(***************************************************************************)
EXTENDS Naturals, FiniteSets

CONSTANTS
  Candidate,
  Template,        \* document templates
  Code,            \* discount codes
  Null,            \* SQL's NULL where a candidate, template or code could stand
  Price,           \* the prices a template may be given, positive numbers
  Discount,        \* what a code takes off, at most the price
  MaxRedemptions,  \* the codes' maxRedemptions
  NombaBypass,     \* the beta switch: confirm without a checkout
  Worker,          \* requests in flight at once
  MaxPayments,     \* bound on Payment rows created
  MaxDeaths,       \* bound on requests that die half way
  MaxEdits         \* bound on staff edits of prices and switches

Payment == 1 .. MaxPayments
PaymentStatus == {"NONE", "PENDING", "SUCCESS", "FAILED"}

ASSUME DocumentAssumption ==
  /\ Null \notin Candidate \cup Template \cup Code
  /\ Price \subseteq Nat \ {0}
  /\ Discount \in Nat
  /\ MaxRedemptions \in Nat /\ MaxPayments \in Nat
  /\ MaxDeaths \in Nat /\ MaxEdits \in Nat
  /\ NombaBypass \in BOOLEAN

VARIABLES
  template,   \* DocumentTemplate rows: active, price, purchaseCount, revenueMinor
  code,       \* DiscountCode rows: active, redemptionCount
  payment,    \* Payment rows of these purchases, and what each was for
  purchase,   \* DocumentPurchase rows, one place per candidate and template
  checkout,   \* the provider's order per payment
  events,     \* WebhookEvent rows: the notices already received
  job,        \* what each worker is in the middle of
  deaths,     \* requests that died so far
  edits       \* staff edits so far

catalogue == <<template, code>>
bounds == <<deaths, edits>>
vars == <<catalogue, payment, purchase, checkout, events, job, bounds>>

-----------------------------------------------------------------------------
NoPayment == [status |-> "NONE", candidate |-> Null, template |-> Null,
              code |-> Null, amount |-> 0, confirmed |-> FALSE]
NoPurchase == [payment |-> 0, purchased |-> FALSE, code |-> Null, amount |-> 0]
Idle == [pc |-> "idle", candidate |-> Null, template |-> Null, code |-> Null,
         amount |-> 0, pay |-> 0]

OnRecord(p) == payment[p].status # "NONE"
NextPayment(p) == ~OnRecord(p) /\ \A q \in Payment : q < p => OnRecord(q)
\* The bound on rows refuses a request that starts, never one under way.
SparePayment ==
  Cardinality({w \in Worker : job[w].pc \in {"priced", "first", "retry"}})
    < Cardinality({p \in Payment : ~OnRecord(p)})

\* getDocumentFileAccess serves a file on this alone.
Owns(c, t) == purchase[c, t].purchased

PaymentLocked(p) == \E w \in Worker : job[w].pc = "confirming" /\ job[w].pay = p

-----------------------------------------------------------------------------
Init ==
  /\ template \in [Template ->
       [active : {TRUE}, price : Price, sold : {0}, revenue : {0}]]
  /\ code = [d \in Code |-> [active |-> TRUE, redeemed |-> 0]]
  /\ payment = [p \in Payment |-> NoPayment]
  /\ purchase = [x \in Candidate \X Template |-> NoPurchase]
  /\ checkout = [p \in Payment |-> "none"]
  /\ events = {}
  /\ job = [w \in Worker |-> Idle]
  /\ deaths = 0
  /\ edits = 0

-----------------------------------------------------------------------------
(* initiateDocumentPurchase.                                               *)

\* validateAndComputeDiscount against the code's row as it is now.
CodeValid(d) == code[d].active /\ code[d].redeemed < MaxRedemptions
DiscountOff(t) == IF Discount < template[t].price THEN Discount ELSE template[t].price
AmountDue(t, d) == template[t].price - (IF d = Null THEN 0 ELSE DiscountOff(t))

\* The template must be active and the code, if one was entered, valid.
PricePurchase(w, c, t, d) ==
  /\ job[w].pc = "idle"
  /\ template[t].active
  /\ d # Null => CodeValid(d)
  /\ SparePayment
  /\ job' = [job EXCEPT ![w] =
       [Idle EXCEPT !.pc = "priced", !.candidate = c, !.template = t, !.code = d,
                    !.amount = AmountDue(t, d)]]
  /\ UNCHANGED <<catalogue, payment, purchase, checkout, events, bounds>>

\* resolveDocumentPurchaseForPayment looks for the row: none, or one whose payment
\* is no longer PENDING and which is not owned.  Otherwise the request is refused.
FindPurchase(w) ==
  /\ job[w].pc = "priced"
  /\ LET x == purchase[job[w].candidate, job[w].template] IN
     job' = [job EXCEPT ![w] =
       IF x.payment = 0 THEN [@ EXCEPT !.pc = "first"]
       ELSE IF ~x.purchased /\ payment[x.payment].status # "PENDING"
       THEN [@ EXCEPT !.pc = "retry"]
       ELSE Idle]
  /\ UNCHANGED <<catalogue, payment, purchase, checkout, events, bounds>>

\* mutant: the payment is never linked
PointedNowhere(x, j, p) == [x EXCEPT !.payment = Null]

\* mutant: the retry writes the whole row anew
PointedAfresh(x, j, p) ==
  [NoPurchase EXCEPT !.payment = p, !.code = j.code, !.amount = j.amount]

\* What the retry writes of the row: never purchasedAt.
PointedAt(x, j, p) == [x EXCEPT !.payment = p, !.code = j.code, !.amount = j.amount]

\* One transaction for the payment and the row.  The unique pair refuses a second
\* first attempt; a retry updates the row by id, whatever it holds by then.
CreatePayment(w) ==
  /\ job[w].pc \in {"first", "retry"}
  /\ LET j == job[w]
         c == j.candidate
         t == j.template
     IN IF j.pc = "first" /\ purchase[c, t].payment # 0
        THEN /\ job' = [job EXCEPT ![w] = Idle]
             /\ UNCHANGED <<payment, purchase>>
        ELSE \E p \in Payment :
               /\ NextPayment(p)
               /\ payment' = [payment EXCEPT ![p] =
                    [status |-> "PENDING", candidate |-> c, template |-> t,
                     code |-> j.code, amount |-> j.amount, confirmed |-> FALSE]]
               /\ purchase' = [purchase EXCEPT ![<<c, t>>] = PointedAt(@, j, p)]
               /\ job' = [job EXCEPT ![w] =
                    [Idle EXCEPT !.pc = IF NombaBypass THEN "confirm" ELSE "checkout",
                                 !.pay = p]]
  /\ UNCHANGED <<catalogue, checkout, events, bounds>>

\* createCheckoutOrMarkFailed, when the provider answers with a payment page (when
\* its call throws before there is an order: WriteFailed).
OpenCheckout(w) ==
  /\ job[w].pc = "checkout"
  /\ checkout' = [checkout EXCEPT ![job[w].pay] = "open"]
  /\ job' = [job EXCEPT ![w] = Idle]
  /\ UNCHANGED <<catalogue, payment, purchase, events, bounds>>

\* The provider made the order, but its answer is lost: the call throws all the same,
\* and the request goes on to the failure mark.
LoseAnswer(w) ==
  /\ job[w].pc = "checkout"
  /\ checkout' = [checkout EXCEPT ![job[w].pay] = "open"]
  /\ job' = [job EXCEPT ![w] = [Idle EXCEPT !.pc = "fail", !.pay = job[w].pay]]
  /\ UNCHANGED <<catalogue, payment, purchase, events, bounds>>

-----------------------------------------------------------------------------
(* The provider and its notices, late and repeated ones too.               *)

CheckoutPaid(p) ==
  /\ checkout[p] = "open"
  /\ checkout' = [checkout EXCEPT ![p] = "paid"]
  /\ UNCHANGED <<catalogue, payment, purchase, events, job, bounds>>

\* The event ids that can reach the route: of a success a provider may send a second
\* notice under an id of its own.
Notice == [payment : Payment, outcome : {"success", "again", "failed"}]
Success(n) == n.outcome \in {"success", "again"}
Sent(n) == IF Success(n) THEN checkout[n.payment] = "paid"
                                    ELSE checkout[n.payment] # "none"

\* The WebhookEvent is committed first, then the payment is read: a notice already
\* on record changes nothing, one of a failure needs a PENDING payment.
ReceiveNotice(w, n) ==
  /\ job[w].pc = "idle"
  /\ Sent(n)
  /\ n \notin events
  /\ events' = events \cup {n}
  /\ job' = [job EXCEPT ![w] =
       IF Success(n) THEN [Idle EXCEPT !.pc = "confirm", !.pay = n.payment]
       ELSE IF payment[n.payment].status = "PENDING"
       THEN [Idle EXCEPT !.pc = "fail", !.pay = n.payment]
       ELSE Idle]
  /\ UNCHANGED <<catalogue, payment, purchase, checkout, bounds>>

\* markPaymentFailed checks the status before the transaction that writes it.
MarkPaymentFailed(w, p) ==
  /\ job[w].pc = "idle"
  /\ payment[p].status = "PENDING"
  /\ job' = [job EXCEPT ![w] = [Idle EXCEPT !.pc = "fail", !.pay = p]]
  /\ UNCHANGED <<catalogue, payment, purchase, checkout, events, bounds>>

\* The write of all of them, by id, whatever the row holds by then.
WriteFailed(w) ==
  /\ job[w].pc \in {"fail", "checkout"}
  /\ ~PaymentLocked(job[w].pay)
  /\ payment' = [payment EXCEPT ![job[w].pay].status = "FAILED"]
  /\ job' = [job EXCEPT ![w] = Idle]
  /\ UNCHANGED <<catalogue, purchase, checkout, events, bounds>>

-----------------------------------------------------------------------------
(* confirmDocumentPurchase.                                                *)

\* mutant: a purchase that is owned is confirmed again
LinkedToOwned(p) == {x \in Candidate \X Template : purchase[x].payment = p}

\* The purchase a payment is linked to, unless purchasedAt is set already.
LinkedTo(p) == {x \in Candidate \X Template : /\ purchase[x].payment = p
                                             /\ ~purchase[x].purchased}

\* mutant: a payment marked FAILED is not confirmed any more
Confirmable(p) == {x \in LinkedTo(p) : payment[p].status = "PENDING"}

\* What ConfirmLock finds to confirm.
ToConfirm(p) == LinkedTo(p)

\* The payment is locked, then the purchase that points at it is read: none at all
\* is an error, an owned one needs nothing more.
ConfirmLock(w) ==
  /\ job[w].pc = "confirm"
  /\ ~PaymentLocked(job[w].pay)
  /\ IF ToConfirm(job[w].pay) = {}
     THEN job' = [job EXCEPT ![w] = Idle]
     ELSE \E x \in ToConfirm(job[w].pay) :
            job' = [job EXCEPT ![w] =
              [@ EXCEPT !.pc = "confirming", !.candidate = x[1], !.template = x[2],
                        !.code = purchase[x].code, !.amount = purchase[x].amount]]
  /\ UNCHANGED <<catalogue, payment, purchase, checkout, events, bounds>>

\* Payment and purchase by id, counters by increment, in one commit.
ConfirmCommit(w) ==
  /\ job[w].pc = "confirming"
  /\ LET j == job[w] IN
     /\ payment' = [payment EXCEPT ![j.pay].status = "SUCCESS",
                                   ![j.pay].confirmed = TRUE]
     /\ purchase' = [purchase EXCEPT ![<<j.candidate, j.template>>].purchased = TRUE]
     /\ template' = [template EXCEPT ![j.template].sold = @ + 1,
                                     ![j.template].revenue = @ + j.amount]
     /\ code' = IF j.code = Null THEN code
                ELSE [code EXCEPT ![j.code].redeemed = @ + 1]
  /\ job' = [job EXCEPT ![w] = Idle]
  /\ UNCHANGED <<checkout, events, bounds>>

-----------------------------------------------------------------------------
(* The library's staff, and the server.                                    *)

Edits == edits < MaxEdits /\ edits' = edits + 1

\* updateDocumentTemplateMetadata, for what a sale reads of it.
UpdateTemplatePrice(t, x) ==
  /\ Edits
  /\ template[t].price # x
  /\ template' = [template EXCEPT ![t].price = x]
  /\ UNCHANGED <<code, payment, purchase, checkout, events, job, deaths>>

\* setDocumentTemplateActive; deleteDocumentTemplate is the switch to FALSE.
SetDocumentTemplateActive(t) ==
  /\ Edits
  /\ template' = [template EXCEPT ![t].active = ~@]
  /\ UNCHANGED <<code, payment, purchase, checkout, events, job, deaths>>

SetDiscountCodeActive(d) ==
  /\ Edits
  /\ code' = [code EXCEPT ![d].active = ~@]
  /\ UNCHANGED <<template, payment, purchase, checkout, events, job, deaths>>

\* A request dies; what its transaction had not committed is undone.
Die(w) ==
  /\ job[w].pc # "idle"
  /\ deaths < MaxDeaths
  /\ deaths' = deaths + 1
  /\ job' = [job EXCEPT ![w] = Idle]
  /\ UNCHANGED <<catalogue, payment, purchase, checkout, events, edits>>

Ordering(w) ==
  \/ \E c \in Candidate, t \in Template, d \in Code \cup {Null} : PricePurchase(w, c, t, d)
  \/ FindPurchase(w)
  \/ CreatePayment(w)
  \/ OpenCheckout(w)
  \/ LoseAnswer(w)
Settling(w) ==
  \/ \E n \in Notice : ReceiveNotice(w, n)
  \/ \E p \in Payment : MarkPaymentFailed(w, p)
  \/ WriteFailed(w)
  \/ ConfirmLock(w)
  \/ ConfirmCommit(w)
Library ==
  \/ \E t \in Template : SetDocumentTemplateActive(t) \/ \E x \in Price : UpdateTemplatePrice(t, x)
  \/ \E d \in Code : SetDiscountCodeActive(d)

Next ==
  \/ \E w \in Worker : Ordering(w) \/ Settling(w) \/ Die(w)
  \/ \E p \in Payment : CheckoutPaid(p)
  \/ Library

Spec == Init /\ [][Next]_vars

\* A request that has begun runs on unless it dies, and the provider delivers each
\* notice of a success sooner or later.
FairSpec ==
  /\ Spec
  /\ \A w \in Worker :
       /\ WF_vars(FindPurchase(w) \/ CreatePayment(w) \/ OpenCheckout(w) \/ LoseAnswer(w))
       /\ WF_vars(WriteFailed(w) \/ ConfirmLock(w) \/ ConfirmCommit(w))
  /\ \A p \in Payment :
       SF_vars(\E w \in Worker : ReceiveNotice(w, [payment |-> p, outcome |-> "success"]))

-----------------------------------------------------------------------------
TemplateRow == [active : BOOLEAN, price : Price, sold : Nat, revenue : Nat]
CodeRow == [active : BOOLEAN, redeemed : Nat]
PaymentRow == [status : PaymentStatus, candidate : Candidate \cup {Null},
               template : Template \cup {Null}, code : Code \cup {Null},
               amount : Nat, confirmed : BOOLEAN]
PurchaseRow == [payment : Payment \cup {0}, purchased : BOOLEAN,
                code : Code \cup {Null}, amount : Nat]
Job == [pc : {"idle", "priced", "first", "retry", "checkout", "confirm",
              "confirming", "fail"},
        candidate : Candidate \cup {Null}, template : Template \cup {Null},
        code : Code \cup {Null}, amount : Nat, pay : Payment \cup {0}]

\* Every variable holds rows of the shape the schema gives it.
TypeOK ==
  /\ template \in [Template -> TemplateRow]
  /\ code \in [Code -> CodeRow]
  /\ payment \in [Payment -> PaymentRow]
  /\ purchase \in [Candidate \X Template -> PurchaseRow]
  /\ checkout \in [Payment -> {"none", "open", "paid"}]
  /\ events \subseteq Notice
  /\ job \in [Worker -> Job]
  /\ deaths \in Nat /\ edits \in Nat

\* The purchases booked on a template, and with a code.
Booked(t) == {p \in Payment : payment[p].confirmed /\ payment[p].template = t}
Redeemed(d) == {p \in Payment : payment[p].confirmed /\ payment[p].code = d}

\* A sum over the payments, added up in the order of their ids.
Total(a) ==
  LET upTo[n \in 0 .. MaxPayments] == IF n = 0 THEN 0 ELSE upTo[n - 1] + a[n]
  IN  upTo[MaxPayments]
Takings(t) == [p \in Payment |-> IF p \in Booked(t) THEN payment[p].amount ELSE 0]

\* The library's books follow from the payments, each counted once: purchaseCount,
\* revenueMinor and redemptionCount are what the confirmed payments, with the sums
\* and codes they were opened with, add up to - whatever retries re-pointed the row
\* and staff re-priced the template meanwhile (document-purchase.ts:222-230).
BooksBalance ==
  /\ \A t \in Template :
       /\ template[t].sold = Cardinality(Booked(t))
       /\ template[t].revenue = Total(Takings(t))
  /\ \A d \in Code : code[d].redeemed = Cardinality(Redeemed(d))

\* What the model calls money taken for a payment: a paid order, or under the beta
\* switch none at all.
MoneyTaken(p) == checkout[p] = "paid" \/ (NombaBypass /\ OnRecord(p))

\* The promise of Ownership, with the purchases as items and the payments as orders:
\* an order is booked at most once and for money taken, and an item is handed over
\* with the booking of an order for it and is never taken back
\* (document-purchase.ts:180-240, document-purchase.ts:164-184 of the actions).
Own == INSTANCE Ownership WITH
  Order <- Payment,
  Item <- Candidate \X Template,
  none <- <<Null, Null>>,
  due <- [p \in Payment |-> <<payment[p].candidate, payment[p].template>>],
  taken <- {p \in Payment : MoneyTaken(p)},
  booked <- {p \in Payment : payment[p].confirmed},
  owned <- {x \in Candidate \X Template : purchase[x].purchased}
OwnedAsPromised == Own!Spec

\* Money taken for the payment a purchase points at hands the template over, unless
\* a retry points the row at another payment first or a request dies: the success
\* notice is confirmed even when the payment was marked FAILED in between.
PaidIsOwned ==
  \A x \in Candidate \X Template, p \in Payment :
    (purchase[x].payment = p /\ checkout[p] = "paid")
      ~> (purchase[x].purchased \/ purchase[x].payment # p \/ deaths > 0)
=============================================================================
