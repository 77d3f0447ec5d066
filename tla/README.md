# Verification of the Lavelle platform

TLA+ models of the Lavelle Tech Platform, a learning platform on Next.js and
PostgreSQL: candidates pay for programmes, study, sit examinations and receive
certificates; staff keep the ledger, mark papers and run intakes. Every model is
translated from the code in `src/`; the line numbers of every definition are in
`PROJECT.json` under `map`.

The program's logic is in server actions and route handlers that share one
database. There are no threads and no queues in the program itself: concurrency is
requests in flight at once (two tabs, a webhook and a member of staff, a retried
delivery). Their statements and transactions run at READ COMMITTED, but for three
kinds of staff transaction at SERIALIZABLE (section 7). So the models have one shape.
A table is a function from row ids to rows. A request that decides on something it
read *outside* the transaction it later writes in is a **job**: it keeps what it read,
and its write happens in a later step, whatever the table says by then. A transaction
that reads and writes under the lock of the row it decides on is one action. Unique
indexes are guards on the writes that they can refuse.

## 1. Inventory

For each component: its state; its operations; what makes it hard; what must hold.

| component | state | operations | hard because | must hold |
|---|---|---|---|---|
| Enrolment transaction (`lib/enrolment-transaction.ts`) | `Payment`, `Enrolment`, `Candidate.candidateNumber`, `IdCard`, `Cohort` seats, `Deadline` | `confirmPayment`: by webhook, staff entry, beta bypass; guest branch; examination fees | one payment confirmed from several sides; last place of a cohort; late success after a failure or a refund | applied once; number once and for life; one live card; a counted place is still free at commit |
| Checkout and finance ledger (`actions/payment.ts`, `lib/offline-recording.ts`) | the same rows | start or retry a checkout, guest checkout, offline record, mark failed, refund, card reissue | status read before the transaction that writes it; provider call between two commits | one live enrolment per programme; nobody studies unpaid |
| Webhook (`api/webhooks/[provider]`) | `WebhookEvent` | record, deduplicate, dispatch success, failure, pending | duplicates, order, crash between record and effect | paid money is confirmed in the end |
| Transfer, completion, reset (`intake-transfer`, `candidate-progress`, `player-actions`) | `Enrolment`, deadlines | move to another intake; complete; start over | each writes back a row it read | access, seat and schedule agree |
| Programme player (`player-actions`, `progress`, `lecture-steps`, `deadline-state`) | lecture, quiz, drafting and video progress | open, save, attempt, complete a lecture | the finished steps are read, and written back whole; a submission and its mark are two statements; a reset in between | a reset starts over; what was submitted is queued for marking |
| Marking (`marking-actions`, `grading`, `programme-result`) | `Mark`, `DraftingSubmission`, `ProgrammeResult` | claim (row lock), return, ask for resubmission, moderate | marks are read without a lock and returned, moderated or sent back by id | the standing counts only returned marks; attempts are kept |
| Examination sittings (`exam-sitting-actions`, `invigilation-actions`) | `ExamRegistration`, `Sitting`, `SittingAnswer`, `Mark` | register, start, save, submit, forfeit, expire, refer, clear, release | submit, forfeit and expiry race; release is one sitting at a time | one final state; answers are all marked; results are released once |
| Examination authoring (`exam-builder-actions`, `exam-staff`) | `Exam`, `ExamWindow`, `ExamQuestion` | draft, publish, window changes | two edits of a question cross; papers are drawn, saved and marked meanwhile | one key per question; no mark unearned; one paper per sitting |
| Certificates (`certificate-actions`) | `Certificate`, number sequence | issue (row lock), course completion, manual, revoke, reissue | revoke and reissue read without a lock; issue retried | one certificate per sitting; a revocation stays |
| Document library (`document-purchase`) | `DocumentPurchase`, `DiscountCode` | buy, confirm, discount caps | a retry re-points the purchase at a new payment | owned only if paid, and for good; what was paid for is owned in the end; the books agree with the payments |
| Candidate access (`candidate-auth`, `candidate-session`, one-time codes) | sessions, codes, attempt counters | sign in, verify, reset, suspend | a code is found, then deleted by id; a session is read, then extended, while it is revoked | a code used once; a revoked session stays so |
| Staff access (`staff-auth-actions`, `staff-invitation`, `rbac`) | staff, invitations, tokens, permissions | invite, activate, sign in, grant | two transactions each count the other's super admin; presets and toggles cross; a link is re-sent and used at once | a super admin remains; permissions follow the role |
| Announcements (`announcements`, `cron`) | `Announcement`, notifications | send now, schedule, sweep | sweep, manual send and withdrawal at once | each recipient told once; what was sent stays sent |
| Programme publishing (`actions/programme*.ts`, `programme-publish`) | programmes, modules, lectures | draft, reorder, publish, archive | order indexes rewritten by two editors | positions are a permutation |
| Website, blog, reviews, support, beta gate | one row each | editorial updates | – | – |
| Azubi applications | form rows | submit, review | – | – |
| Uploads, e-mail, PDF, pages | none of their own | – | – | – |

How they meet: the webhook, the ledger and the beta bypass all call
`confirmPayment`; examination registration creates a payment that the same
transaction confirms, and the sitting starts only from a SUCCESS payment; release of
results calls the certificate component; completion of a programme without an
examination does so too; progress reset deletes what the player wrote; everything
writes audit and notification rows, which no decision reads and no model has.

## 2. Plan

Modules in order of what matters most. Done:

1. `Enrolments`, `Enrolments_proofs`: every door through
   which money becomes access (section 3).
2. `Certificates`, `Certificates_proofs` (section 4).
3. `ExamSittings`, `ExamSittings_proofs`: registration to release; implements the
   issuing part of `Certificates` (section 5).
4. `DocumentPurchases`, `DocumentPurchases_proofs`, and `Ownership`, the abstract
   specification it implements; `Coursework`, `Coursework_proofs`, the player and the
   marker's desk; `ExamPapers`, `ExamPapers_proofs`, the question bank and the papers
   drawn from it (section 6).
5. `CandidateAccess`, `StaffAccess` and the `_proofs` of each (section 7).

Each component `M` has an `MCM` module with its instances. Definitions commented
`mutant` in a component are plausible bugs in the code, used by no specification: put
in the place of the definition after them, they make a property fail.

To come: `EnrolmentLife`, an abstract life cycle of one enrolment that `Enrolments`
implements; `LockOrder`, the row locks alone, for deadlock; `Announcements`, the manual
and the scheduled send and the withdrawal.

Every property of a passing run is also a theorem, but for the three liveness
properties `PaidIsConfirmed`, `PaidIsOwned` and `SittingsEnd`. `OnePaper` (section 6) is
a theorem and in no run.

## 3. Enrolments

### State and actions

| model | code |
|---|---|
| `payment`, `enrolment`, `card` | rows of `Payment`, `Enrolment`, `IdCard`; id 0 is NULL |
| `registered`, `number`, `drawn` | `Candidate` rows, `candidateNumber`, its sequence |
| `checkout` | the provider's order: none, open, paid (external) |
| `events` | `WebhookEvent` rows by event id |
| `job[w]` | the request worker `w` is in: where it stands and what it read |
| `confirmed`, `strayed` | history only: applied confirmations; cohorts somebody was let into without their lock since they were last counted |

`CreatePaymentAndEnrolment`, `FindAbandoned`/`CreateRetryPayment`,
`InitiateGuestCheckout` and `RegisterForExam` start a payment. The call to the provider
that ends such a request opens an order (`OpenCheckout`), or throws, with no order or
with one whose answer was lost (`LoseAnswer`), and the payment is marked FAILED
(`WriteFailed`): the order of a FAILED payment may be paid all the same.
`ReceiveNotice` is the webhook up to and including the insert of the event and the read
of the payment. `confirmPayment` is three steps, because its row locks let others in
between: `ConfirmLock` (payment and candidate locked, enrolment read, not locked),
`ConfirmPlace` (cohorts locked and counted), `ConfirmCommit` or `ConfirmRefused`. An examination fee and a guest's
payment need no cohort, and are one step each (`ConfirmExamFee`, `ConfirmGuest`,
`ConfirmGuestRefused`). `RequestDies` is a crash, a lost connection, a deadlock
victim, a transaction time-out: a job ends with what it had committed.

`enrolment[e].schedules` counts the deadline schedules generated for an enrolment.
The unique indexes modelled are `enrolment_one_live_per_programme`, the event id,
the candidate's e-mail (`registered`), `IdCard.replacesId` and the live card number.

### Left out on purpose

Amounts (a staff entry is full or partial), dates of single deadlines, e-mails,
notifications, audit rows, permissions, the wording of payment references, and gaps
in the number sequence. A transfer is one step: it decides under the locks of the
cohorts it enters. A paid order is never charged twice and is closed once paid.

### Runs

| run | who and what | states | shows |
|---|---|---|---|
| Settlement | one candidate with a seeded enrolment, no cohorts; checkout, webhook, staff entry, refund, completion, reset, card reissue, examination fee; 2 workers, 2 payments, 2 enrolments, 3 cards | 4.7 M | types, one live enrolment, nobody unpaid, number, card and schedule |
| Seats | two candidates and a guest, two intakes, each with one cohort of one place; webhook, transfer, refund, guest checkout, registration, completion; the provider is Squadco; requests may die; 3 payments | 2.7 M | a counted place is still free at commit, unless somebody was let in past the locks; a guest's access is paid for |
| Liveness | one candidate, 2 payments; checkout, webhook, staff entry and failure mark, lost answers; fair, no deaths, no refunds | 14 k | money paid is confirmed in the end, but for part payments; a confirmation is applied once |
| Irreversible | a staff entry and a failure mark of one payment | – | what a comment promises and the code does not do (section 8) |

Why the bounds are enough: each hazard needs two requests on one row, and the races
that need three (two late confirmations and a refund between them) are reached with
two workers, because a confirmation that has finished leaves its trace in the
rows. Two payments of one enrolment give a failed one and its retry, or one late and
one entered by staff; two enrolments give one refunded and one opened after it; one
place per cohort makes every confirmation the last, and the third payment of Seats
lets the two candidates and the guest contend. `MaxPayments`, `MaxEnrolments`,
`MaxCards` bound rows created, and `Deaths` says whether requests may die; the guards `SparePayment`,
`SpareEnrolment`, `SpareCard` refuse a *new* request for want of rows, never a step
of one under way, so a bound never makes a request fail that the database would have
served. Seeded rows are what `tests/enrolment-transaction.test.ts` starts from.
Workers are interchangeable (symmetry) in the runs without liveness. Deadlock is
checked in Settlement, where every path can go on; in the others the instance may
really run out of requests. The beta bypass (`NombaBypass`) is off in the runs: with
it a confirmation begins without an order, and the theorems cover both.

`CountedRoomStays` says that the place a confirmation counted under the cohort locks is
still free when it commits, or that the cohort is in `strayed`: somebody was let in
since by a write that does not hold that cohort's lock. Such writes are a completion or
a reset, which bring back a refunded row from a status they read before the refund, and
a confirmation that found no room and writes back the seat it read before a transfer
(`LetIn`; section 8). A count under the locks strikes the counted cohorts from `strayed`.

### Fairness

`FairSpec` has weak fairness on every worker's next step: a handler that has begun
runs to its end. The provider repeats a notice until the server answers (strong
fairness per notice, strong only because the model has two workers and the server has
no such limit). Nothing is assumed of candidates or staff. `PaidIsConfirmed` is claimed
without deaths and refunds: with a death it does not hold (the lost notice of section 8).
It is claimed of each payment that staff never book a part of (`PartOf`): the part makes
the payment SUCCESS, and the provider's notice of the whole sum, if the payer pays it
too, is dropped (`ConfirmAgain`). Full staff entries are in the run: they confirm the
payment themselves, or find it confirmed.

`AppliedOnce` says that a payment's confirmation is applied a second time only where a
failure mark has overwritten the first, which section 8 says can happen. Its mutant
confirms without the row lock.

### Proofs

`Enrolments_proofs` proves, for any sets of candidates, programmes, intakes, cohorts
and workers, any mix of requests, either provider, bypass on or off, and any bounds:
`TypeOK`, `OneLiveEnrolment`, `ActiveOnlyIfPaid`, `NumberIffConfirmed`,
`OneLiveCard`. The module also proves `NumberIsForLife`, `ScheduledIfDated`,
`CountedRoomStays` and `AppliedOnce`. The assumptions are those named in `Enrolments`
(`CandidateAssumption` ... `SeededAssumption`), evaluated by TLC on every run.

The properties are not inductive as stated. The invariant `Inv` adds what they rest
on: `RowsTied` (a payment of an enrolment is its candidate's; a payment of nobody is
a guest's and was never confirmed), `JobsTied` (a request under way names rows that
exist, and what it saw ACTIVE had been paid for, so that writing it back opens
nothing), `NumbersTied` (numbers come from the sequence, each once) and `CardsTied`
(a card carries its holder's number, a retired one has a successor: hence the unique
column refuses a second reissue of it). For `ScheduledIfDated` the extra part is
`SeenScheduled`: a confirmation that read ACTIVE and will therefore generate nothing
read a row that has its schedule already. One lemma per action and part; the
temporal step is the last.

`CountedRoomStays` needs the locks. `Roomy` adds that a counted seat is in a cohort of
the intake that was read and of the row's programme (`SeatFits`), and that the cohorts
of a programme and intake are locked by one confirmation at a time (`OneHolder`). Then
every other step either lets nobody into a cohort with a counted place or puts it in
`strayed` (`PlacesKept`, one lemma per kind of step), and a set nobody enters does not
grow (`NobodyEntersFuller`, on cardinalities).

`AppliedOnce` rests on the row lock of the payment. `Once`: what was confirmed reads
SUCCESS or FAILED, a payment being confirmed does not read SUCCESS, and one confirmation
at a time is under way. Each step leaves the payments as they are, marks one FAILED, adds
one or books one with no confirmation of it left (`PaymentsMove`), and keeps, drops or
takes a free lock (`LocksMove`); one lemma per group of actions.

Only model-checked: `PaidIsConfirmed`, which is liveness.

## 4. Certificates

| model | code |
|---|---|
| `cert` | `Certificate` rows; an id is its place in the number sequence, 0 is NULL |
| `template` | whether `findActiveTemplate` finds one: from the first activation on it does |
| `passed[s]` | whose pass the result of sitting `s` on record is |
| `job[w]` | a revocation, re-issue or course completion between its read and its write |

`IssueCertificate` is one action: it re-reads the sitting `FOR UPDATE` and
`sittingId` is unique. `FindToRevoke`/`RevokeCertificate`,
`FindToReissue`/`ReissueCertificate` and `CompleteCourse`/`MintCourseCertificate` are
two, because nothing is locked in between; what a re-issue writes to the original
depends on the status it *read*. `SuccessorAdmitted` is the pair of unique columns
`replacesId` and `supersededById`.

| run | who and what | states | shows |
|---|---|---|---|
| Certificates | an examined and a taught holder, one sitting, four certificates, three workers | 249 k | the links agree, one valid certificate per line and per sitting, invalid for good |

Three workers are two writers of one certificate and a third that crosses both; four
certificates are an original, two generations of successors and one of another line.
Deadlock is not checked: numbers run out.

`OneValidPerAward` speaks of a *line* (an original and its re-issues) and of a sitting.
It does not say that a course has one certificate: two completions may each mint one,
and so may a completion after a revocation. Nor does it say that a revocation wins
over a re-issue that crosses it: the successor stays valid, and the original reads
SUPERSEDED instead of REVOKED.

`Certificates_proofs` proves `TypeOK`, `LinksAgree` and `NeverValidAgain` for any
holders, sittings, workers and bounds, and that a valid certificate has no successor;
from these it proves `OneValidPerAward`.
The invariant adds to `TypeOK` that an unused number has an empty row (`Blank`): only
so does the link that a re-issue writes to its successor point at a row nothing else
refers to. The steps are sorted by what they do to the rows (`Issues`, `Revokes`,
`Reissues`), each with a lemma, and the actions are shown to be instances.

`OneValidPerAward` needs no induction along a line. `Line(k)` is the smallest set that
has `k` and the successors of its members (`Successors`), so whatever such a set has,
the line has at most. A valid certificate has no successor: it is all of the line that
starts at it (`ValidEndsItsLine`). As no two certificates name one predecessor
(`LinksAgree`), of two certificates of a line one is reached from the other
(`LineIsChain`); if both are valid they are therefore one.

## 5. ExamSittings

| model | code |
|---|---|
| `registration`, `fee` | `ExamRegistration` rows and the status of the payment of each |
| `sitting` | `Sitting` rows, named by their registration (`registrationId` is unique); `overdue` is whether the server's clock has passed `expiresAt`, `referred` whether the conduct review holds it back |
| `answered`, `mark` | `SittingAnswer` rows of written questions, `Mark` rows of those |
| `issued`, `template` | certificates of sittings in order of issue, and whether a template is active |
| `job[w]` | the request worker `w` is in, with the answers or sittings it read |

`FindPlace`/`RegisterForExam` are the checks and the insert of `registerForExam`;
`OpenCheckout` and `CheckoutFailed` end it. `FindToSubmit`, `FindToForfeit` and
`FindToExpire` are the reads that open the three transactions, `SubmitSitting`,
`ForfeitSitting` and `ExpireSitting` their writes by id: the row lock of the update
makes the rest of each transaction one step. `ReadWindow` is the query of
`releaseResults`; then one `SkipSitting` or `ReleaseSitting` per sitting, in any order,
and `CertifySitting` after a pass. `FindUncertified` is the bulk issue. Left out: which
questions a paper has (written ones only: objective ones are marked within the
submission), eligibility, the dates of a window, percentages (a release chooses the
outcome), claims and moderation of marks, the programme's result, notices. A fee is
confirmed by `ConfirmExamFee` of `Enrolments`; here that is `FeeConfirmed`.

| run | who and what | states | shows |
|---|---|---|---|
| Examinations | one candidate, one window, two attempts, one written question, two workers | 1.3 M | one live registration, released is marked, never reopened, certificates as promised |
| SittingsEnd | one attempt, one request may die, fair, the sweep scheduled | 15 k | every sitting ends |

Two attempts put two sittings in one window, so that a release has more than one to go
through and stops half way; two workers are any two of the requests that cross on one
sitting. A second candidate would differ from a second attempt only in the attempt
gate. Capacity is never the limit of these instances: it is checked outside the
transaction and nothing is claimed of it. Deadlock is not checked, since attempts run
out.

*Refinement.* `CertificatesAsPromised` is `Certs!Spec`, the specification of section 4
with `cert`, `passed` and `job` replaced by state functions: the k-th entry of `issued`
is certificate k, `passed[r]` is the candidate of `r` while the outcome on record is
PASS, and no request for revocation or re-issue exists. So every release and bulk issue
that the model can interleave is an `IssueCertificate` for a pass on record, or nothing.

*Fairness.* `SittingsEnd` needs three things. A request under way finishes or fails (weak
fairness of `Proceed`; `RequestDies` may still end it). The clock goes on (weak
fairness of `TimeRunsOut`). And `SweepIsScheduled`: something calls
`api/cron/expire-sittings` again and again (strong fairness of `FindToExpire`, per
sitting; strong because two workers may be busy with others for ever, which a server that
takes every call is not). The last is an **assumption on the deployment**, not something
this code guarantees: `vercel.json` has no crons and `lib/scheduler.ts` does not run the
sweep; `docs/ARCHITECTURE.md:444` says that it is called every hour, and the comment of
the route that the deploy target's scheduler calls it. Without it an abandoned sitting
stays in progress for ever. Nothing is assumed of the candidate.

### Proofs

`ExamSittings_proofs` proves `TypeOK`, `OneLiveRegistration`, `NeverReopened`,
`ReleasedIsMarked` and the refinement `CertificatesAsPromised` for any candidates, windows, questions, attempts, workers and bounds. The invariant ties
requests to rows: whatever a request is about to write to was entered (`JobTied`), a
sitting belongs to a registration that was entered, and no registration is ever taken
away (`EntriesStay`). The last two make a registration's row new when it is written,
so that the index decides between it and the live ones; the first keeps a late write
of a request from creating a sitting nobody registered for.

`ReleasedIsMarked`, proved in the same module, is not inductive: the release
asks for the marks of the answers it *read*, while a submission or an expiry that read
the sitting in progress may still be about to queue answers for marking. The
strengthening says why that is no matter. What such a request read is among the saved
answers (`ReadInv`), what is queued was saved (`MarksInv`), and a sitting to be
released was over when its answers were read (`Covers`), so that they include
everything queued by then and everything a request begun before may yet queue; nobody
begins another, since what is over stays over.

The refinement rests on `IssueInv`: nobody has a result for a paper never handed out,
and the certificates issued are for registrations on record, each once. So there are at
most as many as registrations, and the next number is free whenever one is issued (a
counting argument). Steps that touch neither results nor certificates stutter; a
release is `PassSitting` or `ReferSitting` or a stutter; `CertifySitting` is `IssueCertificate`, or a stutter where the row exists or no
template is active. By composition, what section 4 proves of certificates holds of those
issued here: `CertificatesValid` says so of `OneValidPerAward`.

Only model-checked: `SittingsEnd`, which is liveness.

## 6. Documents, coursework, papers

### DocumentPurchases and Ownership

| model | code |
|---|---|
| `template`, `code` | `DocumentTemplate` (switch, price, copies sold, revenue) and `DiscountCode` rows (switch, redemptions) |
| `payment`, `purchase` | `Payment` rows with what each was opened for; `DocumentPurchase`, one row per candidate and template |
| `checkout`, `events` | the provider's order (external) and the notices received |
| `job[w]` | price and code as read, the purchase found, the payment being confirmed |

`PricePurchase` reads price and code, `FindPurchase` looks for a purchase to retry,
`CreatePayment` is the transaction that writes payment and purchase (a retry re-points
the purchase), `OpenCheckout` the call to the provider, `LoseAnswer` that call throwing
though the order was made. `ReceiveNotice`, `ConfirmLock`
and `ConfirmCommit` are the webhook's confirmation, `MarkPaymentFailed`/`WriteFailed`
the failure mark, the rest the edits of staff.

Run `Documents` (688 k states): one buyer, one template at one of two prices, one code
for one redemption, two payments, two workers, one of which may die, one edit. One
buyer with two tabs is every pair of requests that share a purchase; two buyers share
only the counters of the code and the template, which `BooksBalance` compares with the
confirmed payments, and those two tabs already increment them twice. Deadlock is not
checked: payments run out.

*Refinement.* `OwnedAsPromised` is `Own!Spec`: payments are orders, a candidate and a
template an item; an order is taken when the provider has the money, booked when its
payment was confirmed, an item owned when its purchase says so. So each step of the
library opens an order, takes money, hands over one item for one paid order, or
changes none of it, and what is handed over is never taken back.

*Liveness.* `PaidIsOwned` under `FairSpec`: weak fairness of a request's own steps,
strong fairness of the delivery of each success notice, which the provider repeats
until the server answers (strong because two workers may be busy with others for ever,
which a server that takes every call is not). It excludes behaviours in which a request
died: a death may lose a notice for good (section 8). It is about the payment a purchase
points at: money for one that a retry has left behind is outside it, and buys nothing.

*Proofs.* `DocumentPurchases_proofs` proves `TypeOK` and the refinement for any buyers,
templates, codes, prices and bounds, with and without the bypass. The invariant
`Inv == TypeOK /\ RowsInv /\ JobsInv` adds that a payment was opened for somebody and
something (`PaymentsTied`), that a purchase points at a payment opened for it
(`PointsHome`), that what a confirmed payment was for has been handed over
(`HandedOver`), that a job's rows exist (`JobTied`) and that one confirmation at a time
holds a payment (`OneAtATime`). Whatever the abstract library promises is then true of
this one: `OwnedIsPaid` says that nobody owns a document no order of theirs was paid for.

`BooksBalance` compares counters with sums over the payments. `Terms` says that a
purchase carries the code and amount of the payment it points at, and a confirmation
under way those of the payment it locked: so a counter is moved by what the payment was
opened with, however it was re-pointed since. `Total` is a recursive function over the
payment ids; the lemmas on it (a sum one term of which changes, two sums that agree)
are proved by the least id at which they would fail. Only `PaidIsOwned` stays with TLC.

### Coursework

| model | code |
|---|---|
| `progress`, `submission`, `mark` | `LectureProgress`, `DraftingSubmission` by lecture and attempt, the `Mark` of each |
| `quiz`, `result` | `QuizAttempt`, and the scores the drafting side of `ProgrammeResult` is the mean of |
| `job[w]` | the steps, attempt or mark as read |
| `returned`, `asked` | history since the last reset: the scores of returned marks, the steps requests read a row for |

`completeStep` is a read and a write by id: `CompleteStep`/`WriteSteps` when the player
asks, for any authored step, `CompleteOwnStep`/`WriteSteps` at the end of a submission
(`FindToSubmit`/`WriteSubmitted`/`CreateMark`, three statements, no transaction) and of
a quiz that was passed (`StartQuizAttempt`, `FindToGrade`/`GradeAttempt`). At the marker's desk
`ClaimForMarking` is one locked transaction; a return, a moderation and an amendment
are `FindMark`/`WriteMark` and then `CommitReturn` or `CommitModeration`, which
recompute the standing from what the transaction sees; `RequestResubmission` creates
the next attempt under its unique index. `ResetEnrolmentProgress` deletes the lot.

Run `Coursework` (3.8 M states): one lecture with a draft and the module's quiz, one
resubmission, one marker, two requests at once, any number of resets. One lecture is
enough because a request writes one lecture's rows; the standing is per lecture before
the mean is taken. The marker's score and the moderator's differ, so that a standing
shows whose it is. `ResetStartsOver` counts the steps a lecture shows that no request
has asked for since the last reset: one at most, of a request that found no row before
the reset and creates one after it. What a request read in a row is not written back,
because it writes by the row's id and the row is gone; written with an upsert, as
`savePosition` writes, the old progress would come back (the mutant).

*Proofs.* `Coursework_proofs` proves all five properties for any lectures, attempts,
steps, requests and bounds. The invariant
`Inv == TypeOK /\ Tied /\ JobsTied /\ OneWriter /\ Safe` says why a write by a stale
request does no harm: the steps it read in a row it read since the reset (`JobAsked`),
and it can write only if the row is still that one; the scores it is about to make the standing of are of marks
returned, or of the one it returns itself (`JobStanding`, `ReturnedKept`); a draft about
to be queued is closed (`JobTied`); and two transactions never write one mark at once
(`OneWriter`).

### ExamPapers

| model | code |
|---|---|
| `draw`, `status`, `options`, `correct` | `Module.examQuestionDraw`, `ExamQuestion.status`, the ids of its option rows, those with `isCorrect` |
| `sitting`, `paper`, `chosen` | the sitting, its `paperSnapshot`, the saved choices |
| `answerKey`, `saved` | history: what was right when the paper was drawn; every choice saved |
| `job[w]` | the edit, draw, autosave or marking under way, with what it read |

An edit of a question deletes its option rows and creates others in one transaction
(`UpdateExamQuestion`, `DeleteOptions`, `ReplaceOptions`: the update of the question
row comes first and locks it). A paper is drawn in two queries (`DrawPaper`,
`ReadOptions`), and `StartSitting` stores a copy without the key. Marking reads the
bank's key at that time (`FindToMark`, `MarkObjectives`, `FinishSitting`). An answer saved
names an option of the paper, because the candidate's page offers no others;
`saveSittingAnswer` does not compare the two, and what it does with an id from elsewhere
is not modelled.

Run `Papers` (3 M states): an objective and a written question in a module that draws
one or none, one sitting, two edits, two requests at once: two edits that cross, or an
edit that crosses the drawing, the saving or the marking.

*Proofs.* `ExamPapers_proofs` proves `TypeOK`, `OneKey` and `NoUnearnedMark` for any bank,
sittings, requests and bound, and `OnePaper` (a second start, or an edit, leaves a paper as
it was drawn), which no run repeats. Option ids are fresh: a row never becomes
right after it was created, so what a paper shows and the bank still has is right now
only if it was right then (`Agrees`, part of `SatInv` for papers and of `JobTied` for
papers on their way). `BankInv` says that an objective question has one list with one
right option; it rests on the lock of the question's row (`OneEditor`).

## 7. Accounts

### CandidateAccess

| model | code |
|---|---|
| `account` | the `Candidate` row: none, active, suspended |
| `code`, `spent` | `EmailOtpChallenge` and `PasswordResetOtpChallenge` rows; what was done on the strength of each (history) |
| `session`, `sitting` | `Session` rows (expired, extended for which sitting, revoked) and the cookie each one's browser holds; sittings in progress |
| `job[w]` | the request, the code or session it found, codes it is deleting |

`RequestCode`, `DeleteOutstanding`, `CreateOtpChallenge` send a code; `FindToVerify`
and `VerifyOtpChallenge` check it; `FindVerified` and `ConsumeVerifiedOtp` (a delete by
id that at most one request gets through) use it up, before `RegisterCandidate` or
`WritePassword`, `RevokeForReset`, `CreateCandidateSession`. `FindSession`,
`ExtendForSitting`, `Admit`, `RefuseExpired` are the check every page makes. Suspension
and reactivation are two steps each. A request may die after any of its writes.

A session's cookie is one that goes when the browser is closed, or one of a day
(registration, a new password, Google, a ticked sign-in); extending the row does not set
it again, so `CookieLapses` and `SessionExpires` let a remembered browser be extended
once at the most, in the moment between the row's expiry and the cookie's, and cut off
after it. That nobody is cut off in a sitting is therefore not a property here (section 8).

Run `Access` (2.5 M states): two codes (one found, one newer), one session, two sittings
(one to extend the session for and then another), two requests.
Deadlock is not checked: codes and sittings run out.

*Proofs.* `CandidateAccess_proofs` proves `TypeOK`, `CodeUsedOnce`, `GoneIsFinal` and
`RevokedIsFinal` for any number of codes, sessions, sittings and requests. The invariant
`TypeOK /\ CodeUsedOnce /\ SpentIsGone /\ InOrder /\ JobsInv`: a request between using a code up and
acting on it holds a code that is gone and unspent (`JobTied`), no two hold the same
(`OneHolder`), and codes are numbered as they are sent, so a new one is nobody's.

### StaffAccess

| model | code |
|---|---|
| `staff`, `grants` | `Staff` rows (role, status), `StaffPermission` rows |
| `signedIn` | accounts with a live session |
| `link`, `spent` | `StaffInvitationToken` rows, and those consumed |
| `proof` | a verified one-time code for the address |
| `toggled` | history: permissions set by hand since the last preset |
| `job[w]` | the request: actor, target, snapshot, and the conflicts its transaction is in |

`Authorise` is the permission check every staff action begins with, outside the
transaction it precedes. `OpenTransaction` takes the snapshot of a preset, deactivation
or suspension (and counts the other super admins: `assertNotLastActiveSuperAdmin`);
`ApplyRolePreset` and `EndStanding` are its commit. These three run at SERIALIZABLE,
modelled by what PostgreSQL is certain to detect: the row to be written has changed
since (`"lost"`), or the transaction counted a row another one wrote and wrote a row
another one counted (`"in"` with `"out"`). PostgreSQL may roll back more; any request
here may die (`RequestDies`) before its commit. All other writes (`SetPermission`,
`LiftSuspension`, `InviteStaff`, `InvalidateOutstanding`/`ResendInvitation`,
`FindLink`/`ConsumeLink`/`SetStaffPassword`, `ConsumeProof`/`WritePassword`/
`SettleSessions`, sign-in) are READ COMMITTED and take no part in the detection.

Run `Staff` (834 k states): two super admins and a third account that may be invited,
three requests at once, four in all, one link. Three at once are the ring of three
transactions, of which no two need conflict both ways.

*Proofs.* `StaffAccess_proofs` proves `TypeOK`, `SuperAdminRemains` and
`GrantsFollowRole` for any staff, requests and links. `SuperAdminRemains` needs to say
why a count that has gone stale cannot commit. `CountInv`: an open transaction that
would unseat a super admin and may still commit has counted others; unless one of them
was unseated (then it has `"out"`), they are all super admins still; unless somebody
who counted its target has committed (then it has `"in"`), somebody else remains.
`PairInv`: of two such transactions the later counted the earlier's target, so that one
commit leaves its mark on the other. `GrantsFollowRole` needs `UnseenInv`: the permission
rows a preset's delete does not see were toggled since its snapshot.

## 8. What the code does and its comments do not say

Run `Irreversible`, which TLC finds violated, is quoted in `PROJECT.json` under
`findings`: SUCCESS overwritten by FAILED, against "Irreversible" in
`actions/payment.ts:327`. Its shortest trace is a part payment that staff book between the
read and the write of a failure mark (`actions/payment.ts:361-367`); a full confirmation is
overwritten in the same way, and the other two writers of FAILED, which go by the payment's
id as well, overwrite both (`api/webhooks/[provider]/route.ts:67`,
`actions/payment.ts:154`).

The models have these behaviours as well, each against a comment of the code; no run of
its own shows them, and no property is stated that they would break. Paths are under
`src/src/`.

| what happens | where | against |
|---|---|---|
| a notice is recorded, the request dies, and the provider's next delivery is answered 200 unprocessed | `app/api/webhooks/[provider]/route.ts:119` | `:88-90` |
| a guest's money is attached to nobody, since the address was registered meanwhile and the failed insert has aborted the transaction | `lib/enrolment-transaction.ts:118-120` | `:113-117` |
| an expiry that read IN_PROGRESS overwrites a submission, and the paper is never released | `lib/exam-sitting-actions.ts:431` | `:403-405` |
| an edit of a question takes a saved choice away (its foreign key is ON DELETE SET NULL), though the paper is frozen | `lib/exam-builder-actions.ts:291-298` | `:262-266` |
| a session that a browser holds until it is closed is extended for a sitting again and again | `lib/candidate-session.ts:209` | `:198-204` |
| the cookie of a remembered session lapses after its day and is not set again when the row is extended: that browser is cut off in the sitting | `lib/candidate-session.ts:75-84`, `:210-211` | `:198-200` |
| the player's own call marks a drafting or a quiz step done with nothing submitted or passed | `lib/player-actions.ts:164-173`, `app/actions/player.ts:17-24` | `lib/player-actions.ts:354-356` |
| a completion or a reset brings back a row refunded since it was read, and a confirmation without room writes back a seat the row has lost to a transfer: both enter a cohort without its lock, past the place another payment has counted (`strayed` records it, `CountedRoomStays` allows for nothing else) | `lib/player-actions.ts:397`, `lib/enrolment-transaction.ts:224` | `lib/enrolment-transaction.ts:49-51` |
| an amendment that crosses a return leaves the standing one write behind | `lib/marking-actions.ts:60` | `:51-52` |
| two activations find one invitation link live and both get through; the second sets its password and ends the first's sessions | `lib/staff-invitation.ts:103` | `:97-99` |
| two resends that cross leave two live links | `lib/staff-invitation.ts:52` | `lib/staff-auth-actions.ts:253-255` |
| a reset by code sets ACTIVE an account suspended in between; so does a late activation | `lib/staff-auth-actions.ts:365-371`, `:212-222` | `:284-288`, `:191-197` |

Behaviour that no property forbids because the repository does not say what should hold;
the hazards of `PROJECT.json` name the lines: a payment confirmed a second time after a
stale FAILED; a seat written back after the enrolment was moved to another intake; a
second schedule of deadlines after a reset; Squadco's pending notice using up the event
id of the success; an enrolment ACTIVE without intake, seat or schedule when its checkout
named none; a refund undone by a completion that had read ACTIVE; an activation undone by
a completion that had read PENDING_PAYMENT; a part payment booked by staff, after which
the provider's notice of the whole sum is dropped; an abandoned document payment paid
after all, when a retry has re-pointed the purchase; more attempts than the
policy permits when two registrations cross; an answer saved after the submission, which
leaves the sitting unreleased; a code of the library redeemed once more than its cap by
two purchases priced before either was confirmed; a finished step lost to another
request's write of the set; a new password set and the old sessions left open, where the
request died between its three writes (`actions/candidate-auth.ts:495-498`); a submission
without a mark, where the request died between the two (`lib/player-actions.ts:239`);
MANAGE_STAFF revoked from every super admin.

## 9. Not modelled

See the table of section 1 and `components` in `PROJECT.json`, where each part has its
status and reason. In short:

- Announcements (planned): a send and a withdrawal each read the announcement's state
  outside the transaction that writes it (`lib/announcements.ts:54`, `:99`). Deliveries
  are unique per recipient and channel, notices are not: two sends that cross notify a
  candidate twice, and a withdrawal may overwrite SENT. No decision reads a notice.
- Programme, website, blog, review and support editing, and the Azubi forms: rows
  written one at a time by one editor, with no protocol between requests.
- Uploads, e-mail, PDF and the React pages, which are most of the repository's lines:
  they render or transport what the modelled tables hold and decide nothing.
- Of modelled components: an examination's own status, windows and checklist; the
  locking of lectures by order and date, deadline dates and the watch progress of
  videos; bands and weights of marks; rate limits and attempt caps, the guessing of
  passwords and tokens; staff sign-in codes and expiry times; categories, files and
  watermarks of documents; audit rows and notices, which no decision reads.
- Lock queues: a deadlock victim is a request that dies.
- Out of the prover's reach, and left to TLC: what holds under fairness
  (`PaidIsConfirmed`, `PaidIsOwned`, `SittingsEnd`). ENABLED, induction over data and
  RECURSIVE operators are out of its reach too; no theorem needs them.
