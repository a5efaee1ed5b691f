# A formal model of the Ciro fuel delivery backend

The repository is a NestJS backend (`src/src`) on MongoDB and Redis/BullMQ. Clients (station
owners) order fuel from fuel companies, transport companies haul it, drivers deliver it.
Several processes serve requests at once, share one database, and run timers through BullMQ.
There is no lock and no in-memory state that matters: correctness rests on *conditional
writes* (an update filtered by the status it expects), unique indexes, and MongoDB
transactions. A handler usually loads a document, decides, and writes later. What may happen
between the load and the write is what unit tests do not reach and what this project is about.

## 1. Inventory

| Component (source) | State | Operations | What makes it hard |
|---|---|---|---|
| Order state machine (`orders/services/order-state.service.ts`) | `Order.status` | `transition` | every caller is check-then-act |
| Orders (`orders/orders.service.ts`, `orders.controller.ts`) | order document, its driver/truck/tank references | create, approve, reject, accept, redispatch, cancel, force-complete, reassign vehicle, deliver | handlers act on the order they loaded |
| Routing, dispatch (`dispatch/services`) | `transportCompanyId`, `activeOrderId` of driver, truck, tank | route, assign | two operators, one driver or one order |
| Vehicle verification | attempts on the order | verify departure, verify loading, override | the truck checked is the truck that was loaded |
| Invoices (`invoices/invoices.service.ts`) | one invoice per order | issue, settle, void | payment, settlement and cancellation in any order |
| Payments and payment timeout (`payments`) | `PaymentEvent` per gateway transaction, a BullMQ job per order | webhook, schedule, cancel, time out | repeated and late deliveries, reused job ids, deaths between two writes |
| Users (`users`) | account, `activeOrderId` of drivers, phone number | activate, deactivate, change the number | half-released state, several writes in no transaction |
| Litre balances, supplier invoices | balance, movements, confirmed invoices | draw down, return, reconcile, restate, correct | orders judged before the transaction that uses the judgement |
| Credit and billing, platform account | limits, rates, accruals, movements | issue, settle, void, pay, pay out, reverse, request a limit | an aggregate is read, then a document inserted |
| Handover codes (`otp.service.ts`) | `otps[]` of the order, Redis plaintext | issue, show, verify, invalidate | records addressed by array index |
| Stop detection and its escalation | `stopEvents[]`, BullMQ job | sweep, declare, report, answer, resolve, escalate | death between record and schedule |
| Scheduler lease | Redis key | run exclusively | the work may outlive the lease |
| Assignment escalation | BullMQ job, SMS stamp | schedule, acknowledge, escalate | message sent before it is recorded |
| Tracking and presence | presence, positions, session generation | frames, sign-ins, presence sweep | a frame checked before a sign-in and written after it |
| Fuel exchange | offers, proposals | raise, answer, award, withdraw, migrate | an answer racing the award |
| Announcements | delivery rows, notifications, tallies, BullMQ job | compose, fan out | redelivery after a death |
| Sessions, login codes, abuse limits (`auth`) | sessions, codes, Redis counters | sign in, refresh, sign out, reset, request and verify codes | double consumption, counters without expiry |
| Companies, regions, warehouses, pricing | prices, fees, rates, regions, depots | quote, place, approve, route, edit | everything a price depends on is edited between its steps |
| Stations | stations of a client, the default one | create, update, favourite, remove | read, then write, in no transaction |
| Trucks, tanks, tenant scope, notifications, files, support, ratings, geocoding, health, throttling | various | | not modelled, see section 6 |

`PROJECT.json` lists the components with their status, and under `hazards` what can go wrong
in each, with its line and the property that covers it, or why none does.

How they interact. `orders` calls `dispatch/routing`, which prices the haul and issues the
invoice in one transaction and schedules the payment timeout after it. The webhook and the
timeout worker race for the order through `transition`. Cancellation and completion release
what dispatch booked and return the litres placing drew. Assignment queues the text-message
job; departure makes the delivery visible to the stop sweep. Deactivating a user releases a
driver behind the order's back and ends its sessions, which the tracking gateway checks frame
by frame. A suspended company is skipped by routing, by announcements and by the exchange.

## 2. Modules

| Module | Models | Proofs |
|---|---|---|
| `OrderState` | statuses, table of transitions, the override rule | |
| `OrderContract` | abstract: what a customer is promised about one order (stages of the sale, state of the bill) | |
| `OrderLifecycle` | every handler that moves an order, books or releases a driver, truck or tank, or touches its invoice | `OrderLifecycleProofs` |
| `PaymentWindow` | webhook, timeout queue and timeout worker of one DIRECT order, step by step, with deaths, stalls and failed transactions | `PaymentWindowProofs` |
| `LitreLedger` | the litres a company owes one client in one grade | `LitreLedgerProofs` |
| `CreditBilling` | one company, one client and the platform: invoices, credit limit, rates, accruals, payouts | `CreditBillingProofs` |
| `SchedulerLease` | the Redis lease of a fleet-wide sweep | |
| `StopDetection` (extends `SchedulerLease`) | stops of one delivery, the sweep that raises them, the escalation job | `StopDetectionProofs` |
| `DriverTracking` | one driver's devices, frames and presence | |
| `AssignmentEscalation` | the text message for one assignment | |
| `FuelExchange` | offers, blind answers, awards, and the migration script of the old exchange | `MarketProofs` |
| `Announcements` | one announcement and its fan-out job | `MarketProofs` |
| `PricedHaul` | one order from quote to bill while companies, rates, prices, regions and depots are edited | `MarketProofs` |
| `Sessions` | sessions of one account, of either kind | `AccessProofs` |
| `LoginCodes` (extends `Sessions`) | sign-in by code and its Redis counters | `AccessProofs` |
| `PhoneChange` | change of the phone number by code, and by profile edit | `AccessProofs` |
| `StationRegister` | the stations of one client | `AccessProofs` |
| `HandoverOtp` | the two codes of a handover, write by write | |
| `MCOrderLifecycle`, `MCPaymentWindow`, `MCMoney`, `MCTimers`, `MCMarket`, `MCAccess` | instances for TLC | |

### Grain of atomicity

The same rule everywhere, taken from the code:

* one conditional write, or one MongoDB transaction whose reads and writes meet in the same
  documents, is one step (a conflicting transaction is run again by the driver);
* a handler that *uses* something it read outside the write that needs it is split there, and
  waits in a request, call or flight variable meanwhile; any other step may come in between;
* two transactions that read an aggregate and write different documents both commit (snapshot
  isolation): a snapshot step and a commit step (`CreditBilling`);
* writes that follow each other with no transaction are separate steps, and where a death
  between them is modelled, the process may die there.

BullMQ is external and modelled as the code uses it: adding an existing job id is a no-op,
removing a job a worker holds throws, a job is removed when its processor returns, and a
stalled one is handed out again a bounded number of times. Redis keys expire by themselves.

### OrderLifecycle and the code

A variable per document field (`status`, `driverId`, `truckOrder` = `Truck.activeOrderId`, ...)
and an action per handler. `cancel`, `forceComplete`, `reassignVehicle`, `verifyVehicle` and
`verifyDelivery` write what they loaded: they are split into `Load`, which keeps the snapshot
in `req[r]`, and a commit. `Abort` is every way such a handler can fail. The unique partial
indexes on `activeOrderId` and the unique `orderId` of invoices are in `Bookable` and
`RouteOrder`. Abstracted: prices and litres; the geofence (a verification inside it may or may
not happen); `isActive` and permits of trucks and tanks (they only narrow `AssignDriver`'s
choice); notifications. The job removal that follows a commit is part of the action here and is
taken apart in `PaymentWindow`. One timing assumption, `WindowOutlivesRequests`: a handler
that loaded an order before its payment window opened has ended when the window (30 minutes)
closes.

### PaymentWindow and the code

`RecordEvent`, `ApplyPayment`, `PaymentRemovesJob` and `RefuseOutOfSequence` are the webhook
between its awaits; `LoadOrder`, `RevertOrder`, `FinishJob` the timeout processor; `Schedule`
and `CancelRemovesJob` the queue calls callers make *after* their commit. Each process may die
between two steps, a transaction may fail, a worker may be paused past its lock and go on. A job
handed back more than `maxStalledCount` times is failed by BullMQ, which nothing handles
(`Stalled`); the history variable `dropped` counts those jobs.

### The money modules

`LitreLedger`: `balance` is the `LitreBalance` document with its history; `PlaceWithDrawdown`
and `CancelReturning` are the two order transactions that touch it; `LoadForConfirm` /
`CommitConfirm` and `LoadForReplace` / `CommitReplace` are the supplier-invoice endpoints, which
judge the order before their transaction starts. Litres are thousandths, hence integers.
`CreditBilling`: `ledger` is the platform's `AccountMovement` collection; `SnapshotIssue` and
its commit the transaction of `issueForOrder` with the client document it writes on purpose;
payouts are a snapshot and an insert under a unique reference; limit requests are resolved by
a conditional update.

### The timer modules

`StopDetection`: a run of the sweep (`sweepPc`) reads the stalled drivers, pushes a stop under
a filter that refuses a second open one, and schedules its escalation job; the worker claims
the stop by stamping `escalatedAt` and notifies. `lapsed` names the runs whose lease expired under them.
`DriverTracking`: a frame is load-and-check, touch presence, write position.
`AssignmentEscalation`: the worker reads order and phone, sends, records.

### The market modules

`FuelExchange`: a call (`propose`, `decline`, `award`) is checked first and waits in `calls`
until its write; `buildDetail`'s filter is `NamedToRaiser`, the summary's `AwaitingAnswer`.
`Announcements`: `deliverTo` is an insert under a unique index (`DeliverTo`), a notification
(`Notify`) and a link (`Link`). `PricedHaul`: amounts in cents with the code's rounding; quote
tokens keep the rates they were made with; routing is a pick and a commit.

### The access modules

`Sessions`: `activeSessions`, `sessionGeneration`, tokens and the audit log; a call loads,
commits and signs in three steps. `LoginCodes` adds codes and the counters with `INCR` and
`EXPIRE` apart; its `AccountSpec` is one account signing in by password and by code at once
(only an administrator's account, the `capped` kind, has codes). `PhoneChange`,
`StationRegister` and `HandoverOtp` follow their services write by write; the verifications of
`PhoneChange` are a set of documents ordered by `createdAt`, as `confirm` sorts them.

## 3. Runs

| Run | Instance | Shows |
|---|---|---|
| `order_lifecycle` | 1 driver, 2 trucks, 1 tank; either 1 order, 2 handlers, 2 timeouts or 2 orders, 1 handler | `BusyDriverHauls`, `BookedVehicleIsRecorded`, `HaulKeepsVehicle`, `HaulIsBilled`, `InvoiceIsFinal`; the handlers implement `OrderContract` (`KeepsContract`) |
| `payment_window` | 2 workers, 2 windows; either 2 payments, 1 fault or failed transaction or 1 payment, 2 faults and 1 failed transaction | `AcceptedPaymentIsLinked`, `ConfirmedEventIsLinked`, `PaymentIsNeverUndone`; under fairness, `TimerClosesWindow` |
| `money` | 2 orders, 2 invoice requests; 3 bills, 2 limits, 2 payouts of one reference, 2 limit requests | `BalanceIsSumOfMovements`, `MovementBacksStandingInvoice`, `CancelledOrderHoldsNoLitres`, `DrawdownIsCovered`; `LedgerFollowsInvoices`, `CreditIsCovered`, `ReferencePaidOnce` |
| `timers` | 2 sweeps, 2 stops, 2 workers, 1 crash, 2 deliveries; 2 devices | `OneOpenStop`, `OneAlertPerSilence`, `UnlapsedSweepIsAlone`; liveness `SilenceIsHeard`, `SweepGoesOn`, `DisplacedDeviceGoesDark`, `UnreachedDriverIsRecorded` |
| `market` | 3 firms, 1 offer, 2 calls; 2 administrators, 2 workers, 1 death; 1 order, 2 stations, 2 haulers, 2 edits | `AwardIsSettled`, `AwaitingMeansAnswerable`, `NoticesMatchOutcome`; `AnnouncedOnce`, `TallyIsExact`; `BillIsQuotePlusHaul`, `HaulerAnswersToItsParent` |
| `access` | cap 2, 2 calls; 2 verifiers, 1 death; 2 users, 3 numbers; 4 stations, 1 removal at a time | `AuditTellsWhoIsIn`, `GuessesAreMetered`, `NumberWasTexted`, `DefaultNeverLapses` |
| `handover` | 2 codes, 2 issuing calls, 2 verifying calls, 2 mishaps | `WrongGuessesLockOut`; liveness `HandoverGoesOn` |
| five more | the same instances | each violates one statement of the repository, see section 5 |

`MCMoney`, `MCTimers`, `MCMarket` and `MCAccess` put several components into one run. These
share no document, so their product would only multiply states: a variable (`part`, `timer`,
`floor`, `desk`) chosen in the initial state says which component the behaviour steps, and the
others stand still. What two components do share is modelled inside one module instead
(`LoginCodes` extends `Sessions`, `StopDetection` extends `SchedulerLease`). In `MCMoney` the
platform ledger and the client's limit meet only in issuing an invoice, so each is checked
with that and without the other. In `MCTimers` the racing sweeps and the queue are two
behaviours: with a sweep at a time the queue's workers and their deaths fit the bounds.

`MCOrderLifecycle` and `MCPaymentWindow` split one component in the same way. Of an order's
handlers, "races" runs two at once on one order; "contention" has two orders over the same
vehicles with one handler in flight, and leaves out the payment timeout, which touches no vehicle.
Of a payment window, "races" has both payments and one death, stall or failed transaction;
"queue" leaves the second payment out and has the two stalls after which BullMQ drops the job,
with a failed transaction on top.

The bounds. Two calls in flight are what a race needs, and both may be of any kind. Two trucks
let a reassignment change the truck; a second order lets a release hit the wrong one. Two
timeouts are the client's limit for redispatch. Two payments and two workers let a second one
meet what the first left; two windows make the job id's reuse happen; faults may fall
anywhere, and two of them exceed `maxStalledCount`. Two handover codes let an old one and a new
one be out at once; three were checked as well, with the same result. Litre quantities make one delivery short, one exact and one in excess, and a
balance smaller than the order that draws on it. Rates and fees are chosen so that rounding
goes both ways. Limits of attempts are 1 to 3, so both sides of each are reached. Where a
safety property is also proved (section 4), no bound limits it.

`CHECK_DEADLOCK` is off where a bounded component really stops: every code drawn, every bill
settled, every edit made. It stays on for orders and payments.

Symmetry: interchangeable request slots, orders and trucks only, and never in a run with
liveness.

Each property has a mutant in `PROJECT.json`: a `Bug...` definition that stands for a slip the
code could contain (a dropped status filter, a missing index, a swapped order of writes) and
under which TLC finds the property violated.

### Fairness

* `payment_window`: the queue calls that follow a commit, a worker's and a webhook's next step,
  the delivery of a due job, BullMQ's discovery of an abandoned one. A running Node process
  takes its next step, and BullMQ's delay and stall checks are timers. Nobody is obliged to
  pay, cancel or reopen. The bounds of `MCPaymentWindow` stop no action that fairness obliges.
  `TimerClosesWindow` excuses a failed transaction and a dropped job; the code recovers from
  neither.
* `timers`: a sweep that has started goes on, the interval fires, Redis expires keys, delays
  elapse, a free worker takes a waiting job, a living worker goes on, a dead worker's text
  message job is handed out again, and clocks run. Drivers and administrators owe nothing.
  `SilenceIsHeard` excuses behaviours in which an instance dies, because a death between push
  and schedule does lose the escalation, as a throw there does (section 5).
* `handover`: calls go on and codes expire; and, an assumption about people rather than code,
  a driver at the station keeps asking for a code while there is none and keeps submitting the
  one shown. Strong fairness is needed there: the code on show comes and goes.

## 4. Proofs

All constants are arbitrary sets and numbers: any number of orders, calls, workers, recipients,
stations or codes. The assumptions are the named `ASSUME`s of the modules: that `None`-like
values are not ids, that quantities, prices and rates are numbers, that a depot has a distance
and a product a price, that somebody may verify a code, that bounds are naturals and counters
are capped above the limits they are compared with.

* **Types** (`TypeCorrect`, `WindowTypeCorrect`, `StopTypeCorrect`). In `PaymentWindow` the
  counter needs `WindowsBoundCounts`: a worker about to revert the order loaded a count below
  the number of windows opened, however old its snapshot.
* **Vehicles** (`VehicleStaysBooked`, `VehicleBookedOnce`). Inductive together. A release acts
  on what a snapshot named; what saves an order in use is that the vehicle it names is the
  only one booked to it.
* **Drivers** (`BusyDriversHaul`). Not inductive alone: a handler releases the driver of the
  order *as it loaded it*. `SnapshotOfHaul` says why that is the right one: an order once seen
  hauled is hauled or over ever after, and its driver is never replaced.
* **Bills** (`HaulsAreBilled`). `BillingInv`: an order routed to a company has a bill, only a
  cancelled order's bill is void, a hauled order has a bill, and a DIRECT order waiting for or
  under haul has paid. **Finality** (`InvoicesAreFinal`) follows from the types.
* **Refinement** (`ContractIsKept`). Every action of `OrderLifecycle` is one step of
  `OrderContract` or none.
* **Payments** (`AcceptedIsLinked`, `ConfirmedIsLinked`, `PaymentsAreKept`). `PaymentInv`: a
  linked order has left `PENDING_PAYMENT` for good, and a handler past its transaction holds
  the payment the order is linked to.
* **Litres** (`MovementsAreBacked`, `DrawdownsAreCovered`, `BalancesAreSums`,
  `CancellingGivesBack`). `LedgerInv`: an order has at most one reconciling movement, only an
  order among `reconciledOrderIds` has one (`MarkedOnce`, why the refusal of a second
  reconciliation works), and it is backed by a standing entry. The lemmas underneath say what
  the search, the removal from and the append to a history do. For the sums, `HeldInv`: the
  balance is the total of its history; an order not placed holds nothing, a placed one
  holds the litres of its one drawdown if it has one, a cancelled one holds nothing. A total is a
  recursive function, and the proof needs only its defining equation and two lemmas, on
  appending a movement and on taking one out.
* **Payouts** (`ReferencesArePaidOnce`). Movements are only added and a confirmation keeps kind and source, so a reference once paid
  stays where the unique index finds it (`PayoutInv`).
* **Credit** (`ApprovalsAreCovered`). `CreditInv`: a snapshot that may still commit was judged
  on the debt and the limit as they stand now (`OpenIsCovered`), because every write that could
  raise the debt or lower the limit conflicts with it on the client document and dooms it. The
  debt is counted as a set of units, so that issuing a bill adds a finite disjoint set.
* **Platform account** (`LedgerFollowsTheInvoices`). `FollowInv` says, per invoice and state,
  which movements the ledger holds: no commission before issue, one at most while the invoice
  stands, with cashback only once settled, and the commission beside an equal reversal when void
  (the reversal copies the amount booked, not the rate of the day).
* **Stops** (`UnlapsedSweepsAlone`, `StopsOpenOneAtATime`, `SilenceIsToldOnce`). A run whose
  lease has not lapsed owns the key (`UnlapsedOwnsKey`). For alerts, `AlertInv`: an alert is
  preceded by the stamp, a claim is held on a stamped stop that has not alerted, and by one
  worker only.
* **Exchange** (`AwardsAreSettled`, `NoticesAreTrue`, `AwaitedOffersAreAnswerable`).
  `ExchangeInv`: answers and the award calls in flight carry prices, a call is about an offer
  that exists, an offer not yet raised has no answers, and what the migration script has
  written at each of its stages. For the notices, `NoticeInv`: a call that has notices to send
  is about an offer that still stands as its own write left it, an offer that went to nobody has
  no winner, and a company passed over lost to another.
* **Announcements** (`RecipientsAreToldOnce`, `TalliesAreExact`). `AnnounceInv`: a worker between
  the row and the link owns its recipient: the row is bare, no other worker serves it, and the
  notification, if any, is its own. `TallyInv`: the tallies plus what the workers have yet to
  add are at most the notifications and misses there are, and equal to them while no worker
  died or threw.
* **Prices and haulers** (`BillsAreQuotePlusHaul`, `HaulersAnswerToTheirParents`). `HaulInv`: the
  rates on the order are those the client was shown from the placing on, and the final price is
  computed from these and the fee alone (`PricedAsShown`); the company register ties each
  administrator, parent and region list (`Register`); a routing in flight has picked a
  transporter of the supplier (`RoutedToOwn`). That rounding moves one cent at most is
  `RoundedSum`.
* **Phone numbers** (`ProvedNumbersWereTexted`). `ClaimsAgree`: whoever holds a code (a
  request in flight, a stored verification, a confirmation, the text message) pairs it with one number.
* **Stations** (`NeverTwoDefaults`, `DefaultStandsWithOneRemover`). At most one default holds for
  any number of calls: it is the unique index. That there is one holds only under the hypothesis
  `OneRemover`; two removals at once violate it (run `default_never_lapses`). `DefaultInv`: there is
  a default unless the one removal in progress has just withdrawn it, a withdrawn station is
  never marked, and what that removal read still stands.
* **Login codes** (`CodesCannotBeWornDown`). `MeterInv`: each comparison is in the failure
  counter, in a verifier that has yet to count it, or died with its process (`GuessBound`, and
  `CodeBound` for the attempts of one code); after the block, the verifiers that had already
  passed the check are the remaining slack.
* **Sessions** (`LogTellsWhoIsIn`). `SessionInv`: an id handed to a login in flight is unused in
  log and list (`CallsInv`); a token, or a call about to issue one, is `Vouched`: it has its
  sign-in row, and is in the list of open sessions or named by a row that ended it; the log's
  last wholesale revocation carries the current generation (`LogInv`). `Keeps` states once what
  each step preserves of all this.

Only model-checked: liveness under fairness (`TimerClosesWindow`, `SilenceIsHeard`,
`SweepGoesOn`, `DisplacedDeviceGoesDark`, `UnreachedDriverIsRecorded`, `HandoverGoesOn`), which
this prover does not reach, and `WrongGuessesLockOut`: the records of `HandoverOtp` are searched
and pulled with the recursive operators on sequences, which are out of its reach too. Every other
safety property of the passing runs is a theorem. The runs
check them nevertheless, on the instances of section 3, because only TLC shows that the cases
arise and that the mutants break them. `DriverTracking` and `AssignmentEscalation` have liveness
properties only, hence no proofs. The type invariants of modules without a type theorem
describe the state; what the proofs need of them is restated in their invariants.

## 5. Where the code and its documents disagree

Each run below violates one sentence of the repository; `findings` in `PROJECT.json` quotes it.

* `departs_in_verified_truck`: verification and reassignment, both begun before departure,
  let the order depart in a truck that was not verified.
* `payouts_are_covered`: two payouts under different references both read the balance before
  either commits, and together pay more than is owed.
* `decline_is_anonymous`: "never the declining company's identity", says `buildDetail`; an award
  turns every other answer into `NOT_SELECTED`, and the detail then names those who declined.
* `hauler_serves_station`: an order to a client's second station is routed and priced by the
  region of the station embedded in the user document.
* `default_never_lapses`: two removals at once leave active stations and no default.

Observed in the models while writing them, and not kept as runs:

*Orders.* A cancellation or delivery that loaded the order before a reassignment leaves the
new truck or tank booked to an ended order (`orders.service.ts:623`). A driver deactivated in
mid-delivery and activated again can be given a second delivery (`users.service.ts:415`).
Approve, redispatch, accept is legal for a DEFERRED or CREDIT order, which then waits for a
driver with neither transporter nor invoice. A timed-out order routed again to no single
transporter stays in `AWAITING_ROUTING` with its invoice, and later routings fail on the
unique index. A cancellation that loaded the order before it was invoiced leaves the invoice
`ISSUED`. A reassignment that loaded the order before departure changes its truck after it.

*Payments.* A window reopened while the previous timeout job still exists gets no timer
(`orders.service.ts:457`). A payment applied while a worker holds the job cannot remove it and
its event is marked `OUT_OF_SEQUENCE`. A webhook that dies after recording leaves a `CONFIRMED`
event no order links, and retries are answered as duplicates. A delivery refused for its
signature consumes the transaction id. A worker paused past its lock can close the next window
early with a stale `paymentTimeoutCount`. A timeout job whose worker dies or stalls once more than
`maxStalledCount` is failed for good, and a failed transaction is taken by the worker for a lost
race: either way the order waits for payment until somebody pays or cancels.

*Money.* Rejecting an order does not return its drawdown (`orders.controller.ts:496`). Two
concurrent replacements, or an exact confirmation racing another, leave two standing invoices
(the balance stays right: `MovementBacksStandingInvoice`). One pending limit request per
client is a check before an insert: two may be pending at once, and both be granted. The commission ceiling is judged on entering the attempt,
so racing approvals may each cross it. The unique sparse index on `reconciledOrderIds` also
indexes empty arrays. Quote and drawdown report different remaining balances when it is negative.

*Timers.* Rescheduling an assignment job is a no-op while the old id exists, though its comment
says "replaces". `forceComplete` does not cancel the assignment escalation and the processor
only checks `CANCELLED`. A sweep that dies between push and schedule leaves an open stop that
blocks later ones and never escalates, and so does one that throws there
(`stop-detection.service.ts:213-223`); a worker that dies after stamping `escalatedAt` loses
the alert. A frame checked before a sign-in elsewhere still writes one position. A redelivered
job may send the text message twice.

*Market.* A proposal checked while the offer was open and inserted after the award stays
`PROPOSED`. A migration that dies between its two inserts is not repaired by running it again.
A fan-out that dies between row and notification leaves the recipient untold; one that throws
leaves the announcement `QUEUED`; a recipient reinstated before a redelivery is still skipped.
An administrator's `finalPrice` is discarded at routing, which prices the order anew, although
`orders.service.ts:400-402` says the override stands and `invoices.service.ts:126-132` leaves out
the breakdown on its account: `BillIsQuotePlusHaul` speaks of orders approved at their estimate. The hauler's status and regions are not rechecked between pick and commit.

*Access.* A driver's login whose password was compared before a reset commits survives the
reset. A displaced driver's sign-out in flight ends the new session. One login code submitted
twice at once opens two sessions. `verifyCode` does not recheck `isActive`. A counter whose
`EXPIRE` was lost never lapses. A profile edit changes the phone number without a code, and a confirmation in
flight may overwrite it. A locked-out handover code cannot be replaced until it expires,
though the message says to request a new one; racing issues can show the client a code that
does not open; marking a code used by its index may burn another record, or pad the array with nulls at which
every later search throws; wrong guesses judged before the first is counted are all judged. Racing creations of
stations fail on the unique index; a client whose creation dies half-way has no station.

## 6. Not modelled, and the plan

Trucks and tanks: registers with single-document writes; their effect on dispatch is a vehicle
not being offered. Tenant isolation: query rewriting inside Mongoose, one request at a time.
Notifications, files, support, ratings, geocoding, health: thin wrappers around storage and
external services. Rate limiting by the framework's throttler, the dashboard, seed scripts:
no protocol of their own. Read endpoints and listings of every module: they return what is
stored.

What is left, in this order:

1. an abstract specification of the platform account (a balance that follows the invoices)
   and of the fan-out (each recipient once), with the refinements, on the invariants `FollowInv`
   and `AnnounceInv`;
2. the order and its litres in one module, so that the rejection path is checked together with
   the status machine.
