# TLA+ models of the ordering service

This directory holds TLA+ models of the ordering backend under `src/`, the TLC
configurations that check them on small instances, and TLAPS proofs of what holds for
every instance. Every definition was translated from the Go source; `PROJECT.json`
maps each one to its lines.

Shorthand for paths used below: OS = `src/internal/modules/ordering/order_service.go`,
RE = `.../ordering/repository_ent.go`, PP = `.../ordering/payment_policy.go`,
PR = `.../ordering/payment_retry.go`, OH = `.../ordering/outlet_handoff.go`,
POLL = `src/internal/modules/payments/payment_poller.go`,
LEH = `src/internal/modules/fulfilment/logistics_event_handlers.go`,
POS = `src/internal/modules/ordering/pos_event_consumer.go`,
SEQ = `src/internal/modules/documents/sequence.go`,
LOY = `src/internal/modules/ordering/loyalty_service.go`.

## 1. Inventory

The service is a Go HTTP server over PostgreSQL (ent), with NATS consumers and
background tickers in the same process; several replicas may run. Nothing is locked
across a call: a call reads rows, decides in memory, writes, and then calls other
services (treasury, inventory, loyalty, POS, logistics).

| Component | State | Operations | Talks to | What makes it correct |
|---|---|---|---|---|
| Order lifecycle (OS, RE) | the order row: status, payment status, timestamps, metadata | UpdateOrderStatus, CancelOrder, UpdatePaymentStatus, VerifyManualPayment, RefundOrder, RateOrder, DeleteOrder | staff and customer HTTP calls, all consumers, the poller; effects on treasury, inventory, loyalty, POS | the status machine is obeyed by what is stored, not only by what was read; one-time effects happen at most once; money and stock agree with the status |
| Outlet hand-off and acceptance (OH) | metadata stamps `outlet_offered_at`, `outlet_handoff_at` | offer, hand off, acceptance rule, fulfilment rule | POS through events | no unpaid online order in the kitchen; the outlet told of accepted orders only, when their preparation window opens |
| Pay-later, manual M-Pesa (PP) | payment method, verification fields | verify, settle the tender, record the collection | treasury | a tender is settled for an order that is paid |
| Payment retry (PR, OS) | intent column, intent keys of the metadata, attempt counter | RetryOrderPayment, createOrderIntent, RecordPaidIntent | treasury | every intent known, no single payment listed as paid twice, refund on the right intent |
| Payment poller (POLL) | none (reads orders) | sweep: check intents, confirm or cancel | treasury, order lifecycle | pays what is paid, cancels only what is not, eventually does one of the two |
| Treasury consumer | none | success events | order lifecycle | an event may come late, twice or never |
| Fulfilment events (logistics, POS consumers) | delivery assignments, collected tender | walk the order along the status machine | order lifecycle | reordered and redelivered events do no harm |
| Scheduler (`scheduler.go`) | the hand-off stamp | pass: claim the period, list what is due, hand over | outlet hand-off | every due order reaches the kitchen, a cancelled one does not |
| Cart and checkout | carts, reservations | add, update, check out, reserve stock | inventory, promo, loyalty | a cart is checked out once; reserved stock is released or attached to an order |
| Promo codes | usage counters | validate, redeem | checkout | limits respected |
| Loyalty | points balance, lifetime points, tier | earn, redeem, adjust | order lifecycle, checkout | balance equals the sum of its transactions, never negative |
| Document numbers | counters | mint the next number | checkout | no number twice |
| Event publisher | outbox table | write event in its own transaction | NATS | an event for every committed change |
| Group orders, addresses, catalog, identity, tenants, RBAC, SLA, compliance, Google Business, clients | projections and CRUD rows | | | see `components` in `PROJECT.json` |

Hard behaviours, in order of weight:

1. *Stale copies.* Every call works on a copy of the order row. The status write is a
   compare-and-set on `status` that also writes `payment_status` back from the copy
   (RE 685-718); the payment write is a compare-and-set on `payment_status` that writes
   `status` back from the copy (RE 661-683); refund and rating save the whole row
   without a guard (RE 513-562). Two calls in flight can undo each other.
2. *One-time effects after the write.* Points, stock, settlement, refund and hand-off
   run after the write has won (OS 1463-1506). Racing and redelivered calls must not
   run them twice; a crash in between loses them, except for the hand-off of a scheduled
   order, which the scheduler makes up for.
3. *Payment in three ways.* The event, the poller and a retry may all find the same or
   different intents paid, in any order, while the window closes.
4. *Many actors on one order*: staff, customer, POS, logistics, treasury, poller,
   scheduler.
5. *Events in any order.* Each subject has a consumer of its own, an event whose handler
   fails comes back (five deliveries), and an acknowledgement may be lost: two reports of
   one drop-off are handled at once, twice, or the later one first.
6. *Checkout is not one transaction.* The number, the reservation, the row, the promo
   redemption, the points and the cart are separate writes to three systems, and the
   client repeats the request when it hears nothing.

## 2. Modules and how they relate to the code

| Module | Models | Lines it follows |
|---|---|---|
| `OrderStates` | vocabulary and pure rules: status machine, fulfilment rule, acceptance rule, effects owed by a move or a payment | `domain.go`; OS 1345-1416, 1814-1827, 3143-3203; OH 117-194 |
| `OrderLifecycle` | one order row and the calls in flight on it | OS, RE, PP, OH |
| `OrderPromise` | abstract order: one edge at a time, each edge owes its effects once | the promise of OS 1455-1506 |
| `MCOrder` | instances for TLC | |
| `OrderLifecycleProofs`, `OrderPromiseProofs` | theorems | |
| `PaymentRetry` | one online order's intents, retries, success events, poller, cancellation | PR, POLL, OS 740-850, 1509-1639, 1960-2033 |
| `MCPayment` | instances for TLC | |
| `PaymentRetryProofs` | theorems | |
| `Fulfilment` | one accepted pay-on-collection order, its logistics task's assignment, and the POS and logistics events about them | LEH, POS, `logistics_unassigned.go`, `logistics_events.go`, `fulfilment/repository_ent.go`, PP 208-264, OS 1419-1506 |
| `MCFulfilment`, `FulfilmentProofs` | instances, theorems | |
| `DocumentSequence` | the order number counter | SEQ 67-96, 177-204 |
| `NumberSource` | abstract: numbers handed out only grow | what SEQ 67-96 promises |
| `DocumentSequenceProofs` | theorems | |
| `Loyalty` | one loyalty account and the calls that move its points | LOY 65-310, 358-369; `repository_ent_ext.go` 551-607 |
| `LoyaltyProofs` | lemmas on its types and its ledger, used by `CheckoutProofs` | |
| `Checkout` | composes `DocumentSequence` and `Loyalty` with the three checkouts, the inventory's reservations, the promo code and the cart | OS 188-612, 895-1102, 1509-1566, 2373-2603; RE 383-511, 888-911; `promo_service.go`, `repository_ent_ext.go` |
| `MCCheckout`, `CheckoutProofs` | instances, theorems | |
| `Handover` | orders just placed, their acceptance by checkout, staff or payment, their hand-over to the outlet, and the schedulers | OH 132-234; `scheduler.go`; RE 513-562, 661-718, 848-874; OS 672-729, 1419-1506, 1960-2028 |
| `MCHandover`, `HandoverProofs` | instances, theorems | |

**OrderLifecycle.** `row` is the database row, `terms` its write-once columns. A worker
is a goroutine running one call: `phase` says where it is, `snap` is the copy it read,
`todo` the effects its write won and it has not run. A call is split exactly where
another call can come in between: the read, the write (one SQL statement), every call
to another service. `CancelOrder` reached through a handler is two reads (the
handler's check and its own). `Left` is the return of a call. `captured` is the
customer's payment at the gateway or till; a `pay` call starts only after it, because the
consumer, the poller and the retry call `UpdatePaymentStatus` on treasury's word.
Counters `granted` are history: how often a write decided an effect. `Crash` ends any
call between any two steps and stands for a process death and for a request context
that ends. Effects another service answers are choices: treasury accepts or does not,
the order's metadata says the counter's terminal booked the tender or does not, stamping
the metadata succeeds or is only logged.

**PaymentRetry.** `order` holds the columns and metadata keys the payment code reads
and writes; `intent[i]` is treasury's state of the intent of attempt i (treasury keeps
one intent per payment reference, and the reference carries the attempt, PR). Each
metadata patch (`MergeOrderMetadataIf`) is one atomic step: it is a compare-and-set that
is retried. A patch whose five retries are used up is the `Fault` alternative. The window
has three stages because the poller compares with two instants: the deadline and the end
of its grace for prompts still processing. Every failure the code swallows (a treasury
call, a metadata write) is a `Fault`, counted against `MaxFaults`.
Treasury, external: an intent is opened, then succeeds or fails, and a failed prompt may
still be completed later. The poller's own rule to ask about earlier attempts
(POLL 56-75) only makes sense with such late completions.

**Fulfilment.** A handler takes an event (`Deliver`), then makes one database access per
step: the assignment's read is in `Deliver`, its write in `SaveAssignment` or
`ReleaseRider`, the order's metadata in `RecordTender`, `RecordTerminal`,
`StampDeliveryState` and `FlagNeedsRider`, the status walk in `ReadOrder`, `MoveOrder`
(the read of `UpdateOrderStatus`) and `ClaimOrder` (its compare-and-set with the
settlement it owes). `After` gives the order of these steps for each of the ten task
events. `order` is the row with the metadata keys the handlers write, `assignment` the row
of `order_assignments`, `queue` and `tries` the events not yet acknowledged. An error the
code only logs leads to the handler's next step (`Tolerated`), any other one, and a crash,
to a negative acknowledgement. A metadata merge is one SQL statement, and the flag of
`handleTaskUnassigned` is judged on the row it is merged into. Logistics and POS are
external: a task goes through its stages and sends a report at each, which may be lost;
POS may report anything at any time. The order is a pay-on-collection one because that is
what these events settle; refunds, payments and cancellations by others are in
`OrderLifecycle`.

**DocumentSequence and Loyalty** have one step per database access of `GenerateNumber`
and of the four calls that move points. A failed write of the counter may have landed
(`AttemptFails`). `SaveTier` writes the whole account back from the copy, as
`UpdateLoyaltyAccount` does.

**Checkout** extends both: the minters of the counter are the requests, the tellers of the
account are the requests and the desks. `Route` is the order of the steps on each path
(cart, items, guest), which differs in the code: the items path reserves before it numbers,
the guest path never redeems, and the items path validates a promo code without recording
a redemption. `phase` is the step a request is at, `Crash` stops it anywhere, and another
request with the same key is its repetition by the client. A form says whether its promo
code is given with the request or was attached to the cart before (then only its redemption
is left, OS 251-252), and whether the row it asks for is `storable`: the orders table takes
six payment methods and keys up to 255 characters (`internal/ent/order_create.go` 903-906,
`ent/schema/order.go`), and no path checks all of that before it reserves stock. Two orders' numbers are equal
when both come from the counter, or both from the legacy scheme, with the same count.
The inventory service is external: it answers a repeated key with the reservation made
under that key. That it does so even after the reservation was released is an assumption;
otherwise a late repetition would hold stock that nobody releases. A guest's cart is marked
checked out when the request fails as well (the deferred call), and the cart path does not
release its reservation when its insert fails, which the model keeps: with a key, the
reservation may belong to the repetition that has the order.

**Handover.** `row` holds the columns acceptance and hand-over look at; `handed` is the stamp
`outlet_handoff_at`. `given` holds what placement fixes: the payment terms, `slot`, when the
preparation window opens (0 for an order for now), and whether the order was placed without
any metadata, which decides whether a later save touches that column. Workers are the
checkout requests (named by their order), callers and schedulers. `own` is the order as its
checkout holds it: `acceptOrOffer` calls `UpdateOrderStatus`, which works on a copy of its
own and copies the status back only, and `BuildCheckoutResult` then saves the whole object
once or twice (`SaveOrder`; each save may also not happen or fail). `Claim` is the
compare-and-set of the status calls, `PayWrite` that of the payment calls; both go on to
`HandOver` (publish, or hold back while the window is closed) and `StampHandoff` when they
accepted the order. A scheduler claims the period (`claimed`, until `NewPeriod`), lists what
is due up to the limit (`Batches`, earliest first) and hands it over one order after the
other, in `batch`, without looking at the rows again (`HandNext`). `Crash` ends any worker at
any step. `told`, `accepted` and `refused` are history. Statuses past preparing are left out
of the calls: no acceptance or hand-over tells them apart. So are payments of cash orders,
which arrive with the delivery, and refunds.

**Abstractions.** Items, prices, names, addresses, loyalty amounts and event payloads
are left out: no property depends on them; an order's total is taken to be positive
(`planTransition` refunds nothing on a free order). The customer-visible attempt counters of a
retry are left out. Authentication and tenant scoping are left out. In
`OrderLifecycle`, intents are not distinguished (a payment has arrived or not);
`PaymentRetry` models them for the order whose payment is outstanding.

## 3. Runs

All runs have `CHECK_DEADLOCK FALSE`: an order that has ended, with nobody calling, is
a state in which the system rightly stops.

| Run | Instance | Shows |
|---|---|---|
| `order_all` | 2 workers, every kind of call, 2 calls besides status advances, one order per payment method | `TypeOK`, `NoUnpaidKitchen`, `RefundNeedsMoney`, `FinalizedIsStamped`, `DropOffIsKept`, `StatusCallsFollowMachine` whatever the stale writes do |
| `order_single_winner` | 3 workers, status calls only, 1 cancellation besides those the status endpoint makes | `EffectsOwedOnce`, `StockLeavesOnce`, and that the calls implement `OrderPromise` (`KeepsPromise`) |
| `order_late_payment` | violation | a payment that read the order before its cancellation hands the cancelled order to the outlet |
| `order_paid_cancel` | violation | a cancellation that read the order before its payment cancels it without a refund and erases the payment |
| `payment_retry` | 2 retries at once, 1 consumer, 1 poller, 1 retry allowed, 1 fault | `PollerSeesEveryIntent`, `ExtraMeansPaidTwice`, `PaidBeforeSweepKept` |
| `payment_ends` | 1 retry, 1 poller, 1 canceller, no success event at all, 1 fault | liveness: `WaitingEnds`, `PaidInTimeConfirms` |
| `payment_refund_intent` | violation | a retry that lists its intent late takes over the reference refunds are drawn on |
| `fulfilment_all` | 2 handlers, every event kind and staff calls, 2 reports, 1 fault, `MaxDeliver` 5, under `FairSpec` | `SettledOnce`, `ReleasedByOwnEvent`, and liveness: `GivenBackNotShown`, `DropOffCloses`, `CollectionCloses`, `TaskTracked` |
| `fulfilment_tender` | violation | the drop-off is settled as cash before the rider's M-Pesa is recorded |
| `checkout_all` | 2 requests in eight pairings, 1 desk, 1 fault, 2 attempts per number | `MintedOnce`, `NumberPromise` (the counter implements `NumberSource`), `LedgerAgrees`, `StockOfOrdersHeld`, `NoStockLeaks`, `RetryActsOnce`, `UsageBacked` |
| `checkout_points` | violation | a cancelled order gives back points that were never taken |
| `handover_all` | 2 orders in two pairings, their checkouts, 1 caller with 2 calls, 1 scheduler with `Batch` 1, 2 faults or crashes, under `FairSpec` | `StampIsTold`, `ToldWhenDue`, `StampKept`, `CancelledIsFinal`, and liveness: `DueReachesKitchen` |

The violations are listed under `findings`, each with the source line it contradicts.
Those of `OrderLifecycle` and `PaymentRetry` share one cause: a decision is taken on a
copy, and the compare-and-set that follows protects one column while the decision rests on
two. `fulfilment_tender` is an order of two events that nothing enforces, and
`checkout_points` a failure that is only logged although a later step counts on it. Two
more disagreements with comments of the source are not runs of their own but named in the
properties they limit, under `hazards` and in section 5: the stock leak of a payment method
the table does not take (`NoStockLeaks`), and the newer assignment of the same rider that an
older event undoes (`ReleasedByOwnEvent`).

**Bounds.** `MaxCalls` bounds the calls other than status advances; advances need no
bound, because the machine has no cycle of its own and only a bounded call can put a
status back. Two calls in flight are enough for every read-write race of two calls; the
third worker of `order_single_winner` adds a redelivery on top of a race; a rejection
through the status endpoint is an advance and so is not bounded, which is why one other
cancellation is enough there: both end in the same `CancelOrder`. `TermsSet`
takes one order per payment method, with and without held stock, redeemed points and
automatic acceptance; the rules look at these columns separately. `MaxRetries = 1`
gives two intents, the first and its successor, which is what the rules of `PaymentRetry`
tell apart (current and earlier, paying and not); `Intents` has one more so that an
attempt over the cap is visible. `MaxFaults = 1` lets any single call to treasury, any
single metadata write or any process fail. Workers and callers are interchangeable, so
symmetry is used in the safety runs and not in the liveness runs. In `fulfilment_all` two
handlers and two reports give every pair of events, in either order or at once, and each of
them again after a fault; the cases start the order in the kitchen and, with a rider on his
way, at the counter, so that two reports reach the drop-off; `MaxDeliver` is the code's own
limit. With one fault an event is never given up, which the liveness properties need:
after five failures the code drops it. In `checkout_all` two requests give every race of two
checkouts, a checkout whose payment method cannot be stored beside its corrected repetition
or on the other two paths, and a repetition after a crash or beside a running request; `MaxTries` 2 instead
of the code's 5 makes a used-up retry reachable; `PromoLimit` 1 and `Opening` 1 put both
limits within reach of two requests; the tier mark is within reach of one earning. In
`handover_all` one pairing has two scheduled cash orders that compete for a pass (`Batch` 1
instead of 200), one accepted by its checkout and one by staff; the other a scheduled prepaid
order beside one paid to the till. A call overlaps the checkouts and the passes; overlapping
calls of two callers, and overlapping passes of two replicas, are in the proofs only, which
bound neither. Two faults let an acceptance and the pass that makes up for it both die.

**Fairness.** `FairSpec` of `PaymentRetry` has fairness on two things. `WindowMoves`:
time passes. `Poller(p)`: the sweep runs on a ticker (started with the service, every two
minutes), is claimed by one replica per period, takes the oldest orders first, and each
treasury call has a timeout, so a step that stays possible is eventually taken. No
fairness is assumed of customers, staff, treasury, success events or retries: an order
ends although none of them ever moves. Faults are finite in number (`MaxFaults`); a
treasury that never answers again would keep an order open for ever, which is what the
code chooses ("a status check error never cancels"). `FairSpec` of `Fulfilment` is weak
fairness of each handler: consumers fetch in a loop and a handler that runs takes its next
step. Nobody has to report anything: the liveness properties speak of events that were
published. `FairSpec` of `Handover` has weak fairness of each worker's steps (a goroutine that
runs goes on, until it crashes), of a pass starting (the ticker of every replica fires each
minute, and the first to claim the period makes the pass) and of the next period. Time need
not pass, and nobody need call: `DueReachesKitchen` speaks of windows that are open.
`Checkout` and `OrderLifecycle` have safety properties only: nothing in the code takes up a
checkout that died.

## 4. Theorems

`OrderLifecycleProofs` and `OrderPromiseProofs` prove, for any set of workers, calls,
terms and bound, under the assumptions `CallsAssumption`, `TermsAssumption` and
`MaxCallsAssumption` (the constants have their types):

* `TypeCorrect` (`TypeOK`), `KitchenIsPaid` (`NoUnpaidKitchen`), `RefundIsCovered`
  (`RefundNeedsMoney`), `FinalizedStaysStamped` (`FinalizedIsStamped`), `DropOffStays`
  (`DropOffIsKept`), `StatusCallsObeyMachine` (`StatusCallsFollowMachine`).
* With status calls alone (`OnlyStatusCalls`): `OwedOnce` (`EffectsOwedOnce`),
  `StockOnce` (`StockLeavesOnce`), `ImplementsPromise` (`KeepsPromise`: the service
  refines `OrderPromise`).

*The inductive invariant of the first group* is `Safe`. None of the properties is
inductive alone, because a call in flight carries a copy of the row that it will write
back later. `Safe` therefore says of every copy what it says of the row. `Planned(w)`:
what a call is about to do was allowed on its copy. `Backed(r)`: a row, stored or copied,
of an online order that is paid or past pending belongs to a customer whose money has
arrived. `Stamped(r)`: a row past the drop-off has its timestamps. `SeenStamps(w)`: a copy
has no timestamp the row lacks, as timestamps are never cleared (`UpdateOrder` skips
empty ones). `GrantsBacked`: effects owed so far agree with all this. The two writes that
put old columns back then cannot break anything that is true of every copy.

*The second group* rests on the status compare-and-set: with status calls only, the
row's status never returns, so a copy whose status matches the row is the row itself
(`Shows`), and the effects counted so far are those of the path from pending to the
present status (`HistoryFits`). That gives each effect once and the step-by-step
refinement. The hypothesis is needed: a payment write puts back the status its call read
(run `order_late_payment`), and an order that comes back can owe its effects again.

`PaymentRetryProofs`, for any callers, consumers, pollers, staff, `MaxRetries` and
`MaxFaults` (`RetryBounds`): `RetryTypes` (`TypeOK`), `PollerAlwaysSeesEveryIntent`
(`PollerSeesEveryIntent`), `PaidBeforeSweepAlwaysKept` (`PaidBeforeSweepKept`),
`ExtraAlwaysMeansPaidTwice` (`ExtraMeansPaidTwice`). The invariant `RetryInv` says that the
recorded list has no intent twice and that all its intents belong to attempts claimed so
far (`ListedOnce`). There are at most `MaxRetries + 1` of those, so the list with the
current intent in front is never longer than what the poller is willing to check
(`SweepSeesAll`, a counting argument). For the sweep, `Holding` says that as long as no
check has failed, a payment made before it began is still ahead in its list.
`ExtraMeansPaidTwice` needs two facts more (`SuccessInv`): the intent noted as paying has
succeeded at treasury, and so has every intent a call is about to note, whichever way it
learnt of it; treasury never takes a success back (`SuccessStays`), so neither ages.

`FulfilmentProofs`, for any handlers, riders, kinds of events, cases and bounds
(`KindsAssumption`, `CasesAssumption`, `DeliveryBounds`, `NoRiderAssumption`):
`FulfilmentTypes` (`TypeOK`), `AlwaysSettledOnce` (`SettledOnce`) and
`AlwaysReleasedByOwnEvent` (`ReleasedByOwnEvent`). The invariant
`FulfilmentInv` ties the payment to the status, in the row and in every copy a handler is
about to write back (`PayFollows`): the order is paid exactly from delivered or completed
on. A settlement is owed only by a write that makes it paid, and that write compares the
status it was decided on, so there is one. `KindsAt` says which events can be at which
step, and a releasing handler's event names the rider of its copy, or none.

`DocumentSequenceProofs`, for any callers and number of attempts (`MaxTriesAssumption`):
`MintedOnceAlways` (`MintedOnce`) and the refinement `NumbersGrow` (`NumberPromise`). In
`SequenceInv`, `Growing` says that issued numbers increase and the row holds the largest
number taken; what callers have read need not be mentioned, since the swap compares.

`CheckoutProofs`, for any finite set of requests, desks, keys, carts, forms and bounds
(`FormsAssumption`, `RequestsAssumption`, `KeysAssumption`, `CheckoutBounds` and the
assumptions of the two modules it extends): every step of `Checkout` is a step of the
counter, so `CheckoutMintsOnce` and `CheckoutNumbersGrow` follow from the theorems above;
`CheckoutTypes` (`TypeOK`); `StockOfOrdersAlwaysHeld` (`StockOfOrdersHeld`);
`RetryAlwaysActsOnce` (`RetryActsOnce`); `UsageAlwaysBacked` (`UsageBacked`);
`LedgerAlwaysAgrees` (`LedgerAgrees`); `NothingLeaks` and `NothingEverLeaks`
(`NoStockLeaks`). `StockInv`
carries the stock: one key places one order (`KeysUnique`), requests and orders hold the
reservation of their key or none (`HoldsNamed`), and whatever is released belonged to a
cancelled order or to a refused request of a path without keys (`ReleasedForGone`). The
finiteness of the set of requests is needed only to count redemptions and numbers and to
take the largest legacy number.

The ledger (`LoyaltyProofs`): a call changes the balance with one write and books a
transaction with a later one, so in between the two differ. `LedgerInv` says by how much: it
counts the points of the calls between their writes one by one, as pairs of a caller and a
point (`Units`), which makes the sum over the calls a cardinality and needs no recursion. It
holds until a tier change writes an old copy back (`tierSaves`), and when no call is between
its writes it is `LedgerAgrees`.

Reservations: `NothingLost` says that without faults whatever is reserved and not being
released is held by a request on its way (`Early`) or by a standing order. It needs to know
what a request holds at each step of its path (`HoldsAt`: a request past the reservation
step on the cart path holds the one of its key, and so does its order), that a cancelled
order's reservation is being released (`GivenUp`), and that no table is out of use without a
fault. The loser of two repetitions does not release, and need not: the winner's order has
the same reservation. The code leaves a reservation behind in two cases, both on the cart
path, which does not release: the insert refuses the checkout's own values (`Unstorable`,
which `NoStockLeaks` names as its exception and `Has` carries along), and a checkout gives up
after its last try for a number. `NothingLeaks` therefore says
`Spec => [](TriesLeft => NoStockLeaks)`, for any number of requests.

When tries are left (`TriesSuffice`): contention alone can use them up only in a crowd.
`TriesInv`: the counter is at the number of requests it has minted a number for, and their
numbers differ (`NumbersApart`); an attempt fails only because another number has been minted
since it read (`Spent`, in `DocumentSequenceProofs`), so a request that failed `c` inserts has
seen the counter move `MaxTries * c` times (`SpentAt`); a clash is over a legacy number, never
over one of the counter (`ClashIsLegacy`), and each meets a larger one, all those below being
placed (`LegacyRunAt`). So a request that fails its last insert stands beside `MaxTries *
MaxTries` requests with a number of the counter and `MaxTries` with a legacy one
(`TriesCrowd`). With up to `MaxTries * (MaxTries + 1)` requests (`Enough`; 30 with the code's
5) this cannot be, and `NothingEverLeaks` is `Spec => []NoStockLeaks`: the first case is the
only leak left. The bound is sharp for
one try: with `MaxTries = 1` two requests leak nothing and three can, as TLC finds.

`HandoverProofs`, for any orders, callers, schedulers, cases and bounds (`CasesAssumption`,
`HandoverBounds`, `WorkersAssumption`): `TypeCorrect` (`TypeOK`), `StampsAreTold`
(`StampIsTold`), `ToldInTime` (`ToldWhenDue`), `StampsStay` (`StampKept`) and
`CancellationsStay` (`CancelledIsFinal`). The invariant `HandoverInv` says what a worker may
hold at each step (`HeldAt`): nobody but a payment call holds a cancelled copy, whoever
publishes or stamps holds an order some write accepted, and whoever stamps an order holds one
whose publication was tried. Rows, the checkouts' own objects and the passes' lists are
confirmed only if accepted. For `CancelledIsFinal`, a worker busy with an order that is
cancelled and that nobody sees otherwise is then a payment of a cancelled order (`AwayFrom`),
which leaves the status alone.

Every invariant and action property of a passing run is stated by a theorem above. Only
model-checked are the seven liveness properties (`WaitingEnds`, `PaidInTimeConfirms`,
`GivenBackNotShown`, `DropOffCloses`, `CollectionCloses`, `TaskTracked`, `DueReachesKitchen`): what must happen
under fairness needs ENABLED, which is out of the prover's reach. The runs that expect a
violation have no theorem either: what they check is false.

One convention of the models is for the proofs: a step that changes several fields of one
caller's record writes the record (`MintAt`), or updates it as `[@ EXCEPT ...]`, instead of
naming the caller's index twice in one EXCEPT.

## 5. Not modelled

Every component has its reason under `components` in `PROJECT.json`. In short:

* *Pure I/O*: platform clients, Google Business, notifications. They appear as the
  environment where a modelled component calls them.
* *Arithmetic on money*: pricing, fees, VAT, in floating point and unit-tested. No property
  here depends on an amount.
* *CRUD and projections*: addresses, catalog and stock projection, identity, tenants, RBAC,
  SLA, compliance, group orders: one row written per call, no protocol between calls.
* *Decided outside the repository*: the outbox poller (shared-events library), the
  deduplication of a second hand-off (pos-api), which the hand-off's comment relies on.
* *Generated code*: `src/internal/ent` (by far most of the repository's lines) and the API
  docs. The conditional updates, the unique indexes and the merges the services rely on are
  modelled where they are called.

Left out of modelled components, with what it would change:

* *Cart edits.* An item change that races a checkout writes the cart's old status back and
  makes it active again. `Checkout` shows already that the status does not keep one cart
  from being ordered twice: two tabs with two keys both read it active.
* *A lost reply of the insert.* The row is there and the request is refused; the next
  repetition is answered with the order. On a path without keys the order would stand with
  a released reservation.
* *Deleting an order* frees its idempotency key; not in `Checkout` (`OrderLifecycle` has
  the deletion).
* *The format of a number.* A tenant who configures a dated format like the legacy one could
  see the two schemes meet; the insert's retry covers it.
* *Errors between two writes of one loyalty call* and the mirror to pos-api: the ledger then
  misses a transaction, which the code logs.
* *The order's first minutes*: `Fulfilment` starts with an accepted order; `Handover` has them.

Two behaviours of the models contradict a comment of the source; the properties that come
near them say so:

* *Stock of an unknown payment method.* `POST /checkout` passes `paymentMethod` on as it comes
  (`order_handler.go` 747, OS 304-307). A value the enum lacks (`mpesa_manual`, which the
  request documents, or `payhero` and `cash`, which other paths rename) reserves stock at
  OS 291, fails the validators of the insert, and OS 355-358 returns without a release, with no
  error of any other system. PP 275 says that `releaseReservationOnError` frees "a stock hold
  taken for a checkout that then failed validation"; the cart path never calls it.
* *A newer assignment of the same rider.* `ReleaseAssignmentRider` compares the rider, so "a
  newer assignment written by a concurrent task.assigned event is never undone"
  (`fulfilment/repository_ent.go` 151-153, and `logistics_unassigned.go` 39-40) is so for
  another rider only. When a rider gives a task back and is assigned it again, the older event,
  handled late or on an older copy, takes the task from the rider; an assignment collected
  since the copy was read goes back to pending too.

Behaviours the models have and no property forbids, because no line of the source rules
them out: two successes recorded before either marks the order paid leave the second payment
unlisted (PR 210), and a success recorded after a refund, or after a stale cancellation that
erased the payment, replaces the paying intent; a promo code attached to the cart is redeemed
without a second look at its limit; a tier change writes an old balance back (`SaveTier`); two redemptions take a
balance below zero; concurrent checkouts use a promo code more often than its limit; a
crash after the insert leaves the redemption, the points and the cart undone, and the
repetition is answered with the order as it is; a stale update of the assignment brings a
released rider back; a scheduled order is handed over twice, because its checkout erased the
stamp or because acceptance and pass overlap, which pos-api is said to absorb (OH 135); an
order cancelled after a pass listed it is still handed over; a pickup or drop-off reported
before the kitchen marked the order ready moves nothing, and is acknowledged.
