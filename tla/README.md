# Formal model of the Ecomiq services

TLA+ modules, TLC instances and TLAPS proofs about the backend of this
repository: NestJS services under `src/apps/services/*`, each with its own
Postgres database, that call each other over gRPC and exchange domain events
over Pulsar through a transactional outbox (`src/libs/shared/pulsar`).
`PROJECT.json` lists components, runs, mutants, source lines, hazards, findings
and theorems; this file says how they fit.

## Inventory of the system

| Component | State | Operations | Talks to | What is hard |
|---|---|---|---|---|
| **inventory-service** (reservations, stock ledger) | `stock_level` (on_hand, reserved), `reservation`, `stock_movement`, audits | reserve (REST, gRPC), release, expire after 24h, commit to a sale, audit, receive a purchase, create/edit/remove a cell, alerts and reorder triggers | called by the saga over gRPC; consumes `orders.order.placed/canceled`, `purchasing.po.received`, its own delayed expiry | check-then-insert on idempotency keys, redelivered events, unlocked edits, thresholds around two movements |
| **order-service: checkout saga** | `saga_state`, its delayed timeout | start, validate discount, reserve lines, create intent, await payment; payment result, timeout and expiry handlers; compensation | gRPC to marketing, inventory, payment; consumes payment and reservation events | several handlers race one saga and one order row; crashes between an effect and its record; retries reuse keys |
| **order-service: orders** | `order`, `order_line` | update, cancel, advance the stage, lines, drafts | writes rows the saga writes too | whole-row saves of stale entities |
| **order-service: refunds, returns** | `refund`, `return_request`, `payment_status` | request, approve, decline, settle, fail; create, approve, reject, inspect, resolve, expire a return | commands payment-service and hears its results | sums read before the insert, rows loaded before another's save, results twice, a return waiting for its refund |
| **order-service: shipping rollup** | `fulfillment_rollup`, fulfilled quantities, `fulfillment_status` | roll a fulfillment up | consumes `shipping.fulfillment.created` | redelivered events, overlapping rollups of one order |
| **shipping-service** | `shipment`, `fulfillment`, delayed arrival check | draft, create, transition, cancel, delay, fulfill, carrier webhook | consumes `orders.order.placed`; feeds the rollup | transitions checked on stale rows, webhooks repeated |
| **payment-service** | `payment`, `webhook_inbox`, `refund_execution` | create and cancel an intent, take in webhooks, execute refunds, roll up the status | the provider; commands from and events to order-service | repeated, concurrent and late webhooks; a provider call before its record |
| **payment provider** (external) | intents, refunds | confirm, fail, refund | webhooks, repeated until answered | any order, any number of times |
| **purchasing-service** | `purchase_order` and its lines | draft (by hand, by a reorder trigger), edit, send, confirm, receive, cancel | consumes `inventory.reorder.triggered`; feeds inventory-service | cumulative receipt keys, multi-line receipts cut off half way |
| **notification-service** | `send_log`, delayed retries | dispatch, retry, give up, bounce | consumes `notify.send`; provider webhooks | attempts overlap, a row saved as it was before the provider answered |
| **crm-service** (orders) | customer rollup, `loyalty_account`, `loyalty_txn`, `referral` | count an order, accrue points, complete a referral | consumes `orders.order.placed` | three transactions for one event, overlapping accounts |
| **marketing-service** (usages) | `discount_usage`, `usage_count` | record, release a usage | consumes `orders.order.placed/canceled` | events repeated and overtaking |
| **outbox and relay** (every service) | `outbox`, one tick per instance | record with the domain change, publish the oldest rows, mark them | Pulsar | crash between publish and mark, two instances, failing rows |
| **identity, catalog, media**; the rest of crm and marketing | rows per service, sessions in Redis | CRUD, sessions, uploads | events over the outbox | see "Not modelled" |
| **ai, analytics, automation, cms, support; gateway; front ends** | none of their own | scaffolds, proxies, user interfaces | | not modelled |

What makes each modelled component correct: inventory — the reserved column is
the sum of the active holds, on_hand is what the ledger explains, a hold is
settled once; saga — one running saga per order, a failed saga is undone, stock
is sold only against a payment, a saga never waits for ever; payment — a webhook
marked processed was applied, refunds are real, the status keeps its lifecycle;
refunds and returns — shown only when settled, always answered; shipping — each fulfillment counts once, an overdue shipment is
noticed; purchasing — what was received is what reaches the stock; notification —
a pending message is never forgotten nor given up early; crm and marketing —
nothing is credited or counted twice, every order takes effect; outbox — nothing
recorded is lost, nothing uncommitted is published.

## Modules

    HoldLifecycle  PaymentLifecycle  RefundLifecycle  AtLeastOnce   abstract
      ^       ^      ^         ^       ^        ^         ^
      |refines \    /           \     /refines  |uses     |refines
    Inventory  Checkout         Payment      Refunds    Outbox      detailed
    Shipping   Dispatch   OrderEffects   Procurement
       |extends   |extends
    OrderFulfillment  SendLog      what others see of the two
    <Module>Proofs, ConsumersProofs, GoodsProofs      theorems (TLAPS)
    Sums   lemmas about sums over finite sets         MC<Module>   TLC instances

* `HoldLifecycle`, `PaymentLifecycle` and `RefundLifecycle` state what
  inventory-service and payment-service promise of one reservation row, one
  payment and the refunds commanded. `Inventory` and `Payment` are shown to
  implement them; `Checkout` and `Refunds` instantiate the same modules for the
  far side of their calls and commands, so the composition rests on checked
  promises. `AtLeastOnce` is what the outbox promises of events; all consumers
  take messages to be delivered any number of times, concurrently and in any
  order, once recorded, and no more.
* `Inventory` — the cells of one variant. `level[c]` is the row's two columns,
  `hold[h]` a reservation row, `received`/`drift`/`referenced` the ledger by
  what it adds up to. `StockMovementsService.record` is `Record`; one action is
  one transaction, or the unlocked read a later transaction relies on
  (`ReserveStockCheck`/`ReserveStockInsert`, `EditLoad`/`EditSave`,
  `RemoveCheck`/`RemoveDelete`, `ReceiveFindsNoCell`/`ReceiveInsertsCell`).
  Release, expiry and commit lock the reservation row first and are one action.
* `Checkout` — one order, its sagas (`Attempt`), the holds of its lines, its
  payment. An execution (`Proc`) is a request or message handler with what it
  holds in memory; each gRPC call or transaction is an action. TypeORM's
  `save()` writes back every column of the loaded entity that differs from the
  row, so an execution that loaded the order writes that order.
* `Payment` — the payment row, webhook inbox and refund executions of one order;
  provider calls are steps of their own, and `SELECT ... FOR UPDATE` is the
  guard `Lockable`.
* `Refunds` — the refunds and returns of one paid order. The request's sum
  (`Request`) and its insert (`InsertRequest`), each load and each save are
  actions; the settlement's transaction is two (`SettleSum`, `SettleCommit`),
  since it sums up before it commits, and holds its refund row meanwhile
  (`Locked`). Edits of the order save its payment status along with the row.
* `Shipping` — shipments and fulfillments of one order, and the consumer in
  order-service that rolls them up: `RollupSum` holds the order lines it
  increments, `RollupCommit` ends the transaction. The stage of the order stays
  in `Checkout`.
* `Procurement` — purchase orders with their lines, and the consumer in
  inventory-service that applies a receipt one line, one transaction at a time
  (`ApplyLine`). The receipt's key is the cumulative quantity, as in the code.
* `Dispatch` — `send_log` rows. A message of the broker is the command or the
  retry of one attempt; the provider's answer and the save are separate steps,
  so a bounce or a concurrent attempt comes between.
* `SendLog` and `OrderFulfillment` — the part of `Dispatch` and of `Shipping`
  that others see, the `send_log` rows and what the order shows as fulfilled,
  with the promise about it. They are extended by their module, and by the
  proof modules of two components, which can so name the promise.
* `OrderEffects` — what one order does in crm-service (three transactions) and
  marketing-service, with the accounts as they are loaded in each execution.
* `Outbox` — the rows of one service and its relays, one per instance.

In every module `work[p]` is where execution `p` is and what it holds in memory;
`Crash(p)` forgets it. A definition preceded by a comment `Mutant: ...` is a
plausible bug in the definition after it, and part of no specification:
`PROJECT.json` pairs it with the property that finds it.

## Runs

| Run | Shows |
|---|---|
| `inv_stock` | Ledger and holds agree under two concurrent reserve calls, redelivered receipts, audits, cell creation and removal: `ReservedMatchesHolds`, `StockConserved`, `OneHoldPerKey`, `NoOrphanRows`, `CrossingsAnnounced`; the refinement `ImplementsLifecycle`; `HoldsNeverLeak` |
| `chk_races` | Two sagas, two executions, one death: `OneRunningSaga`, `AwaitingIsBacked`, `FailedIsUndone`, `SoldOnlyIfPaid`, `PlacedNeverFails` |
| `chk_live` | `AwaitingSettles`, `CanceledFreesStock` under fairness |
| `chk_overlap` | Finding: a timeout takes a completed saga to compensating |
| `pay_webhooks_refunds` | `ProcessedWasApplied`, `RefundsAreReal`, the refinement `ImplementsLifecycle`; `WebhooksProcessed`, `RefundsSettle` under fairness |
| `box_relays` | `ProcessedWasPublished`, `OrderKept`, the refinement `ImplementsChannel`; `EventsDelivered` under fairness |
| `ref_settlement` | `ShownIsSettled`, `ResolvedIsRefunded`; `ProcessingAnswered` under fairness |
| `ref_requests` | Finding: two refund requests exceed the order's total |
| `shp_rollup` | `LinesCountFulfillments`; `OverdueIsNoticed`, `RollupsComplete` under fairness |
| `ntf_dispatch` | `PendingIsDriven`, `DeadWasTried`; `CommandsSettle` under fairness |
| `crm_effects` | `CreditedOnce`, `UsageNotOvercounted`; `PlacedTakesEffect` under fairness |
| `po_receipts` | `StockMatchesReceipts`; `ReceiptsReachStock` under fairness |

### Bounds

Every instance has the two overlapping executions that a race takes. The instances of findings are the smallest that
show them. In the others one execution may die (`MaxCrash = 1`): what it
leaves is taken up by a delivery that may in turn overlap any other. The
theorems hold of any number of executions and deaths.

* `inv_stock`: two holds, one key and two callers are the least for a race on a
  key and for two holds in one cell; cell 1 is created by a receipt or a
  request, cell 2 exists, so cells are found, missing, created and removed. One
  receipt of two units exceeds one sale. An audit enters 0, which takes
  `drift` both ways, depending on what is reserved; the reorder level 0
  and the alert level 1 are crossed by one unit. Edits run alone here
  (`EditsOverlap = FALSE`), for every property of the run, `HoldsNeverLeak`
  included. Of the theorems only those about the two ledger equations and the
  crossings assume it: with `EditsOverlap = TRUE` an edit undoes the movements it
  overlaps, and TLC finds `ReservedMatchesHolds` violated after four steps.
* `chk_*`: two sagas are the least for a retry, two executions for a race.
  With two executions one line keeps the run short, and "some lines reserved" is
  then none or all; the theorems hold of any number of lines.
* `pay_webhooks_refunds`: a failed and a succeeding attempt, and two refunds of
  1 that only together cover the total of 2.
* `box_relays`: four rows of two aggregates, batches of two, two relays, and one
  row that no producer accepts. Two of the rows are of one transaction, and
  transactions commit in any order, whatever `created_at` says. There are fewer such rows than `BatchSize`: as
  many as a batch holds would starve every newer row, since the relay asks
  for the oldest unprocessed rows first. That is a limit of the relay, and
  the bound hides it from `EventsDelivered` on purpose.
* `ref_settlement`: refunds of 1, 1 and 2 against a total of 2, so that two of
  them fit, cover the total, or exceed it; one is for the return. Two handlers
  settle and expire at once, and a merchant's request overlaps both. A second
  request at once is left to `ref_requests` and to the theorems, which hold of any
  number.
* `shp_rollup`: two fulfillments of a line each, so that neither alone fulfills
  the order, and one shipment that both may be linked to.
* `ntf_dispatch`: three attempts are the least with a first, a middle and a last
  one; rows of different messages share nothing.
* `crm_effects`: two orders of one customer overlap in its rollup and its
  account, and both may be the first one; one has the discount. `MaxRows = 2`
  lets a usage be recorded again after its release.
* `po_receipts`: two orders of two lines of 2; a receipt of one line and one of
  both, a part and the rest of it in either order. One request
  at a time, and no line twice in a receipt; `ReceiptsCountOnce` takes less.

### Fairness

Everywhere, an execution that is not dead takes its next step (weak fairness of
`Proceed`, or of `Save`/`ApplyLine`), and a message that was not acknowledged is
delivered until it is, although other requests and handlers occupy the
executions in between (strong fairness of the handler: `Hear`, `DelayCheck`,
`RollupSum`, `Redeliver`, `Receive`). Requests of people have none. In detail:

* `Inventory`: weak fairness of `Expire`. The delayed message of every
  reservation is recorded with it, and a handler that throws is redelivered; the
  action is enabled for as long as the hold is active. Weak fairness of
  `EditSave`: a request that has loaded its entity saves it.
* `Checkout`: strong fairness of the timeout handler, and weak fairness of the
  consumers of placed and canceled orders. That of a sale is a little more than
  the code does: committing a hold throws where `on_hand` would become negative
  (`reservations.service.ts:374`), which takes an audit that counts less than is
  reserved; `Checkout` has no audits. None for payment results or the 24h
  expiry.
* `Payment`: strong fairness of webhook and command deliveries: the provider
  repeats an event that was not answered with success, the broker a command.
* `Refunds`: weak fairness of `ExecuteRefund`, which is what `Payment` is shown
  to do (`RefundsSettle`).
* `OrderEffects`: weak fairness of `RecordUsage` while its message is
  unacknowledged; it is one transaction and needs no free execution.
* `Outbox`: weak fairness of a relay's steps; `setInterval` ticks as long as an
  instance runs, and a dead instance is started again.

`CHECK_DEADLOCK FALSE` stands in the instances whose requests, sagas, events and
orders are bounded: with all of them used up, nothing is left to do.

## Theorems

Each holds for every value of the constants that the assumptions allow. These
say of what kind the constants are, nothing of the code: a total is a positive
number, quantities are natural numbers, and the sets that the models sum over
(orders, holds, receipts, refunds, fulfillments) are finite, as the rows of a
table are.

| Module | Proved | Inductive because of |
|---|---|---|
| `InventoryProofs` | `TypeOK`, `OneHoldPerKey`, `NoOrphanRows`, `ImplementsLifecycle`; `ReservedMatchesHolds`, `StockConserved`, `CrossingsAnnounced` | `HoldStep`; `Grounded`, `BookStep` |
| `CheckoutProofs` | all invariants of `chk_races` | `IInv`: next section |
| `PaymentProofs` | `ProcessedWasApplied`, `RefundsAreReal`, `ImplementsLifecycle` | `Recorded`, `PaidFirst`, `InsertsExclude`, `RollupsHold` |
| `OutboxProofs` | `ProcessedWasPublished`, `OrderKept`, `ImplementsChannel` | `BatchRecorded`, `EarlierRecorded`, `BatchInOrder` |
| `RefundsProofs` | `ResolvedIsRefunded`, `ShownIsSettled` | `Linked`, `OrdersBacked` |
| `ConsumersProofs` | of `OrderEffects`: `CreditedOnce`, `UsageNotOvercounted`; of `Dispatch`: `PendingIsDriven`, `DeadWasTried` | `ClaimsExclude`, `LoadedIsDue`; `Driven`, `Counted` |
| `GoodsProofs` | of `Procurement`: `TypeOK`, `StockMatchesReceipts`; of `Shipping`: `LinesCountFulfillments` | `Applying`, `Numbered`, `Summed`, `Delivered`, `Saving`; `RollupsExclude`, `StatusSuffices` |

`ConsumersProofs` and `GoodsProofs` are each about two components that share no
state: one is extended, the other instantiated (`D!`, `Shp!`), its assumption a
hypothesis of its theorems. The state that the instantiated one promises
something about is that of `SendLog` and `OrderFulfillment`.

The argument is the same everywhere: an execution acts later on what it read
before, so the invariant has to say what its memory may still rely on.

* Inventory: with `Accepted` as the guard of every movement, `TypeOK` (no column
  is negative) is inductive as it stands; `HoldStep` reduces every action to
  opening a hold under a free key, settling an active one, or leaving holds
  alone, which is also the refinement. The two equations of the ledger
  (`Balanced`) are not: a cell that is created or removed must have nothing
  booked on it, and an edit must write back the row it read. `Grounded` says
  both: every hold and receipt refers to a cell, a cell that nothing refers to is
  empty, and a loaded entity is the row. Under it every action is one of the six
  steps of `BookStep`, and each of these changes both sides of each equation by
  the same amount.
* Payment: an execution that applies an event holds one that was published, one
  that settles a refund holds an answer of the provider (`PaidFirst`), and the
  unique key of an execution lets one insert through at a time
  (`InsertsExclude`). `RollupsHold` carries the sum an execution has drawn up to
  its commit.
* Outbox: of the rows of a batched row's aggregate that were recorded before it,
  those with an earlier `created_at` are published or before it in the batch, as
  long as no publish has failed (`BatchInOrder`). They were there when the batch
  was taken, and the query leaves no row behind that is older than one it takes.
  Rows recorded later, or with the same or a later `created_at`, are promised
  nothing: the code does not keep them in order.
* Refunds: what a handler is about to record, and the return row it is about to
  save, were backed by a result when they were read, and results are final, so
  they still are (`LinkedStep`, `BackedStep`).
* Shipping: the lines a rollup will write still suffice when it commits, for
  lines only grow, and no other rollup counts the same fulfillment.
* Purchasing: the cumulative quantity numbers the entries of a line
  (`Numbered`), so a key in the ledger stands for one of them; the received
  quantity is the sum of all the entries, and the stock the sum of the booked ones
  (`Summed`). `Delivered` says that an event which is acknowledged is booked
  in every line, and one that is being applied in the lines before the next;
  `Saving` that a request continues from the quantities that are stored.
* Dispatch: who handles a message of attempt `n` has not acknowledged it, and
  the count a row is saved with is at most what the provider has refused.
* OrderEffects: the points an execution has loaded are at most what the recorded
  transactions account for; the insert of the transaction is what an award has
  to itself. `TypeCorrect` includes that the rollup never exceeds the claims.

`Sums` has what these proofs need of `SumFunctionOnSet`, the operator of the
community modules the models sum with: a sum of integers is one (`SumIsInt`),
the empty one is 0, an element adds its value (`SumWith`, `SumWithout`), equal
values have equal sums, and a part of natural numbers sums to no more
(`SumOfPart`). It is defined by a recursion over the set, and the library's
induction theorems cannot be instantiated here, so each of these is proved from
a smallest counterexample: the set ordering of `FiniteSetTheorems` is well
founded, a set of counterexamples has a smallest one, and that one has none
(`SmallestSubset`, `SmallestNumber`). `SumTable` shows by it that there is a
function that the recursion describes.

Some theorems do not hold of every behaviour, because the code does not keep
them in every one (see the findings below). Each says what it takes:

* `ReservedIsHeld`, `StockIsAccountedFor` and `CrossingsAreAnnounced`: no edit of
  a cell saves a row that has changed since it was loaded (`~EditsOverlap`).
* `ReceiptsCountOnce`: no two requests that receive the same line have both
  read its quantity (`[]Apart`), and no request enters a line twice (`LinesOnce`).
  Other requests of the same order may overlap, and everything in
  inventory-service.
* `OrderIsKept`: of the events of an aggregate, those that `created_at` tells
  apart in the order they were recorded, until a publish fails; the condition
  is part of `OrderKept`.

Of what the passing runs check, everything but liveness is proved; what a run
finds violated has no theorem. Liveness
stays with TLC: tlapm has no ENABLED, on which the rules of fairness rest.

### The checkout's invariant

An execution holds a saga's id, and sometimes the whole order row, across many
steps, while other handlers save the same saga. None of the checkout's
invariants is inductive alone; `IInv` adds what an execution may still rely on
when it returns to the row:

* `PlaceInv`: a synchronous saga is driven by one execution at most, in the step
  its row says; a handler or compensation is always of a saga past those steps.
  Without it an execution that was overtaken could write
  `awaiting_payment` over a failed saga, and a handler could save a row that was
  never inserted (`TypeOK` itself needs this).
* `RowInv`: what the row holds in each step; `creating_intent` has all its lines
  and no intent, which is why `EnterAwaitingPayment` saves a backed row.
* `HeldInv`: a line in a row *or in the memory of a driving execution* has been
  reserved, an intent there exists. Rows are saved from memory, so the row alone
  is not enough; `SavedFromMemory` and `MemoryIsHeld` are its two halves.
* `UndoInv`: a compensation has settled every line that it is past, and cancels
  the intent if the row has one. `FailedIsUndone` is its last case.
* `PaymentInv`: payment-service cancels and publishes together, so a second
  compensation that finds the intent canceled may go on; and it cancels no
  payment that has ever succeeded.
* `PaidInv`: whoever completes a saga has read a published success;
  `SoldOnlyIfPaid` follows.
* `SaleInv`: a compensation that got its intent canceled is of a saga that nobody
  has completed or is about to, and the saga does not await its payment again.
  `PlacedNeverFails` follows.

`Forward` is the other half of the argument: holds, payment and events only move
forward, so what one execution has established is not undone by another. Each
part has a lemma with one step per action (`PlaceStep`, `RowStep`, `HeldStep`,
`UndoStep`, `PaymentStep`, `PaidStep`, `SaleStep`, `OneRunningStep`, and `RestType`,
`ActType`, `SagaType` for `TypeOK`), and `InvariantHolds` puts them together.
TLC agreed with `IInv` on the instance of `chk_races` before it was proved.

That a handler finds the saga as it left it is not among them: two handlers that
overlap break it, and with it `TerminalIsFinal` (`chk_overlap`). What is left of
it is `PlacedNeverFails`.

## Findings, and what was seen while modelling

Two findings have a run, in which TLC finds a statement of the repository
violated:

* `chk_overlap`: the timeout reads a saga that awaits its payment, the payment
  result completes it and places the order, and the timeout then saves the same
  saga as compensating and gives back the stock of the order, where it is not
  sold yet, although "State decides, not arrival order"
  (`checkout-saga.orchestrator.ts:357-361`).
* `ref_requests`: two requests both fit the sum of the prior refunds they read and
  together exceed the order's total, which `assert-refund-amount.util.ts:11-13`
  says never happens.

The rest was seen while modelling; the models contain the behaviour unless it
says otherwise, and no property claims the contrary.

Inventory:

* An edit of a cell saves the quantities it loaded and undoes the movements in
  between (`stock-levels.service.ts:271`), although the update endpoint never
  writes them (`stock-level.entity.ts:24-27`).
* A reservation is checked against the `reserved` column only, so `reserved`
  may exceed `on_hand` (`stock-movements.service.ts:94`).
* Two receipts that find no cell both insert it; the loser's unique violation
  looks like a replay, and its units are acknowledged and lost
  (`purchasing-sync.service.ts:122`).
* `ReservationsService.commit` records a release and then a sale. From a cell
  that is at its trigger level this takes the available units over the level and
  back, and the reorder rule fires again without a restock
  (`stock-movements.service.ts:211` says it does not).

Checkout:

* A payment result that has read the saga before the timeout saves it completes
  and places an order whose saga already compensates
  (`checkout-saga.orchestrator.ts:263,270`): the other order of `chk_overlap`. It
  cannot have failed, for the payment is not canceled any more.
* A checkout that is retried after a failed one gets the reservations of its
  deterministic keys back, the released ones included
  (`checkout-saga.orchestrator.ts:207`, `reservations.service.ts:83-94`): it awaits
  the payment for stock it does not hold, although the order is left open "so a
  merchant can retry" (`checkout-saga.orchestrator.ts:376`).
* After a failed payment, `cancelIntent` answers with a conflict for a payment
  that is neither pending nor canceled, so that compensation never ends
  (`payments.service.ts:182`, against `checkout-saga-ports.ts:74`).
* `handlePaymentSucceeded` sets the stage to preparing_order even if the merchant
  has advanced it (`next-stage.util.ts:18`).
* `resumeStaleSagas` is called by the demo only: a saga whose process died in a
  synchronous step stays running, and its row blocks another checkout
  (`saga-state.entity.ts:23` says it is resumed on boot).

Payment:

* A repeated webhook sets a refunded payment back to paid, and intent.failed of
  an earlier attempt, delivered after the success, takes it to failed
  (`webhook-dispatch.service.ts:30,137,170`).
* An intent that was canceled may still succeed at the provider, and nobody
  refunds it (`payments.service.ts:133`).
* Two refunds that sum up concurrently leave a covered payment
  `partially_refunded`; a command replayed after a crash between the provider's
  answer and the insert pays twice (`refunds.service.ts:37,154`).

Refunds and returns:

* An approval and a decline that overlap leave a refund that is declined, or was,
  and is executed; two settlements at once leave a covered order
  `partially_refunded`.
* A settlement that dies before `settleFromRefund` leaves the return approved;
  the redelivered event finds the refund settled (`returns.service.ts:148`).
  A stale save of a return can reopen one that was resolved.

Shipping:

* Two rollups of one order that overlap may leave it `partially_fulfilled`.
* `forwardStage` compares with the stage that was loaded, so a stale handler can
  take a delivered order back to shipping (`forward-stage.util.ts:10-15`; not in
  the models).
* A transition checked on a stale row takes an arrived or canceled shipment back
  (`shipments.service.ts:154`). A second fulfillment relinks the shipment, and
  carrier events of the first tracking number are then ignored. Two deliveries
  of `orders.order.placed` may draft two shipments.
* The carrier webhook "always acks 200" (`tracking-webhook.service.ts:22-27`),
  but a conflict in the transition it calls is thrown.

Notification:

* An execution that saves a row it loaded as pending takes a sent message back to
  pending, and it is sent again (`dispatch.service.ts:75`). A bounce that comes
  before the row says sent is ignored.

crm and marketing:

* Overlapping orders of one customer lose points and counted orders. An execution
  that dies after the rollup's commit loses the referral
  (`order-events.controller.ts:52-54`). A stale save of the referral can unset a
  referrer that was resolved meanwhile.
* Two deliveries of a cancellation decrement the usage count twice; a cancellation
  before its placement leaves the usage; a redelivered placement after the
  cancellation records it again. Edits of a discount restore an old count
  (not in the models).

Purchasing:

* A second partial receipt is refused (`po-status.util.ts:22`, against the comment
  of `receive`, `purchase-orders.service.ts:289`).
* A line repeated in one request gets the same cumulative key twice, and its second
  entry never reaches the stock (`po-receive.util.ts:30-34`,
  `purchase-orders.service.ts:358-363`, `purchasing-sync.service.ts:45-46`;
  `RepeatedLine` of `MCProcurement` shows it). Overlapping receipts of one
  order collide in the same way.
* A draft that is edited from a stale row reopens an order that was sent. A reorder
  trigger that is redelivered after its order was received drafts another.

Outbox:

* `topics.ts:6-7` says that a topic per aggregate type preserves the order of an
  aggregate. The relay asks for its rows by `created_at`, which is the time a
  transaction began (`outbox.entity.ts:40`): of two overlapping transactions of
  one aggregate the later one may commit, and be published, first. The events of
  one transaction, like those of a stock movement
  (`stock-movements.service.ts:120,181,241`), share it and come in any order. And
  a failed publish is passed over, so that later events overtake it. `OrderKept`
  says what is kept; without its condition on `CreatedAt`, TLC finds it violated
  in the instance of `box_relays`.

## Not modelled

* Everywhere: authentication, tenancy and validation of input; wording and
  layout; money other than the amounts of refunds; the delay of delayed messages
  (a timeout may fire at any time after it was recorded).
* order-service: lines, drafts, notes and totals of an order; invoices, comments
  and the storefront's read views. The stage that `shipping.shipment.updated` and
  `.arrived` advance is an unlocked load and save of one column (see above).
* payment-service: refunds settled by webhook, which the only provider there is
  never sends.
* shipping-service: labels, pickups, presets and the manual timeline.
* purchasing-service: suppliers, their catalog and the portal.
* crm- and marketing-service: manual adjustments of points, customers, reviews,
  wishlists, segments; edits of discounts, campaigns, ads, forms.
* notification-service: templates, in-app pushes, forwarding to marketing.
* identity-service: users, sessions and refresh tokens, a matter of
  authentication; catalog-service: CRUD, and license keys; media-service: storage
  I/O.
* ai, analytics, automation, cms and support services are scaffolds; gateway and
  front ends keep no state of the system. Most of the repository's lines are
  there, in generated contracts and in CRUD.

## Plan

1. Done: the core, `Inventory` and `Checkout`, with their invariants proved.
2. Done: refunds and returns composed with `Payment`, shipments and the rollup,
   purchase orders and receipts, notification dispatch, loyalty, referrals and
   usages; a run for each.
3. Done: the refinements of `PaymentLifecycle` and `AtLeastOnce`, and the
   invariants and action properties of all detailed modules, proved; with the
   lemmas on sums that the equations between books need.
4. Open: the stage of the order as shipments advance it; license keys;
   that a payment's status settles on the sum of its refunds where rollups do not
   overlap; abstract specifications of shipping and purchasing, should another
   component come to depend on them.
