------------------------------ MODULE Checkout ------------------------------
(***************************************************************************)
(* The checkout of one order: order-service's saga orchestrator with the   *)
(* handlers and merchant requests that race it, over inventory-service's   *)
(* reservations (one per line, see Inventory and HoldLifecycle) and        *)
(* payment-service's intent (one per order, see Payment).                  *)
(*                                                                         *)
(* A Proc is one request or message handler in execution.  Whatever it     *)
(* read before an await may be stale when it saves: TypeORM's save() writes*)
(* back every column of the entity that was loaded.  A handler that finds  *)
(* nothing to do is no step.  A message, once published, may be delivered  *)
(* any number of times, late and in any order.                             *)
(*                                                                         *)
(* Bounds: the sagas started are the members of Attempt; at most MaxCrash  *)
(* executions die half way.                                                *)
(***************************************************************************)
EXTENDS Naturals

CONSTANTS
    Line,      \* the order's lines; the reservation's key is order:line
    Attempt,   \* ids of the sagas the order may have
    Proc,      \* concurrent executions
    MaxCrash   \* how many of them may die

ASSUME CheckoutAssumption == MaxCrash \in Nat /\ Line # {}

VARIABLES
    order,     \* the order row: status, paymentStatus = paid, stage
    saga,      \* saga[i]: the saga_state row, its payload as lines and intent
    lineRef,   \* lines whose order_line row holds a reservationId
    hold,      \* hold[l]: the line's reservation in inventory-service
    payment,   \* status of the order's row in payment-service
    events,    \* payment.* events published
    armed,     \* sagas whose payment_timeout message is recorded
    placed,    \* sagas that recorded order.placed
    toRelease, \* lines named in a recorded order.canceled
    act,       \* act[p]: where execution p is and what it holds in memory
    crashes    \* executions that died

vars == <<order, saga, lineRef, hold, payment, events, armed, placed,
          toRelease, act, crashes>>

Holds == INSTANCE HoldLifecycle WITH Hold <- Line, fate <- hold
Intent == INSTANCE PaymentLifecycle

Synchronous == {"validating_discount", "reserving_stock", "creating_intent"}
RunningStep == Synchronous \cup {"awaiting_payment"}
Step        == RunningStep \cup {"compensating", "completed", "failed"}
Stage       == 1..4  \* review_order, preparing_order, shipping, delivered

Order  == [status : {"open", "canceled"}, paid : BOOLEAN, stage : Stage]
NoSaga == [step |-> "none"]
Saga   == [step : Step, lines : SUBSET Line, intent : BOOLEAN]
Idle   == [pc |-> "idle"]
Work   == [pc : {"checked"}]
          \cup [pc : {"discount", "succeed", "cancelOrder"},
                id : Attempt, order : Order]
          \cup [pc : {"run"}, id : Attempt, lines : SUBSET Line,
                intent : BOOLEAN]
          \cup [pc : {"compensate"}, id : Attempt, todo : SUBSET Line,
                cancel : BOOLEAN]
          \cup [pc : {"failing", "intentCanceled"}, id : Attempt]
          \cup [pc : {"edit"}, order : Order]

TypeOK ==
    /\ order \in Order
    /\ saga \in [Attempt -> {NoSaga} \cup Saga]
    /\ lineRef \subseteq Line
    /\ hold \in [Line -> Holds!Fate]
    /\ payment \in Intent!Status
    /\ events \subseteq Intent!Result
    /\ armed \subseteq Attempt
    /\ placed \subseteq Attempt
    /\ toRelease \subseteq Line
    /\ act \in [Proc -> {Idle} \cup Work]
    /\ crashes \in 0..MaxCrash

Init ==
    /\ order = [status |-> "open", paid |-> FALSE, stage |-> 1]
    /\ saga = [i \in Attempt |-> NoSaga]
    /\ lineRef = {}
    /\ hold = [l \in Line |-> "none"]
    /\ payment = "none"
    /\ events = {}
    /\ armed = {} /\ placed = {} /\ toRelease = {}
    /\ act = [p \in Proc |-> Idle]
    /\ crashes = 0

InOrderService == <<order, saga, lineRef, armed, placed, toRelease>>
Elsewhere      == <<hold, payment, events>>

Running(i) == saga[i].step \in RunningStep
At(p, pc)  == act[p].pc = pc
Do(p, w)   == act' = [act EXCEPT ![p] = w]

-----------------------------------------------------------------------------
(* POST /orders/:id/checkout. *)

\* The controller's checks: an open order without a running saga.
CheckoutRequest(p) ==
    /\ At(p, "idle")
    /\ order.status = "open"
    /\ \A i \in Attempt : ~Running(i)
    /\ Do(p, [pc |-> "checked"])
    /\ UNCHANGED <<InOrderService, Elsewhere, crashes>>

\* Mutant: no unique index on running sagas.
StartSagaUnindexed(p) ==
    /\ At(p, "checked")
    /\ \E i \in Attempt :
          /\ saga[i] = NoSaga
          /\ saga' = [saga EXCEPT ![i] = [step |-> "validating_discount",
                                          lines |-> {}, intent |-> FALSE]]
          /\ Do(p, [pc |-> "run", id |-> i, lines |-> {}, intent |-> FALSE])
    /\ UNCHANGED <<order, lineRef, armed, placed, toRelease, Elsewhere, crashes>>

\* start() inserts the saga.  The unique index on the running sagas of an
\* order refuses a second one (and Attempt bounds how many there are).
StartSaga(p) ==
    /\ At(p, "checked")
    /\ \/ /\ \A i \in Attempt : ~Running(i)
          /\ \E i \in Attempt :
                /\ saga[i] = NoSaga
                /\ saga' = [saga EXCEPT ![i] =
                              [step |-> "validating_discount",
                               lines |-> {}, intent |-> FALSE]]
                /\ Do(p, [pc |-> "run", id |-> i,
                          lines |-> {}, intent |-> FALSE])
       \/ /\ \/ \E i \in Attempt : Running(i)
             \/ \A i \in Attempt : saga[i] # NoSaga
          /\ Do(p, Idle)
          /\ UNCHANGED saga
    /\ UNCHANGED <<order, lineRef, armed, placed, toRelease, Elsewhere, crashes>>

\* run() is at this step of its saga.
Drives(p, step) == At(p, "run") /\ saga[act[p].id].step = step

\* Mutant: no line is queued for release.
StartCompensationEmpty(p, i, lines, intent, cancel) ==
    /\ saga' = [saga EXCEPT ![i] = [step |-> "compensating",
                                    lines |-> lines, intent |-> intent]]
    /\ Do(p, [pc |-> "compensate", id |-> i, todo |-> {}, cancel |-> cancel])

\* compensate() first saves the saga as compensating, with the payload.
StartCompensation(p, i, lines, intent, cancel) ==
    /\ saga' = [saga EXCEPT ![i] = [step |-> "compensating",
                                    lines |-> lines, intent |-> intent]]
    /\ Do(p, [pc |-> "compensate", id |-> i, todo |-> lines,
              cancel |-> cancel])

\* No code, an invalid code, or a valid one, which is written to the order.
ValidateDiscount(p) ==
    /\ Drives(p, "validating_discount")
    /\ LET i == act[p].id
       IN  \/ /\ saga' = [saga EXCEPT ![i].step = "reserving_stock"]
              /\ UNCHANGED act
           \/ /\ saga' = [saga EXCEPT ![i].step = "failed"]
              /\ Do(p, Idle)
           \/ /\ Do(p, [pc |-> "discount", id |-> i, order |-> order])
              /\ UNCHANGED saga
    /\ UNCHANGED <<order, lineRef, armed, placed, toRelease, Elsewhere, crashes>>

\* The order as it was loaded is saved with the discount's columns set.
SaveDiscount(p) ==
    /\ At(p, "discount")
    /\ order' = act[p].order
    /\ saga' = [saga EXCEPT ![act[p].id].step = "reserving_stock"]
    /\ Do(p, [pc |-> "run", id |-> act[p].id, lines |-> {}, intent |-> FALSE])
    /\ UNCHANGED <<lineRef, armed, placed, toRelease, Elsewhere, crashes>>

\* ReserveStock opens the line's hold, or answers with the one its key has,
\* whatever became of it.
OpenOrReplay(l) ==
    IF hold[l] = "none" THEN Holds!Open(l) ELSE UNCHANGED hold

ReserveLine(p, l) ==
    /\ Drives(p, "reserving_stock")
    /\ l \notin act[p].lines
    /\ OpenOrReplay(l)
    /\ lineRef' = lineRef \cup {l}
    /\ Do(p, [act[p] EXCEPT !.lines = @ \cup {l}])
    /\ UNCHANGED <<order, saga, armed, placed, toRelease, payment, events,
                   crashes>>

\* A line cannot be reserved: release those that were.
ReserveLineRefused(p, l) ==
    /\ Drives(p, "reserving_stock")
    /\ l \notin act[p].lines
    /\ hold[l] = "none"
    /\ StartCompensation(p, act[p].id, act[p].lines, FALSE, FALSE)
    /\ UNCHANGED <<order, lineRef, armed, placed, toRelease, Elsewhere, crashes>>

\* The hold is opened, but the execution dies before it saves the id.
ReserveLineLost(p, l) ==
    /\ Drives(p, "reserving_stock")
    /\ l \notin act[p].lines
    /\ OpenOrReplay(l)
    /\ crashes < MaxCrash
    /\ crashes' = crashes + 1
    /\ Do(p, Idle)
    /\ UNCHANGED <<InOrderService, payment, events>>

LinesReserved(p) ==
    /\ Drives(p, "reserving_stock")
    /\ act[p].lines = Line
    /\ saga' = [saga EXCEPT ![act[p].id] = [step |-> "creating_intent",
                                            lines |-> Line, intent |-> FALSE]]
    /\ UNCHANGED <<order, lineRef, armed, placed, toRelease, Elsewhere, act,
                   crashes>>

\* CreatePaymentIntent: the order id is the key, so a retry gets the same
\* payment, whatever became of it.
CreateIntent(p) ==
    /\ Drives(p, "creating_intent")
    /\ ~act[p].intent
    /\ IF payment = "none" THEN Intent!Create ELSE UNCHANGED <<payment, events>>
    /\ Do(p, [act[p] EXCEPT !.intent = TRUE])
    /\ UNCHANGED <<InOrderService, hold, crashes>>

CreateIntentRefused(p) ==
    /\ Drives(p, "creating_intent")
    /\ ~act[p].intent
    /\ StartCompensation(p, act[p].id, saga[act[p].id].lines, FALSE, FALSE)
    /\ UNCHANGED <<order, lineRef, armed, placed, toRelease, Elsewhere, crashes>>

\* Mutant: the timeout is not recorded in the transaction.
EnterAwaitingPaymentUnarmed(p) ==
    /\ Drives(p, "creating_intent")
    /\ act[p].intent
    /\ saga' = [saga EXCEPT ![act[p].id].step = "awaiting_payment",
                            ![act[p].id].intent = TRUE]
    /\ Do(p, Idle)
    /\ UNCHANGED <<order, lineRef, armed, placed, toRelease, Elsewhere, crashes>>

\* enterAwaitingPayment: the step and its timeout in one transaction.
EnterAwaitingPayment(p) ==
    /\ Drives(p, "creating_intent")
    /\ act[p].intent
    /\ saga' = [saga EXCEPT ![act[p].id].step = "awaiting_payment",
                            ![act[p].id].intent = TRUE]
    /\ armed' = armed \cup {act[p].id}
    /\ Do(p, Idle)
    /\ UNCHANGED <<order, lineRef, placed, toRelease, Elsewhere, crashes>>

-----------------------------------------------------------------------------
(* The message handlers of the saga.  Each finds the saga awaiting payment *)
(* by an unlocked read and saves what it loaded later.                     *)

\* Mutant: any payment event completes the saga.
HandlePaymentResult(p, i) ==
    /\ At(p, "idle")
    /\ events # {}
    /\ saga[i].step = "awaiting_payment"
    /\ Do(p, [pc |-> "succeed", id |-> i, order |-> order])
    /\ UNCHANGED <<InOrderService, Elsewhere, crashes>>

HandlePaymentSucceeded(p, i) ==
    /\ At(p, "idle")
    /\ "succeeded" \in events
    /\ saga[i].step = "awaiting_payment"
    /\ Do(p, [pc |-> "succeed", id |-> i, order |-> order])
    /\ UNCHANGED <<InOrderService, Elsewhere, crashes>>

\* The transaction: saga completed, order paid and preparing, order.placed.
CompleteSaga(p) ==
    /\ At(p, "succeed")
    /\ saga' = [saga EXCEPT ![act[p].id].step = "completed"]
    /\ order' = [act[p].order EXCEPT !.paid = TRUE, !.stage = 2]
    /\ placed' = placed \cup {act[p].id}
    /\ Do(p, Idle)
    /\ UNCHANGED <<lineRef, armed, toRelease, Elsewhere, crashes>>

\* An unlocked read: the saga may be settled before it is saved.
FindAwaiting(p, i) ==
    /\ At(p, "idle")
    /\ saga[i].step = "awaiting_payment"
    /\ Do(p, [pc |-> "failing", id |-> i])
    /\ UNCHANGED <<InOrderService, Elsewhere, crashes>>

HandlePaymentFailed(p, i)      == "failed" \in events /\ FindAwaiting(p, i)
HandleReservationExpired(p, i) == /\ \E l \in Line : hold[l] = "expired"
                                  /\ FindAwaiting(p, i)
HandlePaymentTimeout(p, i)     == i \in armed /\ FindAwaiting(p, i)

FailAwaitingPayment(p) ==
    /\ At(p, "failing")
    /\ LET s == saga[act[p].id]
       IN  StartCompensation(p, act[p].id, s.lines, s.intent, s.intent)
    /\ UNCHANGED <<order, lineRef, armed, placed, toRelease, Elsewhere, crashes>>

-----------------------------------------------------------------------------
(* runCompensation: the lines first, the payment intent last. *)

ReleaseIfActive(l) ==
    IF hold[l] = "active" THEN Holds!Settle(l, "released") ELSE UNCHANGED hold

CompensateLine(p, l) ==
    /\ At(p, "compensate")
    /\ l \in act[p].todo
    /\ ReleaseIfActive(l)
    /\ Do(p, [act[p] EXCEPT !.todo = @ \ {l}])
    /\ UNCHANGED <<InOrderService, payment, events, crashes>>

\* Mutant: a cancellation that is refused is ignored.
CompensateIntentIgnored(p) ==
    /\ At(p, "compensate")
    /\ act[p].todo = {}
    /\ act[p].cancel
    /\ \/ Intent!Cancel
       \/ payment # "pending" /\ UNCHANGED <<payment, events>>
    /\ Do(p, [pc |-> "intentCanceled", id |-> act[p].id])
    /\ UNCHANGED <<InOrderService, hold, crashes>>

\* CancelPaymentIntent: a pending payment is canceled, a canceled one is a
\* success, and any other status throws out of the handler.
CompensateIntent(p) ==
    /\ At(p, "compensate")
    /\ act[p].todo = {}
    /\ act[p].cancel
    /\ \/ /\ Intent!Cancel
          /\ Do(p, [pc |-> "intentCanceled", id |-> act[p].id])
       \/ /\ payment = "canceled"
          /\ Do(p, [pc |-> "intentCanceled", id |-> act[p].id])
          /\ UNCHANGED <<payment, events>>
       \/ /\ payment \notin {"pending", "canceled"}
          /\ Do(p, Idle)
          /\ UNCHANGED <<payment, events>>
    /\ UNCHANGED <<InOrderService, hold, crashes>>

\* All undone: the saga has failed, and after an awaiting saga an order that
\* is still open is to be canceled.
FinishCompensation(p) ==
    /\ \/ At(p, "compensate") /\ act[p].todo = {} /\ ~act[p].cancel
       \/ At(p, "intentCanceled")
    /\ saga' = [saga EXCEPT ![act[p].id].step = "failed"]
    /\ IF At(p, "intentCanceled") /\ order.status = "open"
       THEN Do(p, [pc |-> "cancelOrder", id |-> act[p].id, order |-> order])
       ELSE Do(p, Idle)
    /\ UNCHANGED <<order, lineRef, armed, placed, toRelease, Elsewhere, crashes>>

CancelOrder(p) ==
    /\ At(p, "cancelOrder")
    /\ order' = [act[p].order EXCEPT !.status = "canceled"]
    /\ toRelease' = toRelease \cup saga[act[p].id].lines
    /\ Do(p, Idle)
    /\ UNCHANGED <<saga, lineRef, armed, placed, Elsewhere, crashes>>

-----------------------------------------------------------------------------
(* OrdersService: the merchant's requests load the order, check its status *)
(* and save it.                                                            *)

LoadOrder(p) ==
    /\ At(p, "idle")
    /\ order.status = "open"
    /\ Do(p, [pc |-> "edit", order |-> order])
    /\ UNCHANGED <<InOrderService, Elsewhere, crashes>>

\* update(): fields that are not modelled.
Update(p) ==
    /\ At(p, "edit")
    /\ order' = act[p].order
    /\ Do(p, Idle)
    /\ UNCHANGED <<saga, lineRef, armed, placed, toRelease, Elsewhere, crashes>>

\* Mutant: no check for the last stage.
AdvanceStageUnbounded(p) ==
    /\ At(p, "edit")
    /\ order' = [act[p].order EXCEPT !.stage = @ + 1]
    /\ Do(p, Idle)
    /\ UNCHANGED <<saga, lineRef, armed, placed, toRelease, Elsewhere, crashes>>

\* nextStage()
AdvanceStage(p) ==
    /\ At(p, "edit")
    /\ act[p].order.stage < 4
    /\ order' = [act[p].order EXCEPT !.stage = @ + 1]
    /\ Do(p, Idle)
    /\ UNCHANGED <<saga, lineRef, armed, placed, toRelease, Elsewhere, crashes>>

\* cancel() reads the order lines and names their reservations in the event.
Cancel(p) ==
    /\ At(p, "edit")
    /\ order' = [act[p].order EXCEPT !.status = "canceled"]
    /\ toRelease' = toRelease \cup lineRef
    /\ Do(p, Idle)
    /\ UNCHANGED <<saga, lineRef, armed, placed, Elsewhere, crashes>>

\* The process dies, or a call throws: the message or request is gone.
Crash(p) ==
    /\ ~At(p, "idle")
    /\ crashes < MaxCrash
    /\ crashes' = crashes + 1
    /\ Do(p, Idle)
    /\ UNCHANGED <<InOrderService, Elsewhere>>

-----------------------------------------------------------------------------
(* The other services. *)

\* orders.order.placed and orders.order.canceled at inventory-service, and
\* its own delayed expiry.
CommitLine(l) ==
    /\ \E i \in placed : l \in saga[i].lines
    /\ Holds!Settle(l, "committed")
    /\ UNCHANGED <<InOrderService, payment, events, act, crashes>>

ReleaseLine(l) ==
    /\ l \in toRelease
    /\ Holds!Settle(l, "released")
    /\ UNCHANGED <<InOrderService, payment, events, act, crashes>>

ExpireLine(l) ==
    /\ Holds!Settle(l, "expired")
    /\ UNCHANGED <<InOrderService, payment, events, act, crashes>>

\* Webhooks at payment-service: each is refused only by its own status.
PaymentSucceeds ==
    Intent!Succeed /\ UNCHANGED <<InOrderService, hold, act, crashes>>
PaymentFails ==
    Intent!Fail /\ UNCHANGED <<InOrderService, hold, act, crashes>>

-----------------------------------------------------------------------------
\* The steps of an execution that nothing but the program has to take.
Proceed(p) ==
    \/ StartSaga(p) \/ ValidateDiscount(p) \/ SaveDiscount(p)
    \/ \E l \in Line : \/ ReserveLine(p, l) \/ ReserveLineRefused(p, l)
                       \/ CompensateLine(p, l)
    \/ LinesReserved(p)
    \/ CreateIntent(p) \/ CreateIntentRefused(p) \/ EnterAwaitingPayment(p)
    \/ CompleteSaga(p) \/ FailAwaitingPayment(p)
    \/ CompensateIntent(p) \/ FinishCompensation(p) \/ CancelOrder(p)
    \/ Update(p) \/ AdvanceStage(p) \/ Cancel(p)

Request(p) == CheckoutRequest(p) \/ LoadOrder(p)

Handle(p, i) == \/ HandlePaymentSucceeded(p, i) \/ HandlePaymentFailed(p, i)
                \/ HandlePaymentTimeout(p, i) \/ HandleReservationExpired(p, i)

Die(p) == Crash(p) \/ \E l \in Line : ReserveLineLost(p, l)

Next ==
    \/ \E p \in Proc : \/ Proceed(p) \/ Request(p) \/ Die(p)
                       \/ \E i \in Attempt : Handle(p, i)
    \/ \E l \in Line : CommitLine(l) \/ ReleaseLine(l) \/ ExpireLine(l)
    \/ PaymentSucceeds \/ PaymentFails

Spec == Init /\ [][Next]_vars

\* An execution that has begun goes on; the broker redelivers a timeout or a
\* cancellation until it is handled, though other requests keep coming.
FairSpec ==
    /\ Spec
    /\ \A p \in Proc : WF_vars(Proceed(p))
    /\ \A i \in Attempt : SF_vars(\E p \in Proc : HandlePaymentTimeout(p, i))
    /\ \A l \in Line : WF_vars(CommitLine(l)) /\ WF_vars(ReleaseLine(l))
-----------------------------------------------------------------------------
(* Properties. *)

\* However two checkout requests interleave, one saga of the order runs.
OneRunningSaga ==
    \A i, j \in Attempt : Running(i) /\ Running(j) => i = j

\* A saga that waits for its payment can be settled: every line has been
\* reserved, the intent exists and the timeout is recorded.
AwaitingIsBacked ==
    \A i \in Attempt : saga[i].step = "awaiting_payment" =>
        /\ saga[i].lines = Line /\ \A l \in Line : hold[l] # "none"
        /\ saga[i].intent /\ payment # "none"
        /\ i \in armed

\* A failed saga is undone: the stock of its lines is given back and its
\* payment intent was canceled, whatever raced the compensation.
FailedIsUndone ==
    \A i \in Attempt : saga[i].step = "failed" =>
        /\ \A l \in saga[i].lines : hold[l] # "active"
        /\ saga[i].intent => "canceled" \in events

\* No stock is sold before a payment has succeeded.
SoldOnlyIfPaid ==
    (\E l \in Line : hold[l] = "committed") => "succeeded" \in events

\* A saga that recorded order.placed never ends as failed: handlers that have
\* read it awaiting its payment overlap, and one that compensates it after the
\* sale is stopped by the payment, which is no longer canceled once it succeeded.
PlacedNeverFails ==
    \A i \in placed : saga[i].step # "failed"

\* A saga that is completed or failed is not changed again by a late payment
\* result, timeout or expiry: "State decides, not arrival order".
TerminalIsFinal ==
    [][\A i \in Attempt : saga[i].step \in {"completed", "failed"} =>
          saga'[i] = saga[i]]_vars

\* A saga does not wait for its payment for ever.
AwaitingSettles ==
    \A i \in Attempt : saga[i].step = "awaiting_payment"
                           ~> saga[i].step # "awaiting_payment"

\* Unless an execution died, the stock of a canceled order is given back
\* without waiting for the 24h expiry, also when the cancellation overtakes
\* the reservations.
CanceledFreesStock ==
    order.status = "canceled" ~>
        (crashes > 0 \/ \A l \in Line : hold[l] # "active")
=============================================================================
