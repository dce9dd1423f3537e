--------------------------- MODULE CheckoutProofs ---------------------------
(***************************************************************************)
(* What holds of Checkout for every set of lines, sagas and executions and *)
(* for any number of crashes.                                              *)
(***************************************************************************)
EXTENDS Checkout, TLAPS

USE CheckoutAssumption

-----------------------------------------------------------------------------
(* The inductive invariant.  An execution holds the id of a saga over many *)
(* steps; the invariant says what it may rely on when it comes back to the *)
(* row, although other handlers have saved the row in between.             *)

\* The saga has left its synchronous steps, for good.
Begun(i) ==
    saga[i].step \in {"awaiting_payment", "compensating", "completed", "failed"}

\* The execution is in the saga's synchronous steps, or past them.
Driving(p)  == act[p].pc \in {"discount", "run"}
Settling(p) == act[p].pc \in {"succeed", "failing", "compensate",
                              "intentCanceled", "cancelOrder"}

\* A synchronous saga is driven by one execution at most, in the step its row
\* says; the handlers and compensations are all of sagas past those steps.
PlaceInv ==
    /\ \A p \in Proc :
          /\ At(p, "discount") => saga[act[p].id].step = "validating_discount"
          /\ At(p, "run") => saga[act[p].id].step \in Synchronous
          /\ Settling(p) => Begun(act[p].id)
    /\ \A p, q \in Proc :
          (Driving(p) /\ Driving(q) /\ act[p].id = act[q].id) => p = q

\* What the row holds in each step.
RowInv ==
    \A i \in Attempt :
        /\ saga[i].step \in {"validating_discount", "reserving_stock"}
              => saga[i].lines = {} /\ ~saga[i].intent
        /\ saga[i].step = "creating_intent"
              => saga[i].lines = Line /\ ~saga[i].intent
        /\ saga[i].step = "awaiting_payment"
              => saga[i].lines = Line /\ saga[i].intent /\ i \in armed

\* A line in a saga's payload, or in the memory of the execution that drives
\* it, has been reserved; an intent there exists.
HeldInv ==
    /\ \A i \in Attempt : saga[i] # NoSaga =>
          /\ \A l \in saga[i].lines : hold[l] # "none"
          /\ saga[i].intent => payment # "none"
    /\ \A p \in Proc : At(p, "run") =>
          /\ \A l \in act[p].lines : hold[l] # "none"
          /\ act[p].intent => payment # "none"

\* The stock of these lines is released, sold or expired.
Undone(S) == \A l \in S : hold[l] \in Holds!Settlement

\* A compensation has settled the lines it is past, and will cancel the
\* intent if there is one; a failed saga is undone.
UndoInv ==
    /\ \A p \in Proc :
          /\ At(p, "compensate") =>
                /\ Undone(saga[act[p].id].lines \ act[p].todo)
                /\ saga[act[p].id].intent => act[p].cancel
          /\ At(p, "intentCanceled") =>
                /\ Undone(saga[act[p].id].lines)
                /\ "canceled" \in events
    /\ \A i \in Attempt : saga[i].step = "failed" =>
          /\ Undone(saga[i].lines)
          /\ saga[i].intent => "canceled" \in events

\* A payment is canceled together with its event, and never once it succeeded.
PaymentInv ==
    /\ payment = "canceled" => "canceled" \in events
    /\ "succeeded" \in events => payment \in {"paid", "failed"}

\* Nothing is placed or sold before the payment has succeeded.
PaidInv ==
    /\ placed # {} => "succeeded" \in events
    /\ \A p \in Proc : At(p, "succeed") => "succeeded" \in events
    /\ SoldOnlyIfPaid

\* A saga that was sold, or is about to be, and has not failed.
Sellable(i) == /\ saga[i].step \in {"awaiting_payment", "compensating", "completed"}
               /\ saga[i].intent

\* A compensation that got its intent canceled is of an unsold saga, and stays
\* so, because the saga does not await its payment again.
SaleInv ==
    /\ \A i \in placed : Sellable(i)
    /\ \A p \in Proc :
          /\ At(p, "succeed") => Sellable(act[p].id)
          /\ At(p, "compensate") \/ At(p, "intentCanceled")
                => saga[act[p].id].step # "awaiting_payment"
    /\ \A p \in Proc : At(p, "intentCanceled") =>
          /\ act[p].id \notin placed
          /\ \A q \in Proc : At(q, "succeed") => act[q].id # act[p].id

IInv == TypeOK /\ PlaceInv /\ OneRunningSaga /\ RowInv /\ HeldInv /\ UndoInv
            /\ PaymentInv /\ PaidInv /\ SaleInv

-----------------------------------------------------------------------------
(* Types. *)

\* What an execution holds in memory, by where it is.
LEMMA WorkType ==
    ASSUME TypeOK, NEW p \in Proc
    PROVE  /\ act[p].pc \in {"discount", "succeed", "cancelOrder"}
                => act[p].id \in Attempt /\ act[p].order \in Order
           /\ At(p, "run") =>
                 /\ act[p].id \in Attempt
                 /\ act[p].lines \subseteq Line
                 /\ act[p].intent \in BOOLEAN
           /\ At(p, "compensate") =>
                 /\ act[p].id \in Attempt
                 /\ act[p].todo \subseteq Line
                 /\ act[p].cancel \in BOOLEAN
           /\ act[p].pc \in {"failing", "intentCanceled"}
                => act[p].id \in Attempt
           /\ At(p, "edit") => act[p].order \in Order
<1>1. act[p] \in {Idle} \cup Work
  BY DEF TypeOK
<1> QED
  BY <1>1 DEF Work, Idle, At

\* A saga in any step but "none" is a whole row.
LEMMA RowType ==
    ASSUME TypeOK, NEW i \in Attempt, saga[i].step # "none"
    PROVE  /\ saga[i] \in Saga
           /\ saga[i].lines \subseteq Line /\ saga[i].intent \in BOOLEAN
           /\ \A s \in Step :
                 [saga EXCEPT ![i].step = s] \in [Attempt -> {NoSaga} \cup Saga]
<1>1. saga[i] \in Saga
  BY DEF TypeOK, NoSaga
<1>2. \A s \in Step : [saga[i] EXCEPT !.step = s] \in Saga
  BY <1>1 DEF Saga
<1> QED
  BY <1>1, <1>2 DEF TypeOK, Saga

\* The records that executions are set to.
LEMMA NewWork ==
    ASSUME NEW i \in Attempt, NEW S \in SUBSET Line, NEW b \in BOOLEAN,
           NEW o \in Order
    PROVE  /\ [pc |-> "checked"] \in Work
           /\ [pc |-> "edit", order |-> o] \in Work
           /\ [pc |-> "discount", id |-> i, order |-> o] \in Work
           /\ [pc |-> "succeed", id |-> i, order |-> o] \in Work
           /\ [pc |-> "cancelOrder", id |-> i, order |-> o] \in Work
           /\ [pc |-> "run", id |-> i, lines |-> S, intent |-> b] \in Work
           /\ [pc |-> "compensate", id |-> i, todo |-> S, cancel |-> b] \in Work
           /\ [pc |-> "failing", id |-> i] \in Work
           /\ [pc |-> "intentCanceled", id |-> i] \in Work
BY DEF Work

\* What an execution changes of its record in place.
LEMMA RunUpdate ==
    ASSUME NEW w \in Work, w.pc = "run", NEW l \in Line
    PROVE  /\ [w EXCEPT !.lines = @ \cup {l}] \in Work
           /\ [w EXCEPT !.intent = TRUE] \in Work
BY DEF Work

\* A compensation that has settled a line is the same but for the line.
LEMMA CompensateUpdate ==
    ASSUME NEW w \in Work, w.pc = "compensate", NEW l \in Line
    PROVE  LET v == [w EXCEPT !.todo = @ \ {l}]
           IN  /\ v \in Work
               /\ v.pc = w.pc /\ v.id = w.id /\ v.cancel = w.cancel
               /\ v.todo = w.todo \ {l}
BY DEF Work

\* An order that is paid and placed is an order.
LEMMA PaidOrder ==
    ASSUME NEW o \in Order
    PROVE  [o EXCEPT !.paid = TRUE, !.stage = 2] \in Order
<1>1. 2 \in Stage
  BY DEF Stage
<1> QED
  BY <1>1 DEF Order

\* The row that starts a saga, and each row saved from memory, is a saga.
LEMMA NewSaga ==
    ASSUME NEW s \in Step, NEW S \in SUBSET Line, NEW b \in BOOLEAN
    PROVE  [step |-> s, lines |-> S, intent |-> b] \in Saga
BY DEF Saga

-----------------------------------------------------------------------------
(* The steps, part by part. *)

\* Every step keeps executions and sagas in the places PlaceInv gives them.
LEMMA PlaceStep ==
    ASSUME TypeOK, PlaceInv, [Next]_vars
    PROVE  PlaceInv'
<1> USE DEF Do, At, Idle, Drives, Driving, Settling, Begun, Synchronous,
   InOrderService, PlaceInv, TypeOK
<1>1. ASSUME NEW p \in Proc, StartSaga(p)
      PROVE  PlaceInv'
  <2>1. CASE UNCHANGED saga /\ Do(p, Idle)
    BY <1>1, <2>1
  <2>2. ASSUME NEW i \in Attempt, saga[i] = NoSaga,
               saga' = [saga EXCEPT ![i] = [step |-> "validating_discount",
                                            lines |-> {}, intent |-> FALSE]],
               Do(p, [pc |-> "run", id |-> i, lines |-> {}, intent |-> FALSE])
        PROVE  PlaceInv'
    <3>1. \A q \in Proc : Driving(q) \/ Settling(q) => act[q].id # i
      BY <2>2 DEF NoSaga
    <3>2. \A q \in Proc : q # p => act'[q] = act[q]
      BY <2>2
    <3>3. \A j \in Attempt : j # i => saga'[j] = saga[j]
      BY <2>2
    <3>4. /\ act'[p].pc = "run" /\ act'[p].id = i
          /\ saga'[i].step = "validating_discount"
      BY <2>2
    <3> QED
      BY <1>1, <3>1, <3>2, <3>3, <3>4, WorkType
  <2> QED
    BY <1>1, <2>1, <2>2 DEF StartSaga
<1>2. ASSUME NEW p \in Proc, ValidateDiscount(p)
      PROVE  PlaceInv'
  <2> DEFINE i == act[p].id
  <2>1. i \in Attempt /\ At(p, "run") /\ saga[i].step = "validating_discount"
    BY <1>2, WorkType DEF ValidateDiscount
  <2>2. CASE UNCHANGED act /\ saga' = [saga EXCEPT ![i].step = "reserving_stock"]
    BY <2>1, <2>2, WorkType
  <2>3. CASE Do(p, Idle) /\ saga' = [saga EXCEPT ![i].step = "failed"]
    BY <2>1, <2>3, WorkType
  <2>4. CASE /\ Do(p, [pc |-> "discount", id |-> i, order |-> order])
             /\ UNCHANGED saga
    BY <2>1, <2>4, WorkType
  <2> QED
    BY <1>2, <2>2, <2>3, <2>4 DEF ValidateDiscount
<1>3. ASSUME NEW p \in Proc, SaveDiscount(p)
      PROVE  PlaceInv'
  BY <1>3, WorkType DEF SaveDiscount
<1>4. ASSUME NEW p \in Proc, NEW l \in Line, ReserveLine(p, l)
      PROVE  PlaceInv'
  BY <1>4, WorkType DEF ReserveLine
<1>5. ASSUME NEW p \in Proc, NEW l \in Line, ReserveLineRefused(p, l)
      PROVE  PlaceInv'
  BY <1>5, WorkType DEF ReserveLineRefused, StartCompensation
<1>6. ASSUME NEW p \in Proc, NEW l \in Line, CompensateLine(p, l)
      PROVE  PlaceInv'
  BY <1>6, WorkType DEF CompensateLine
<1>7. ASSUME NEW p \in Proc, LinesReserved(p)
      PROVE  PlaceInv'
  BY <1>7, WorkType DEF LinesReserved
<1>8. ASSUME NEW p \in Proc, CreateIntent(p)
      PROVE  PlaceInv'
  BY <1>8, WorkType DEF CreateIntent
<1>9. ASSUME NEW p \in Proc, CreateIntentRefused(p)
      PROVE  PlaceInv'
  BY <1>9, WorkType DEF CreateIntentRefused, StartCompensation
<1>10. ASSUME NEW p \in Proc, EnterAwaitingPayment(p)
       PROVE  PlaceInv'
  BY <1>10, WorkType DEF EnterAwaitingPayment
<1>11. ASSUME NEW p \in Proc, CompleteSaga(p)
       PROVE  PlaceInv'
  BY <1>11, WorkType DEF CompleteSaga
<1>12. ASSUME NEW p \in Proc, FailAwaitingPayment(p)
       PROVE  PlaceInv'
  BY <1>12, WorkType DEF FailAwaitingPayment, StartCompensation
<1>13. ASSUME NEW p \in Proc, CompensateIntent(p)
       PROVE  PlaceInv'
  BY <1>13, WorkType DEF CompensateIntent
<1>14. ASSUME NEW p \in Proc, FinishCompensation(p)
       PROVE  PlaceInv'
  BY <1>14, WorkType DEF FinishCompensation
<1>15. ASSUME NEW p \in Proc, CancelOrder(p)
       PROVE  PlaceInv'
  BY <1>15, WorkType DEF CancelOrder
<1>16. ASSUME NEW p \in Proc, Update(p) \/ AdvanceStage(p) \/ Cancel(p)
       PROVE  PlaceInv'
  BY <1>16, WorkType DEF Update, AdvanceStage, Cancel
<1>17. ASSUME NEW p \in Proc, CheckoutRequest(p) \/ LoadOrder(p)
       PROVE  PlaceInv'
  BY <1>17, WorkType DEF CheckoutRequest, LoadOrder
<1>18. ASSUME NEW p \in Proc, NEW i \in Attempt, HandlePaymentSucceeded(p, i)
       PROVE  PlaceInv'
  BY <1>18, WorkType DEF HandlePaymentSucceeded
<1>19. ASSUME NEW p \in Proc, NEW i \in Attempt, FindAwaiting(p, i)
       PROVE  PlaceInv'
  BY <1>19, WorkType DEF FindAwaiting
<1>20. ASSUME NEW p \in Proc, Crash(p)
       PROVE  PlaceInv'
  BY <1>20, WorkType DEF Crash
<1>21. ASSUME NEW p \in Proc, NEW l \in Line, ReserveLineLost(p, l)
       PROVE  PlaceInv'
  BY <1>21, WorkType DEF ReserveLineLost
<1>22. ASSUME NEW l \in Line, CommitLine(l) \/ ReleaseLine(l) \/ ExpireLine(l)
       PROVE  PlaceInv'
  BY <1>22, WorkType DEF CommitLine, ReleaseLine, ExpireLine
<1>23. ASSUME PaymentSucceeds \/ PaymentFails
       PROVE  PlaceInv'
  BY <1>23, WorkType DEF PaymentSucceeds, PaymentFails
<1>24. CASE UNCHANGED vars
  BY <1>24 DEF vars
<1> QED
  BY <1>1, <1>2, <1>3, <1>4, <1>5, <1>6, <1>7, <1>8, <1>9, <1>10, <1>11,
     <1>12, <1>13, <1>14, <1>15, <1>16, <1>17, <1>18, <1>19, <1>20, <1>21,
     <1>22, <1>23, <1>24 DEF Next, Proceed, Request, Handle, Die,
     HandlePaymentFailed, HandlePaymentTimeout, HandleReservationExpired

\* What the other services hold of the order only moves forward.
Forward ==
    /\ \A l \in Line :
          /\ hold[l] # "none" => hold'[l] # "none"
          /\ hold[l] \in Holds!Settlement => hold'[l] = hold[l]
    /\ payment # "none" => payment' # "none"
    /\ events \subseteq events'

\* A settled hold stays settled, a payment stays, an event stays published.
LEMMA ForwardStep ==
    ASSUME TypeOK, [Next]_vars
    PROVE  Forward
<1> USE DEF Forward, TypeOK, InOrderService, Elsewhere, OpenOrReplay,
   ReleaseIfActive, StartCompensation, Holds!Open, Holds!Settle,
   Holds!Settlement, Intent!Create, Intent!Succeed, Intent!Fail, Intent!Cancel
<1>1. ASSUME NEW p \in Proc, StartSaga(p)
      PROVE  Forward
  BY <1>1 DEF StartSaga
<1>2. ASSUME NEW p \in Proc, ValidateDiscount(p)
      PROVE  Forward
  BY <1>2 DEF ValidateDiscount
<1>3. ASSUME NEW p \in Proc, SaveDiscount(p)
      PROVE  Forward
  BY <1>3 DEF SaveDiscount
<1>4. ASSUME NEW p \in Proc, NEW l \in Line, ReserveLine(p, l)
      PROVE  Forward
  BY <1>4 DEF ReserveLine
<1>5. ASSUME NEW p \in Proc, NEW l \in Line, ReserveLineRefused(p, l)
      PROVE  Forward
  BY <1>5 DEF ReserveLineRefused
<1>6. ASSUME NEW p \in Proc, NEW l \in Line, CompensateLine(p, l)
      PROVE  Forward
  BY <1>6 DEF CompensateLine
<1>7. ASSUME NEW p \in Proc, LinesReserved(p)
      PROVE  Forward
  BY <1>7 DEF LinesReserved
<1>8. ASSUME NEW p \in Proc, CreateIntent(p)
      PROVE  Forward
  BY <1>8 DEF CreateIntent
<1>9. ASSUME NEW p \in Proc, CreateIntentRefused(p)
      PROVE  Forward
  BY <1>9 DEF CreateIntentRefused
<1>10. ASSUME NEW p \in Proc, EnterAwaitingPayment(p)
       PROVE  Forward
  BY <1>10 DEF EnterAwaitingPayment
<1>11. ASSUME NEW p \in Proc, CompleteSaga(p)
       PROVE  Forward
  BY <1>11 DEF CompleteSaga
<1>12. ASSUME NEW p \in Proc, FailAwaitingPayment(p)
       PROVE  Forward
  BY <1>12 DEF FailAwaitingPayment
<1>13. ASSUME NEW p \in Proc, CompensateIntent(p)
       PROVE  Forward
  BY <1>13 DEF CompensateIntent
<1>14. ASSUME NEW p \in Proc, FinishCompensation(p)
       PROVE  Forward
  BY <1>14 DEF FinishCompensation
<1>15. ASSUME NEW p \in Proc, CancelOrder(p)
       PROVE  Forward
  BY <1>15 DEF CancelOrder
<1>16. ASSUME NEW p \in Proc, Update(p) \/ AdvanceStage(p) \/ Cancel(p)
       PROVE  Forward
  BY <1>16 DEF Update, AdvanceStage, Cancel
<1>17. ASSUME NEW p \in Proc, CheckoutRequest(p) \/ LoadOrder(p)
       PROVE  Forward
  BY <1>17 DEF CheckoutRequest, LoadOrder
<1>18. ASSUME NEW p \in Proc, NEW i \in Attempt, HandlePaymentSucceeded(p, i)
       PROVE  Forward
  BY <1>18 DEF HandlePaymentSucceeded
<1>19. ASSUME NEW p \in Proc, NEW i \in Attempt, FindAwaiting(p, i)
       PROVE  Forward
  BY <1>19 DEF FindAwaiting
<1>20. ASSUME NEW p \in Proc, Crash(p)
       PROVE  Forward
  BY <1>20 DEF Crash
<1>21. ASSUME NEW p \in Proc, NEW l \in Line, ReserveLineLost(p, l)
       PROVE  Forward
  BY <1>21 DEF ReserveLineLost
<1>22. ASSUME NEW l \in Line, CommitLine(l) \/ ReleaseLine(l) \/ ExpireLine(l)
       PROVE  Forward
  BY <1>22 DEF CommitLine, ReleaseLine, ExpireLine
<1>23. ASSUME PaymentSucceeds \/ PaymentFails
       PROVE  Forward
  BY <1>23 DEF PaymentSucceeds, PaymentFails
<1>24. CASE UNCHANGED vars
  BY <1>24 DEF vars
<1> QED
  BY <1>1, <1>2, <1>3, <1>4, <1>5, <1>6, <1>7, <1>8, <1>9, <1>10, <1>11,
     <1>12, <1>13, <1>14, <1>15, <1>16, <1>17, <1>18, <1>19, <1>20, <1>21,
     <1>22, <1>23, <1>24 DEF Next, Proceed, Request, Handle, Die,
     HandlePaymentFailed, HandlePaymentTimeout, HandleReservationExpired

\* TypeOK but for the sagas and the executions.
RestOK ==
    /\ order \in Order
    /\ lineRef \subseteq Line
    /\ hold \in [Line -> Holds!Fate]
    /\ payment \in Intent!Status
    /\ events \subseteq Intent!Result
    /\ armed \subseteq Attempt
    /\ placed \subseteq Attempt
    /\ toRelease \subseteq Line
    /\ crashes \in 0..MaxCrash

\* Every step keeps the types of the rows that are not the saga's, and of the
\* other services.
LEMMA RestType ==
    ASSUME TypeOK, PlaceInv, [Next]_vars
    PROVE  RestOK'
<1> USE DEF RestOK, Do, At, Idle, Drives, InOrderService, Elsewhere, TypeOK,
   PlaceInv, Settling, Begun, OpenOrReplay, ReleaseIfActive,
   StartCompensation, Holds!Fate, Holds!Open, Holds!Settle, Holds!Settlement,
   Intent!Status, Intent!Result, Intent!Create, Intent!Succeed, Intent!Fail,
   Intent!Cancel, Order, Stage
<1>1. ASSUME NEW p \in Proc, StartSaga(p)
      PROVE  RestOK'
  BY <1>1, WorkType, RowType DEF StartSaga
<1>2. ASSUME NEW p \in Proc, ValidateDiscount(p)
      PROVE  RestOK'
  BY <1>2, WorkType, RowType DEF ValidateDiscount
<1>3. ASSUME NEW p \in Proc, SaveDiscount(p)
      PROVE  RestOK'
  BY <1>3, WorkType, RowType DEF SaveDiscount
<1>4. ASSUME NEW p \in Proc, NEW l \in Line, ReserveLine(p, l)
      PROVE  RestOK'
  BY <1>4, WorkType, RowType DEF ReserveLine
<1>5. ASSUME NEW p \in Proc, NEW l \in Line, ReserveLineRefused(p, l)
      PROVE  RestOK'
  BY <1>5, WorkType, RowType DEF ReserveLineRefused
<1>6. ASSUME NEW p \in Proc, NEW l \in Line, CompensateLine(p, l)
      PROVE  RestOK'
  BY <1>6, WorkType, RowType DEF CompensateLine
<1>7. ASSUME NEW p \in Proc, LinesReserved(p)
      PROVE  RestOK'
  BY <1>7, WorkType, RowType DEF LinesReserved
<1>8. ASSUME NEW p \in Proc, CreateIntent(p)
      PROVE  RestOK'
  BY <1>8, WorkType, RowType DEF CreateIntent
<1>9. ASSUME NEW p \in Proc, CreateIntentRefused(p)
      PROVE  RestOK'
  BY <1>9, WorkType, RowType DEF CreateIntentRefused
<1>10. ASSUME NEW p \in Proc, EnterAwaitingPayment(p)
       PROVE  RestOK'
  BY <1>10, WorkType, RowType DEF EnterAwaitingPayment
<1>11. ASSUME NEW p \in Proc, CompleteSaga(p)
       PROVE  RestOK'
  <2>1. act[p].id \in Attempt /\ act[p].order \in Order
    BY <1>11, WorkType DEF CompleteSaga
  <2>2. [act[p].order EXCEPT !.paid = TRUE, !.stage = 2] \in Order
    BY <2>1, PaidOrder
  <2> QED
    BY <1>11, <2>1, <2>2 DEF CompleteSaga
<1>12. ASSUME NEW p \in Proc, FailAwaitingPayment(p)
       PROVE  RestOK'
  BY <1>12, WorkType, RowType DEF FailAwaitingPayment
<1>13. ASSUME NEW p \in Proc, CompensateIntent(p)
       PROVE  RestOK'
  BY <1>13, WorkType, RowType DEF CompensateIntent
<1>14. ASSUME NEW p \in Proc, FinishCompensation(p)
       PROVE  RestOK'
  BY <1>14, WorkType, RowType DEF FinishCompensation
<1>15. ASSUME NEW p \in Proc, CancelOrder(p)
       PROVE  RestOK'
  BY <1>15, WorkType, RowType DEF CancelOrder
<1>16. ASSUME NEW p \in Proc, Update(p) \/ AdvanceStage(p) \/ Cancel(p)
       PROVE  RestOK'
  BY <1>16, WorkType, RowType DEF Update, AdvanceStage, Cancel
<1>17. ASSUME NEW p \in Proc, CheckoutRequest(p) \/ LoadOrder(p)
       PROVE  RestOK'
  BY <1>17, WorkType, RowType DEF CheckoutRequest, LoadOrder
<1>18. ASSUME NEW p \in Proc, NEW i \in Attempt, HandlePaymentSucceeded(p, i)
       PROVE  RestOK'
  BY <1>18, WorkType, RowType DEF HandlePaymentSucceeded
<1>19. ASSUME NEW p \in Proc, NEW i \in Attempt, FindAwaiting(p, i)
       PROVE  RestOK'
  BY <1>19, WorkType, RowType DEF FindAwaiting
<1>20. ASSUME NEW p \in Proc, Crash(p)
       PROVE  RestOK'
  BY <1>20, WorkType, RowType DEF Crash
<1>21. ASSUME NEW p \in Proc, NEW l \in Line, ReserveLineLost(p, l)
       PROVE  RestOK'
  BY <1>21, WorkType, RowType DEF ReserveLineLost
<1>22. ASSUME NEW l \in Line, CommitLine(l) \/ ReleaseLine(l) \/ ExpireLine(l)
       PROVE  RestOK'
  BY <1>22, WorkType, RowType DEF CommitLine, ReleaseLine, ExpireLine
<1>23. ASSUME PaymentSucceeds \/ PaymentFails
       PROVE  RestOK'
  BY <1>23, WorkType, RowType DEF PaymentSucceeds, PaymentFails
<1>24. CASE UNCHANGED vars
  BY <1>24 DEF vars
<1> QED
  BY <1>1, <1>2, <1>3, <1>4, <1>5, <1>6, <1>7, <1>8, <1>9, <1>10, <1>11,
     <1>12, <1>13, <1>14, <1>15, <1>16, <1>17, <1>18, <1>19, <1>20, <1>21,
     <1>22, <1>23, <1>24 DEF Next, Proceed, Request, Handle, Die,
     HandlePaymentFailed, HandlePaymentTimeout, HandleReservationExpired

\* Every step leaves an execution somewhere.
LEMMA ActType ==
    ASSUME TypeOK, PlaceInv, [Next]_vars
    PROVE  act' \in [Proc -> {Idle} \cup Work]
<1> USE DEF Do, At, Drives, InOrderService, TypeOK, PlaceInv, Settling, Begun,
   StartCompensation, Synchronous
<1>1. ASSUME NEW p \in Proc, StartSaga(p)
      PROVE  act' \in [Proc -> {Idle} \cup Work]
  <2>1. \A i \in Attempt :
           [pc |-> "run", id |-> i, lines |-> {}, intent |-> FALSE] \in Work
    BY DEF Work
  <2> QED
    BY <1>1, <2>1 DEF StartSaga
<1>2. ASSUME NEW p \in Proc, ValidateDiscount(p)
      PROVE  act' \in [Proc -> {Idle} \cup Work]
  <2>1. act[p].id \in Attempt /\ order \in Order
    BY <1>2, WorkType DEF ValidateDiscount
  <2>2. [pc |-> "discount", id |-> act[p].id, order |-> order] \in Work
    BY <2>1 DEF Work
  <2> QED
    BY <1>2, <2>2 DEF ValidateDiscount
<1>3. ASSUME NEW p \in Proc, SaveDiscount(p)
      PROVE  act' \in [Proc -> {Idle} \cup Work]
  BY <1>3, WorkType, RowType, NewWork DEF SaveDiscount
<1>4. ASSUME NEW p \in Proc, NEW l \in Line, ReserveLine(p, l)
      PROVE  act' \in [Proc -> {Idle} \cup Work]
  <2>1. act[p] \in Work /\ act[p].pc = "run"
    BY <1>4 DEF ReserveLine, Idle
  <2>2. [act[p] EXCEPT !.lines = @ \cup {l}] \in Work
    BY <2>1, RunUpdate
  <2> QED
    BY <1>4, <2>2 DEF ReserveLine
<1>5. ASSUME NEW p \in Proc, NEW l \in Line, ReserveLineRefused(p, l)
      PROVE  act' \in [Proc -> {Idle} \cup Work]
  BY <1>5, WorkType, RowType, NewWork DEF ReserveLineRefused
<1>6. ASSUME NEW p \in Proc, NEW l \in Line, CompensateLine(p, l)
      PROVE  act' \in [Proc -> {Idle} \cup Work]
  <2>1. act[p] \in Work /\ act[p].pc = "compensate"
    BY <1>6 DEF CompensateLine, Idle
  <2>2. [act[p] EXCEPT !.todo = @ \ {l}] \in Work
    BY <2>1, CompensateUpdate
  <2> QED
    BY <1>6, <2>2 DEF CompensateLine
<1>7. ASSUME NEW p \in Proc, LinesReserved(p)
      PROVE  act' \in [Proc -> {Idle} \cup Work]
  BY <1>7, WorkType, RowType, NewWork DEF LinesReserved
<1>8. ASSUME NEW p \in Proc, CreateIntent(p)
      PROVE  act' \in [Proc -> {Idle} \cup Work]
  <2>1. act[p] \in Work /\ act[p].pc = "run"
    BY <1>8 DEF CreateIntent, Idle
  <2>2. [act[p] EXCEPT !.intent = TRUE] \in Work
    BY <2>1, RunUpdate
  <2> QED
    BY <1>8, <2>2 DEF CreateIntent
<1>9. ASSUME NEW p \in Proc, CreateIntentRefused(p)
      PROVE  act' \in [Proc -> {Idle} \cup Work]
  BY <1>9, WorkType, RowType, NewWork DEF CreateIntentRefused
<1>10. ASSUME NEW p \in Proc, EnterAwaitingPayment(p)
       PROVE  act' \in [Proc -> {Idle} \cup Work]
  BY <1>10, WorkType, RowType, NewWork DEF EnterAwaitingPayment
<1>11. ASSUME NEW p \in Proc, CompleteSaga(p)
       PROVE  act' \in [Proc -> {Idle} \cup Work]
  BY <1>11, WorkType, RowType, NewWork DEF CompleteSaga
<1>12. ASSUME NEW p \in Proc, FailAwaitingPayment(p)
       PROVE  act' \in [Proc -> {Idle} \cup Work]
  BY <1>12, WorkType, RowType, NewWork DEF FailAwaitingPayment
<1>13. ASSUME NEW p \in Proc, CompensateIntent(p)
       PROVE  act' \in [Proc -> {Idle} \cup Work]
  <2>1. act[p].id \in Attempt
    BY <1>13, WorkType DEF CompensateIntent
  <2>2. [pc |-> "intentCanceled", id |-> act[p].id] \in Work
    BY <2>1 DEF Work
  <2> QED
    BY <1>13, <2>2 DEF CompensateIntent
<1>14. ASSUME NEW p \in Proc, FinishCompensation(p)
       PROVE  act' \in [Proc -> {Idle} \cup Work]
  <2>1. act[p].id \in Attempt
    BY <1>14, WorkType DEF FinishCompensation
  <2>2. [pc |-> "cancelOrder", id |-> act[p].id, order |-> order] \in Work
    BY <2>1 DEF Work
  <2> QED
    BY <1>14, <2>2 DEF FinishCompensation
<1>15. ASSUME NEW p \in Proc, CancelOrder(p)
       PROVE  act' \in [Proc -> {Idle} \cup Work]
  BY <1>15, WorkType, RowType, NewWork DEF CancelOrder
<1>16. ASSUME NEW p \in Proc, Update(p) \/ AdvanceStage(p) \/ Cancel(p)
       PROVE  act' \in [Proc -> {Idle} \cup Work]
  BY <1>16, WorkType, RowType, NewWork DEF Update, AdvanceStage, Cancel
<1>17. ASSUME NEW p \in Proc, CheckoutRequest(p) \/ LoadOrder(p)
       PROVE  act' \in [Proc -> {Idle} \cup Work]
  <2>1. [pc |-> "checked"] \in Work /\ [pc |-> "edit", order |-> order] \in Work
    BY DEF Work
  <2> QED
    BY <1>17, <2>1 DEF CheckoutRequest, LoadOrder
<1>18. ASSUME NEW p \in Proc, NEW i \in Attempt, HandlePaymentSucceeded(p, i)
       PROVE  act' \in [Proc -> {Idle} \cup Work]
  BY <1>18, WorkType, RowType, NewWork DEF HandlePaymentSucceeded
<1>19. ASSUME NEW p \in Proc, NEW i \in Attempt, FindAwaiting(p, i)
       PROVE  act' \in [Proc -> {Idle} \cup Work]
  BY <1>19, WorkType, RowType, NewWork DEF FindAwaiting
<1>20. ASSUME NEW p \in Proc, Crash(p)
       PROVE  act' \in [Proc -> {Idle} \cup Work]
  BY <1>20, WorkType, RowType, NewWork DEF Crash
<1>21. ASSUME NEW p \in Proc, NEW l \in Line, ReserveLineLost(p, l)
       PROVE  act' \in [Proc -> {Idle} \cup Work]
  BY <1>21, WorkType, RowType, NewWork DEF ReserveLineLost
<1>22. ASSUME NEW l \in Line, CommitLine(l) \/ ReleaseLine(l) \/ ExpireLine(l)
       PROVE  act' \in [Proc -> {Idle} \cup Work]
  BY <1>22, WorkType, RowType, NewWork DEF CommitLine, ReleaseLine, ExpireLine
<1>23. ASSUME PaymentSucceeds \/ PaymentFails
       PROVE  act' \in [Proc -> {Idle} \cup Work]
  BY <1>23, WorkType, RowType, NewWork DEF PaymentSucceeds, PaymentFails
<1>24. CASE UNCHANGED vars
  BY <1>24 DEF vars
<1> QED
  BY <1>1, <1>2, <1>3, <1>4, <1>5, <1>6, <1>7, <1>8, <1>9, <1>10, <1>11,
     <1>12, <1>13, <1>14, <1>15, <1>16, <1>17, <1>18, <1>19, <1>20, <1>21,
     <1>22, <1>23, <1>24 DEF Next, Proceed, Request, Handle, Die,
     HandlePaymentFailed, HandlePaymentTimeout, HandleReservationExpired

\* Every step leaves whole saga rows.
LEMMA SagaType ==
    ASSUME TypeOK, PlaceInv, [Next]_vars
    PROVE  saga' \in [Attempt -> {NoSaga} \cup Saga]
<1> USE DEF At, Drives, InOrderService, TypeOK, PlaceInv, Settling, Begun,
   StartCompensation, Synchronous, Step, RunningStep
<1>1. ASSUME NEW p \in Proc, StartSaga(p)
      PROVE  saga' \in [Attempt -> {NoSaga} \cup Saga]
  <2>1. [step |-> "validating_discount", lines |-> {}, intent |-> FALSE] \in Saga
    BY DEF Saga, Step, RunningStep, Synchronous
  <2> QED
    BY <1>1, <2>1 DEF StartSaga
<1>2. ASSUME NEW p \in Proc, ValidateDiscount(p)
      PROVE  saga' \in [Attempt -> {NoSaga} \cup Saga]
  <2>1. act[p].id \in Attempt /\ saga[act[p].id].step # "none"
    BY <1>2, WorkType DEF ValidateDiscount
  <2>2. \A s \in Step : [saga EXCEPT ![act[p].id].step = s]
                            \in [Attempt -> {NoSaga} \cup Saga]
    BY <2>1, RowType
  <2> QED
    BY <1>2, <2>2 DEF ValidateDiscount
<1>3. ASSUME NEW p \in Proc, SaveDiscount(p)
      PROVE  saga' \in [Attempt -> {NoSaga} \cup Saga]
  BY <1>3, WorkType, RowType, NewSaga DEF SaveDiscount
<1>4. ASSUME NEW p \in Proc, NEW l \in Line, ReserveLine(p, l)
      PROVE  saga' \in [Attempt -> {NoSaga} \cup Saga]
  BY <1>4, WorkType, RowType, NewSaga DEF ReserveLine
<1>5. ASSUME NEW p \in Proc, NEW l \in Line, ReserveLineRefused(p, l)
      PROVE  saga' \in [Attempt -> {NoSaga} \cup Saga]
  BY <1>5, WorkType, RowType, NewSaga DEF ReserveLineRefused
<1>6. ASSUME NEW p \in Proc, NEW l \in Line, CompensateLine(p, l)
      PROVE  saga' \in [Attempt -> {NoSaga} \cup Saga]
  BY <1>6, WorkType, RowType, NewSaga DEF CompensateLine
<1>7. ASSUME NEW p \in Proc, LinesReserved(p)
      PROVE  saga' \in [Attempt -> {NoSaga} \cup Saga]
  BY <1>7, WorkType, RowType, NewSaga DEF LinesReserved
<1>8. ASSUME NEW p \in Proc, CreateIntent(p)
      PROVE  saga' \in [Attempt -> {NoSaga} \cup Saga]
  BY <1>8, WorkType, RowType, NewSaga DEF CreateIntent
<1>9. ASSUME NEW p \in Proc, CreateIntentRefused(p)
      PROVE  saga' \in [Attempt -> {NoSaga} \cup Saga]
  BY <1>9, WorkType, RowType, NewSaga DEF CreateIntentRefused
<1>10. ASSUME NEW p \in Proc, EnterAwaitingPayment(p)
       PROVE  saga' \in [Attempt -> {NoSaga} \cup Saga]
  <2> DEFINE i == act[p].id
  <2>1. i \in Attempt /\ saga[i] \in Saga
    BY <1>10, WorkType, RowType DEF EnterAwaitingPayment
  <2>2. [saga[i] EXCEPT !.step = "awaiting_payment", !.intent = TRUE] \in Saga
    BY <2>1 DEF Saga
  <2>3. saga' = [saga EXCEPT ![i] = [saga[i] EXCEPT !.step = "awaiting_payment",
                                                    !.intent = TRUE]]
    BY <1>10, <2>1 DEF EnterAwaitingPayment
  <2> QED
    BY <2>1, <2>2, <2>3
<1>11. ASSUME NEW p \in Proc, CompleteSaga(p)
       PROVE  saga' \in [Attempt -> {NoSaga} \cup Saga]
  BY <1>11, WorkType, RowType, NewSaga DEF CompleteSaga
<1>12. ASSUME NEW p \in Proc, FailAwaitingPayment(p)
       PROVE  saga' \in [Attempt -> {NoSaga} \cup Saga]
  BY <1>12, WorkType, RowType, NewSaga DEF FailAwaitingPayment
<1>13. ASSUME NEW p \in Proc, CompensateIntent(p)
       PROVE  saga' \in [Attempt -> {NoSaga} \cup Saga]
  BY <1>13, WorkType, RowType, NewSaga DEF CompensateIntent
<1>14. ASSUME NEW p \in Proc, FinishCompensation(p)
       PROVE  saga' \in [Attempt -> {NoSaga} \cup Saga]
  BY <1>14, WorkType, RowType, NewSaga DEF FinishCompensation
<1>15. ASSUME NEW p \in Proc, CancelOrder(p)
       PROVE  saga' \in [Attempt -> {NoSaga} \cup Saga]
  BY <1>15, WorkType, RowType, NewSaga DEF CancelOrder
<1>16. ASSUME NEW p \in Proc, Update(p) \/ AdvanceStage(p) \/ Cancel(p)
       PROVE  saga' \in [Attempt -> {NoSaga} \cup Saga]
  BY <1>16, WorkType, RowType, NewSaga DEF Update, AdvanceStage, Cancel
<1>17. ASSUME NEW p \in Proc, CheckoutRequest(p) \/ LoadOrder(p)
       PROVE  saga' \in [Attempt -> {NoSaga} \cup Saga]
  BY <1>17, WorkType, RowType, NewSaga DEF CheckoutRequest, LoadOrder
<1>18. ASSUME NEW p \in Proc, NEW i \in Attempt, HandlePaymentSucceeded(p, i)
       PROVE  saga' \in [Attempt -> {NoSaga} \cup Saga]
  BY <1>18, WorkType, RowType, NewSaga DEF HandlePaymentSucceeded
<1>19. ASSUME NEW p \in Proc, NEW i \in Attempt, FindAwaiting(p, i)
       PROVE  saga' \in [Attempt -> {NoSaga} \cup Saga]
  BY <1>19, WorkType, RowType, NewSaga DEF FindAwaiting
<1>20. ASSUME NEW p \in Proc, Crash(p)
       PROVE  saga' \in [Attempt -> {NoSaga} \cup Saga]
  BY <1>20, WorkType, RowType, NewSaga DEF Crash
<1>21. ASSUME NEW p \in Proc, NEW l \in Line, ReserveLineLost(p, l)
       PROVE  saga' \in [Attempt -> {NoSaga} \cup Saga]
  BY <1>21, WorkType, RowType, NewSaga DEF ReserveLineLost
<1>22. ASSUME NEW l \in Line, CommitLine(l) \/ ReleaseLine(l) \/ ExpireLine(l)
       PROVE  saga' \in [Attempt -> {NoSaga} \cup Saga]
  BY <1>22, WorkType, RowType, NewSaga DEF CommitLine, ReleaseLine, ExpireLine
<1>23. ASSUME PaymentSucceeds \/ PaymentFails
       PROVE  saga' \in [Attempt -> {NoSaga} \cup Saga]
  BY <1>23, WorkType, RowType, NewSaga DEF PaymentSucceeds, PaymentFails
<1>24. CASE UNCHANGED vars
  BY <1>24 DEF vars
<1> QED
  BY <1>1, <1>2, <1>3, <1>4, <1>5, <1>6, <1>7, <1>8, <1>9, <1>10, <1>11,
     <1>12, <1>13, <1>14, <1>15, <1>16, <1>17, <1>18, <1>19, <1>20, <1>21,
     <1>22, <1>23, <1>24 DEF Next, Proceed, Request, Handle, Die,
     HandlePaymentFailed, HandlePaymentTimeout, HandleReservationExpired

\* No step starts a saga while one runs.
LEMMA OneRunningStep ==
    ASSUME TypeOK, PlaceInv, OneRunningSaga, [Next]_vars
    PROVE  OneRunningSaga'
<1> USE DEF Do, At, Idle, Drives, InOrderService, Elsewhere, TypeOK, PlaceInv,
   Settling, Begun, Driving, Synchronous, StartCompensation, OneRunningSaga,
   Running, RunningStep
<1>1. ASSUME NEW p \in Proc, StartSaga(p)
      PROVE  OneRunningSaga'
  BY <1>1, WorkType, RowType DEF StartSaga
<1>2. ASSUME NEW p \in Proc, ValidateDiscount(p)
      PROVE  OneRunningSaga'
  BY <1>2, WorkType, RowType DEF ValidateDiscount
<1>3. ASSUME NEW p \in Proc, SaveDiscount(p)
      PROVE  OneRunningSaga'
  BY <1>3, WorkType, RowType DEF SaveDiscount
<1>4. ASSUME NEW p \in Proc, NEW l \in Line, ReserveLine(p, l)
      PROVE  OneRunningSaga'
  BY <1>4, WorkType, RowType DEF ReserveLine
<1>5. ASSUME NEW p \in Proc, NEW l \in Line, ReserveLineRefused(p, l)
      PROVE  OneRunningSaga'
  BY <1>5, WorkType, RowType DEF ReserveLineRefused
<1>6. ASSUME NEW p \in Proc, NEW l \in Line, CompensateLine(p, l)
      PROVE  OneRunningSaga'
  BY <1>6, WorkType, RowType DEF CompensateLine
<1>7. ASSUME NEW p \in Proc, LinesReserved(p)
      PROVE  OneRunningSaga'
  BY <1>7, WorkType, RowType DEF LinesReserved
<1>8. ASSUME NEW p \in Proc, CreateIntent(p)
      PROVE  OneRunningSaga'
  BY <1>8, WorkType, RowType DEF CreateIntent
<1>9. ASSUME NEW p \in Proc, CreateIntentRefused(p)
      PROVE  OneRunningSaga'
  BY <1>9, WorkType, RowType DEF CreateIntentRefused
<1>10. ASSUME NEW p \in Proc, EnterAwaitingPayment(p)
       PROVE  OneRunningSaga'
  BY <1>10, WorkType, RowType DEF EnterAwaitingPayment
<1>11. ASSUME NEW p \in Proc, CompleteSaga(p)
       PROVE  OneRunningSaga'
  BY <1>11, WorkType, RowType DEF CompleteSaga
<1>12. ASSUME NEW p \in Proc, FailAwaitingPayment(p)
       PROVE  OneRunningSaga'
  BY <1>12, WorkType, RowType DEF FailAwaitingPayment
<1>13. ASSUME NEW p \in Proc, CompensateIntent(p)
       PROVE  OneRunningSaga'
  BY <1>13, WorkType, RowType DEF CompensateIntent
<1>14. ASSUME NEW p \in Proc, FinishCompensation(p)
       PROVE  OneRunningSaga'
  BY <1>14, WorkType, RowType DEF FinishCompensation
<1>15. ASSUME NEW p \in Proc, CancelOrder(p)
       PROVE  OneRunningSaga'
  BY <1>15, WorkType, RowType DEF CancelOrder
<1>16. ASSUME NEW p \in Proc, Update(p) \/ AdvanceStage(p) \/ Cancel(p)
       PROVE  OneRunningSaga'
  BY <1>16, WorkType, RowType DEF Update, AdvanceStage, Cancel
<1>17. ASSUME NEW p \in Proc, CheckoutRequest(p) \/ LoadOrder(p)
       PROVE  OneRunningSaga'
  BY <1>17, WorkType, RowType DEF CheckoutRequest, LoadOrder
<1>18. ASSUME NEW p \in Proc, NEW i \in Attempt, HandlePaymentSucceeded(p, i)
       PROVE  OneRunningSaga'
  BY <1>18, WorkType, RowType DEF HandlePaymentSucceeded
<1>19. ASSUME NEW p \in Proc, NEW i \in Attempt, FindAwaiting(p, i)
       PROVE  OneRunningSaga'
  BY <1>19, WorkType, RowType DEF FindAwaiting
<1>20. ASSUME NEW p \in Proc, Crash(p)
       PROVE  OneRunningSaga'
  BY <1>20, WorkType, RowType DEF Crash
<1>21. ASSUME NEW p \in Proc, NEW l \in Line, ReserveLineLost(p, l)
       PROVE  OneRunningSaga'
  BY <1>21, WorkType, RowType DEF ReserveLineLost
<1>22. ASSUME NEW l \in Line, CommitLine(l) \/ ReleaseLine(l) \/ ExpireLine(l)
       PROVE  OneRunningSaga'
  BY <1>22, WorkType, RowType DEF CommitLine, ReleaseLine, ExpireLine
<1>23. ASSUME PaymentSucceeds \/ PaymentFails
       PROVE  OneRunningSaga'
  BY <1>23, WorkType, RowType DEF PaymentSucceeds, PaymentFails
<1>24. CASE UNCHANGED vars
  BY <1>24 DEF vars
<1> QED
  BY <1>1, <1>2, <1>3, <1>4, <1>5, <1>6, <1>7, <1>8, <1>9, <1>10, <1>11,
     <1>12, <1>13, <1>14, <1>15, <1>16, <1>17, <1>18, <1>19, <1>20, <1>21,
     <1>22, <1>23, <1>24 DEF Next, Proceed, Request, Handle, Die,
     HandlePaymentFailed, HandlePaymentTimeout, HandleReservationExpired

\* Every step keeps what the rows say in each step of a saga.
LEMMA RowStep ==
    ASSUME TypeOK, PlaceInv, RowInv, [Next]_vars
    PROVE  RowInv'
<1> USE DEF Do, At, Idle, Drives, InOrderService, Elsewhere, TypeOK, PlaceInv,
   Settling, Begun, Driving, Synchronous, StartCompensation, RowInv
<1>1. ASSUME NEW p \in Proc, StartSaga(p)
      PROVE  RowInv'
  BY <1>1, WorkType, RowType DEF StartSaga
<1>2. ASSUME NEW p \in Proc, ValidateDiscount(p)
      PROVE  RowInv'
  <2> DEFINE i == act[p].id
  <2>1. i \in Attempt /\ At(p, "run") /\ saga[i].step = "validating_discount"
    BY <1>2, WorkType DEF ValidateDiscount
  <2>2. saga[i].lines = {} /\ ~saga[i].intent
    BY <2>1 DEF RowInv
  <2>3. CASE UNCHANGED act /\ saga' = [saga EXCEPT ![i].step = "reserving_stock"]
    BY <1>2, <2>1, <2>2, <2>3, WorkType, RowType DEF ValidateDiscount
  <2>4. CASE Do(p, Idle) /\ saga' = [saga EXCEPT ![i].step = "failed"]
    BY <1>2, <2>1, <2>2, <2>4, WorkType, RowType DEF ValidateDiscount, Idle
  <2>5. CASE /\ Do(p, [pc |-> "discount", id |-> i, order |-> order])
             /\ UNCHANGED saga
    BY <1>2, <2>1, <2>2, <2>5, WorkType, RowType DEF ValidateDiscount
  <2> QED
    BY <1>2, <2>3, <2>4, <2>5 DEF ValidateDiscount
<1>3. ASSUME NEW p \in Proc, SaveDiscount(p)
      PROVE  RowInv'
  BY <1>3, WorkType, RowType DEF SaveDiscount
<1>4. ASSUME NEW p \in Proc, NEW l \in Line, ReserveLine(p, l)
      PROVE  RowInv'
  BY <1>4, WorkType, RowType DEF ReserveLine
<1>5. ASSUME NEW p \in Proc, NEW l \in Line, ReserveLineRefused(p, l)
      PROVE  RowInv'
  BY <1>5, WorkType, RowType DEF ReserveLineRefused
<1>6. ASSUME NEW p \in Proc, NEW l \in Line, CompensateLine(p, l)
      PROVE  RowInv'
  BY <1>6, WorkType, RowType DEF CompensateLine
<1>7. ASSUME NEW p \in Proc, LinesReserved(p)
      PROVE  RowInv'
  BY <1>7, WorkType, RowType DEF LinesReserved
<1>8. ASSUME NEW p \in Proc, CreateIntent(p)
      PROVE  RowInv'
  BY <1>8, WorkType, RowType DEF CreateIntent
<1>9. ASSUME NEW p \in Proc, CreateIntentRefused(p)
      PROVE  RowInv'
  BY <1>9, WorkType, RowType DEF CreateIntentRefused
<1>10. ASSUME NEW p \in Proc, EnterAwaitingPayment(p)
       PROVE  RowInv'
  BY <1>10, WorkType, RowType DEF EnterAwaitingPayment
<1>11. ASSUME NEW p \in Proc, CompleteSaga(p)
       PROVE  RowInv'
  BY <1>11, WorkType, RowType DEF CompleteSaga
<1>12. ASSUME NEW p \in Proc, FailAwaitingPayment(p)
       PROVE  RowInv'
  BY <1>12, WorkType, RowType DEF FailAwaitingPayment
<1>13. ASSUME NEW p \in Proc, CompensateIntent(p)
       PROVE  RowInv'
  BY <1>13, WorkType, RowType DEF CompensateIntent
<1>14. ASSUME NEW p \in Proc, FinishCompensation(p)
       PROVE  RowInv'
  BY <1>14, WorkType, RowType DEF FinishCompensation
<1>15. ASSUME NEW p \in Proc, CancelOrder(p)
       PROVE  RowInv'
  BY <1>15, WorkType, RowType DEF CancelOrder
<1>16. ASSUME NEW p \in Proc, Update(p) \/ AdvanceStage(p) \/ Cancel(p)
       PROVE  RowInv'
  BY <1>16, WorkType, RowType DEF Update, AdvanceStage, Cancel
<1>17. ASSUME NEW p \in Proc, CheckoutRequest(p) \/ LoadOrder(p)
       PROVE  RowInv'
  BY <1>17, WorkType, RowType DEF CheckoutRequest, LoadOrder
<1>18. ASSUME NEW p \in Proc, NEW i \in Attempt, HandlePaymentSucceeded(p, i)
       PROVE  RowInv'
  BY <1>18, WorkType, RowType DEF HandlePaymentSucceeded
<1>19. ASSUME NEW p \in Proc, NEW i \in Attempt, FindAwaiting(p, i)
       PROVE  RowInv'
  BY <1>19, WorkType, RowType DEF FindAwaiting
<1>20. ASSUME NEW p \in Proc, Crash(p)
       PROVE  RowInv'
  BY <1>20, WorkType, RowType DEF Crash
<1>21. ASSUME NEW p \in Proc, NEW l \in Line, ReserveLineLost(p, l)
       PROVE  RowInv'
  BY <1>21, WorkType, RowType DEF ReserveLineLost
<1>22. ASSUME NEW l \in Line, CommitLine(l) \/ ReleaseLine(l) \/ ExpireLine(l)
       PROVE  RowInv'
  BY <1>22, WorkType, RowType DEF CommitLine, ReleaseLine, ExpireLine
<1>23. ASSUME PaymentSucceeds \/ PaymentFails
       PROVE  RowInv'
  BY <1>23, WorkType, RowType DEF PaymentSucceeds, PaymentFails
<1>24. CASE UNCHANGED vars
  BY <1>24 DEF vars
<1> QED
  BY <1>1, <1>2, <1>3, <1>4, <1>5, <1>6, <1>7, <1>8, <1>9, <1>10, <1>11,
     <1>12, <1>13, <1>14, <1>15, <1>16, <1>17, <1>18, <1>19, <1>20, <1>21,
     <1>22, <1>23, <1>24 DEF Next, Proceed, Request, Handle, Die,
     HandlePaymentFailed, HandlePaymentTimeout, HandleReservationExpired

\* The lines and the intent in a saved row come from the row as it was, or
\* from the memory of an execution that drives a saga.
SavedFromMemory ==
    \A i \in Attempt : saga'[i] # NoSaga =>
        /\ \A l \in saga'[i].lines :
              \/ saga[i] # NoSaga /\ l \in saga[i].lines
              \/ \E p \in Proc : At(p, "run") /\ l \in act[p].lines
        /\ saga'[i].intent =>
              \/ saga[i] # NoSaga /\ saga[i].intent
              \/ \E p \in Proc : At(p, "run") /\ act[p].intent

\* What an execution adds to its memory is held.
MemoryIsHeld ==
    \A p \in Proc : At(p, "run")' =>
        /\ \A l \in act'[p].lines :
              (At(p, "run") /\ l \in act[p].lines) \/ hold'[l] # "none"
        /\ act'[p].intent =>
              (At(p, "run") /\ act[p].intent) \/ payment' # "none"

\* Every save writes the row it has read, or what its execution remembers.
LEMMA SavedFromMemoryStep ==
    ASSUME TypeOK, PlaceInv, [Next]_vars
    PROVE  SavedFromMemory
<1> USE DEF Do, At, Idle, Drives, InOrderService, TypeOK, PlaceInv, Settling,
   Begun, Driving, Synchronous, StartCompensation, SavedFromMemory, NoSaga
<1>1. ASSUME NEW p \in Proc, StartSaga(p)
      PROVE  SavedFromMemory
  BY <1>1, WorkType, RowType DEF StartSaga
<1>2. ASSUME NEW p \in Proc, ValidateDiscount(p)
      PROVE  SavedFromMemory
  <2> DEFINE i == act[p].id
  <2>1. i \in Attempt /\ At(p, "run") /\ saga[i].step = "validating_discount"
    BY <1>2, WorkType DEF ValidateDiscount
  <2>3. CASE UNCHANGED act /\ saga' = [saga EXCEPT ![i].step = "reserving_stock"]
    BY <1>2, <2>1, <2>3, WorkType, RowType DEF ValidateDiscount
  <2>4. CASE Do(p, Idle) /\ saga' = [saga EXCEPT ![i].step = "failed"]
    BY <1>2, <2>1, <2>4, WorkType, RowType DEF ValidateDiscount, Idle
  <2>5. CASE /\ Do(p, [pc |-> "discount", id |-> i, order |-> order])
             /\ UNCHANGED saga
    BY <1>2, <2>1, <2>5, WorkType, RowType DEF ValidateDiscount
  <2> QED
    BY <1>2, <2>3, <2>4, <2>5 DEF ValidateDiscount
<1>3. ASSUME NEW p \in Proc, SaveDiscount(p)
      PROVE  SavedFromMemory
  BY <1>3, WorkType, RowType DEF SaveDiscount
<1>4. ASSUME NEW p \in Proc, NEW l \in Line, ReserveLine(p, l)
      PROVE  SavedFromMemory
  BY <1>4, WorkType, RowType DEF ReserveLine
<1>5. ASSUME NEW p \in Proc, NEW l \in Line, ReserveLineRefused(p, l)
      PROVE  SavedFromMemory
  BY <1>5, WorkType, RowType DEF ReserveLineRefused
<1>6. ASSUME NEW p \in Proc, NEW l \in Line, CompensateLine(p, l)
      PROVE  SavedFromMemory
  BY <1>6, WorkType, RowType DEF CompensateLine
<1>7. ASSUME NEW p \in Proc, LinesReserved(p)
      PROVE  SavedFromMemory
  BY <1>7, WorkType, RowType DEF LinesReserved
<1>8. ASSUME NEW p \in Proc, CreateIntent(p)
      PROVE  SavedFromMemory
  BY <1>8, WorkType, RowType DEF CreateIntent
<1>9. ASSUME NEW p \in Proc, CreateIntentRefused(p)
      PROVE  SavedFromMemory
  BY <1>9, WorkType, RowType DEF CreateIntentRefused
<1>10. ASSUME NEW p \in Proc, EnterAwaitingPayment(p)
       PROVE  SavedFromMemory
  BY <1>10, WorkType, RowType DEF EnterAwaitingPayment
<1>11. ASSUME NEW p \in Proc, CompleteSaga(p)
       PROVE  SavedFromMemory
  BY <1>11, WorkType, RowType DEF CompleteSaga
<1>12. ASSUME NEW p \in Proc, FailAwaitingPayment(p)
       PROVE  SavedFromMemory
  BY <1>12, WorkType, RowType DEF FailAwaitingPayment
<1>13. ASSUME NEW p \in Proc, CompensateIntent(p)
       PROVE  SavedFromMemory
  BY <1>13, WorkType, RowType DEF CompensateIntent
<1>14. ASSUME NEW p \in Proc, FinishCompensation(p)
       PROVE  SavedFromMemory
  BY <1>14, WorkType, RowType DEF FinishCompensation
<1>15. ASSUME NEW p \in Proc, CancelOrder(p)
       PROVE  SavedFromMemory
  BY <1>15, WorkType, RowType DEF CancelOrder
<1>16. ASSUME NEW p \in Proc, Update(p) \/ AdvanceStage(p) \/ Cancel(p)
       PROVE  SavedFromMemory
  BY <1>16, WorkType, RowType DEF Update, AdvanceStage, Cancel
<1>17. ASSUME NEW p \in Proc, CheckoutRequest(p) \/ LoadOrder(p)
       PROVE  SavedFromMemory
  BY <1>17, WorkType, RowType DEF CheckoutRequest, LoadOrder
<1>18. ASSUME NEW p \in Proc, NEW i \in Attempt, HandlePaymentSucceeded(p, i)
       PROVE  SavedFromMemory
  BY <1>18, WorkType, RowType DEF HandlePaymentSucceeded
<1>19. ASSUME NEW p \in Proc, NEW i \in Attempt, FindAwaiting(p, i)
       PROVE  SavedFromMemory
  BY <1>19, WorkType, RowType DEF FindAwaiting
<1>20. ASSUME NEW p \in Proc, Crash(p)
       PROVE  SavedFromMemory
  BY <1>20, WorkType, RowType DEF Crash
<1>21. ASSUME NEW p \in Proc, NEW l \in Line, ReserveLineLost(p, l)
       PROVE  SavedFromMemory
  BY <1>21, WorkType, RowType DEF ReserveLineLost
<1>22. ASSUME NEW l \in Line, CommitLine(l) \/ ReleaseLine(l) \/ ExpireLine(l)
       PROVE  SavedFromMemory
  BY <1>22, WorkType, RowType DEF CommitLine, ReleaseLine, ExpireLine
<1>23. ASSUME PaymentSucceeds \/ PaymentFails
       PROVE  SavedFromMemory
  BY <1>23, WorkType, RowType DEF PaymentSucceeds, PaymentFails
<1>24. CASE UNCHANGED vars
  BY <1>24 DEF vars
<1> QED
  BY <1>1, <1>2, <1>3, <1>4, <1>5, <1>6, <1>7, <1>8, <1>9, <1>10, <1>11,
     <1>12, <1>13, <1>14, <1>15, <1>16, <1>17, <1>18, <1>19, <1>20, <1>21,
     <1>22, <1>23, <1>24 DEF Next, Proceed, Request, Handle, Die,
     HandlePaymentFailed, HandlePaymentTimeout, HandleReservationExpired

\* An execution remembers a line or an intent only once it exists.
LEMMA MemoryIsHeldStep ==
    ASSUME TypeOK, PlaceInv, [Next]_vars
    PROVE  MemoryIsHeld
<1> USE DEF Do, At, Idle, Drives, InOrderService, Elsewhere, TypeOK, PlaceInv,
   Settling, Begun, Driving, Synchronous, StartCompensation, MemoryIsHeld
<1>1. ASSUME NEW p \in Proc, StartSaga(p)
      PROVE  MemoryIsHeld
  BY <1>1, WorkType DEF StartSaga
<1>2. ASSUME NEW p \in Proc, ValidateDiscount(p)
      PROVE  MemoryIsHeld
  BY <1>2, WorkType DEF ValidateDiscount
<1>3. ASSUME NEW p \in Proc, SaveDiscount(p)
      PROVE  MemoryIsHeld
  BY <1>3, WorkType DEF SaveDiscount
<1>4. ASSUME NEW p \in Proc, NEW l \in Line, ReserveLine(p, l)
      PROVE  MemoryIsHeld
  BY <1>4, WorkType DEF ReserveLine, OpenOrReplay, Holds!Open
<1>5. ASSUME NEW p \in Proc, NEW l \in Line, ReserveLineRefused(p, l)
      PROVE  MemoryIsHeld
  BY <1>5, WorkType DEF ReserveLineRefused
<1>6. ASSUME NEW p \in Proc, NEW l \in Line, CompensateLine(p, l)
      PROVE  MemoryIsHeld
  BY <1>6, WorkType DEF CompensateLine
<1>7. ASSUME NEW p \in Proc, LinesReserved(p)
      PROVE  MemoryIsHeld
  BY <1>7, WorkType DEF LinesReserved
<1>8. ASSUME NEW p \in Proc, CreateIntent(p)
      PROVE  MemoryIsHeld
  BY <1>8, WorkType DEF CreateIntent, Intent!Create
<1>9. ASSUME NEW p \in Proc, CreateIntentRefused(p)
      PROVE  MemoryIsHeld
  BY <1>9, WorkType DEF CreateIntentRefused
<1>10. ASSUME NEW p \in Proc, EnterAwaitingPayment(p)
       PROVE  MemoryIsHeld
  BY <1>10, WorkType DEF EnterAwaitingPayment
<1>11. ASSUME NEW p \in Proc, CompleteSaga(p)
       PROVE  MemoryIsHeld
  BY <1>11, WorkType DEF CompleteSaga
<1>12. ASSUME NEW p \in Proc, FailAwaitingPayment(p)
       PROVE  MemoryIsHeld
  BY <1>12, WorkType DEF FailAwaitingPayment
<1>13. ASSUME NEW p \in Proc, CompensateIntent(p)
       PROVE  MemoryIsHeld
  BY <1>13, WorkType DEF CompensateIntent
<1>14. ASSUME NEW p \in Proc, FinishCompensation(p)
       PROVE  MemoryIsHeld
  BY <1>14, WorkType DEF FinishCompensation
<1>15. ASSUME NEW p \in Proc, CancelOrder(p)
       PROVE  MemoryIsHeld
  BY <1>15, WorkType DEF CancelOrder
<1>16. ASSUME NEW p \in Proc, Update(p) \/ AdvanceStage(p) \/ Cancel(p)
       PROVE  MemoryIsHeld
  BY <1>16, WorkType DEF Update, AdvanceStage, Cancel
<1>17. ASSUME NEW p \in Proc, CheckoutRequest(p) \/ LoadOrder(p)
       PROVE  MemoryIsHeld
  BY <1>17, WorkType DEF CheckoutRequest, LoadOrder
<1>18. ASSUME NEW p \in Proc, NEW i \in Attempt, HandlePaymentSucceeded(p, i)
       PROVE  MemoryIsHeld
  BY <1>18, WorkType DEF HandlePaymentSucceeded
<1>19. ASSUME NEW p \in Proc, NEW i \in Attempt, FindAwaiting(p, i)
       PROVE  MemoryIsHeld
  BY <1>19, WorkType DEF FindAwaiting
<1>20. ASSUME NEW p \in Proc, Crash(p)
       PROVE  MemoryIsHeld
  BY <1>20, WorkType DEF Crash
<1>21. ASSUME NEW p \in Proc, NEW l \in Line, ReserveLineLost(p, l)
       PROVE  MemoryIsHeld
  BY <1>21, WorkType DEF ReserveLineLost
<1>22. ASSUME NEW l \in Line, CommitLine(l) \/ ReleaseLine(l) \/ ExpireLine(l)
       PROVE  MemoryIsHeld
  BY <1>22, WorkType DEF CommitLine, ReleaseLine, ExpireLine
<1>23. ASSUME PaymentSucceeds \/ PaymentFails
       PROVE  MemoryIsHeld
  BY <1>23, WorkType DEF PaymentSucceeds, PaymentFails
<1>24. CASE UNCHANGED vars
  BY <1>24 DEF vars
<1> QED
  BY <1>1, <1>2, <1>3, <1>4, <1>5, <1>6, <1>7, <1>8, <1>9, <1>10, <1>11,
     <1>12, <1>13, <1>14, <1>15, <1>16, <1>17, <1>18, <1>19, <1>20, <1>21,
     <1>22, <1>23, <1>24 DEF Next, Proceed, Request, Handle, Die,
     HandlePaymentFailed, HandlePaymentTimeout, HandleReservationExpired

\* Every step keeps what is held for the lines and intents on record.
LEMMA HeldStep ==
    ASSUME TypeOK, PlaceInv, HeldInv, [Next]_vars
    PROVE  HeldInv'
<1>1. Forward
  BY ForwardStep
<1>2. SavedFromMemory
  BY SavedFromMemoryStep
<1>3. MemoryIsHeld
  BY MemoryIsHeldStep
<1>4. saga' \in [Attempt -> {NoSaga} \cup Saga]
  BY SagaType
<1>5. act' \in [Proc -> {Idle} \cup Work]
  BY ActType
<1>6. ASSUME NEW i \in Attempt, saga'[i] # NoSaga
      PROVE  /\ \A l \in saga'[i].lines : hold'[l] # "none"
             /\ saga'[i].intent => payment' # "none"
  <2>1. saga'[i].lines \subseteq Line
    BY <1>4, <1>6 DEF Saga
  <2>2. \A l \in saga'[i].lines : hold[l] # "none"
    BY <1>2, <1>6 DEF SavedFromMemory, HeldInv
  <2>3. saga'[i].intent => payment # "none"
    BY <1>2, <1>6 DEF SavedFromMemory, HeldInv
  <2> QED
    BY <1>1, <2>1, <2>2, <2>3 DEF Forward
<1>7. ASSUME NEW p \in Proc, At(p, "run")'
      PROVE  /\ \A l \in act'[p].lines : hold'[l] # "none"
             /\ act'[p].intent => payment' # "none"
  <2>1. act'[p].lines \subseteq Line
    BY <1>5, <1>7 DEF At, Idle, Work
  <2>2. \A l \in act'[p].lines : hold[l] # "none" \/ hold'[l] # "none"
    BY <1>3, <1>7 DEF MemoryIsHeld, HeldInv
  <2>3. act'[p].intent => payment # "none" \/ payment' # "none"
    BY <1>3, <1>7 DEF MemoryIsHeld, HeldInv
  <2> QED
    BY <1>1, <2>1, <2>2, <2>3 DEF Forward
<1> QED
  BY <1>6, <1>7 DEF HeldInv

\* No step cancels a payment and leaves the event out.
LEMMA PaymentStep ==
    ASSUME TypeOK, PaymentInv, [Next]_vars
    PROVE  PaymentInv'
<1> USE DEF PaymentInv, Elsewhere, InOrderService, StartCompensation,
   Intent!Create, Intent!Succeed, Intent!Fail, Intent!Cancel
<1>1. ASSUME NEW p \in Proc, StartSaga(p)
      PROVE  PaymentInv'
  BY <1>1 DEF StartSaga
<1>2. ASSUME NEW p \in Proc, ValidateDiscount(p)
      PROVE  PaymentInv'
  BY <1>2 DEF ValidateDiscount
<1>3. ASSUME NEW p \in Proc, SaveDiscount(p)
      PROVE  PaymentInv'
  BY <1>3 DEF SaveDiscount
<1>4. ASSUME NEW p \in Proc, NEW l \in Line, ReserveLine(p, l)
      PROVE  PaymentInv'
  BY <1>4 DEF ReserveLine
<1>5. ASSUME NEW p \in Proc, NEW l \in Line, ReserveLineRefused(p, l)
      PROVE  PaymentInv'
  BY <1>5 DEF ReserveLineRefused
<1>6. ASSUME NEW p \in Proc, NEW l \in Line, CompensateLine(p, l)
      PROVE  PaymentInv'
  BY <1>6 DEF CompensateLine
<1>7. ASSUME NEW p \in Proc, LinesReserved(p)
      PROVE  PaymentInv'
  BY <1>7 DEF LinesReserved
<1>8. ASSUME NEW p \in Proc, CreateIntent(p)
      PROVE  PaymentInv'
  BY <1>8 DEF CreateIntent
<1>9. ASSUME NEW p \in Proc, CreateIntentRefused(p)
      PROVE  PaymentInv'
  BY <1>9 DEF CreateIntentRefused
<1>10. ASSUME NEW p \in Proc, EnterAwaitingPayment(p)
       PROVE  PaymentInv'
  BY <1>10 DEF EnterAwaitingPayment
<1>11. ASSUME NEW p \in Proc, CompleteSaga(p)
       PROVE  PaymentInv'
  BY <1>11 DEF CompleteSaga
<1>12. ASSUME NEW p \in Proc, FailAwaitingPayment(p)
       PROVE  PaymentInv'
  BY <1>12 DEF FailAwaitingPayment
<1>13. ASSUME NEW p \in Proc, CompensateIntent(p)
       PROVE  PaymentInv'
  BY <1>13 DEF CompensateIntent
<1>14. ASSUME NEW p \in Proc, FinishCompensation(p)
       PROVE  PaymentInv'
  BY <1>14 DEF FinishCompensation
<1>15. ASSUME NEW p \in Proc, CancelOrder(p)
       PROVE  PaymentInv'
  BY <1>15 DEF CancelOrder
<1>16. ASSUME NEW p \in Proc, Update(p) \/ AdvanceStage(p) \/ Cancel(p)
       PROVE  PaymentInv'
  BY <1>16 DEF Update, AdvanceStage, Cancel
<1>17. ASSUME NEW p \in Proc, CheckoutRequest(p) \/ LoadOrder(p)
       PROVE  PaymentInv'
  BY <1>17 DEF CheckoutRequest, LoadOrder
<1>18. ASSUME NEW p \in Proc, NEW i \in Attempt, HandlePaymentSucceeded(p, i)
       PROVE  PaymentInv'
  BY <1>18 DEF HandlePaymentSucceeded
<1>19. ASSUME NEW p \in Proc, NEW i \in Attempt, FindAwaiting(p, i)
       PROVE  PaymentInv'
  BY <1>19 DEF FindAwaiting
<1>20. ASSUME NEW p \in Proc, Crash(p)
       PROVE  PaymentInv'
  BY <1>20 DEF Crash
<1>21. ASSUME NEW p \in Proc, NEW l \in Line, ReserveLineLost(p, l)
       PROVE  PaymentInv'
  BY <1>21 DEF ReserveLineLost
<1>22. ASSUME NEW l \in Line, CommitLine(l) \/ ReleaseLine(l) \/ ExpireLine(l)
       PROVE  PaymentInv'
  BY <1>22 DEF CommitLine, ReleaseLine, ExpireLine
<1>23. ASSUME PaymentSucceeds \/ PaymentFails
       PROVE  PaymentInv'
  BY <1>23 DEF PaymentSucceeds, PaymentFails
<1>24. CASE UNCHANGED vars
  BY <1>24 DEF vars
<1> QED
  BY <1>1, <1>2, <1>3, <1>4, <1>5, <1>6, <1>7, <1>8, <1>9, <1>10, <1>11,
     <1>12, <1>13, <1>14, <1>15, <1>16, <1>17, <1>18, <1>19, <1>20, <1>21,
     <1>22, <1>23, <1>24 DEF Next, Proceed, Request, Handle, Die,
     HandlePaymentFailed, HandlePaymentTimeout, HandleReservationExpired

\* Every step keeps what compensations have undone.
LEMMA UndoStep ==
    ASSUME TypeOK, PlaceInv, RowInv, HeldInv, UndoInv, PaymentInv, [Next]_vars
    PROVE  UndoInv'
<1> USE DEF Do, At, Idle, Drives, InOrderService, Elsewhere, TypeOK, PlaceInv,
   Settling, Begun, Driving, Synchronous, StartCompensation, UndoInv, Undone,
   Forward
<1>0. Forward
  BY ForwardStep
<1>1. ASSUME NEW p \in Proc, StartSaga(p)
      PROVE  UndoInv'
  BY <1>1, <1>0, WorkType, RowType DEF StartSaga
<1>2. ASSUME NEW p \in Proc, ValidateDiscount(p)
      PROVE  UndoInv'
  <2> DEFINE i == act[p].id
  <2>1. i \in Attempt /\ At(p, "run") /\ saga[i].step = "validating_discount"
    BY <1>2, WorkType DEF ValidateDiscount
  <2>2. saga[i].lines = {} /\ ~saga[i].intent
    BY <2>1 DEF RowInv
  <2>3. CASE UNCHANGED act /\ saga' = [saga EXCEPT ![i].step = "reserving_stock"]
    BY <1>2, <2>1, <2>2, <2>3, WorkType, RowType, <1>0 DEF ValidateDiscount
  <2>4. CASE Do(p, Idle) /\ saga' = [saga EXCEPT ![i].step = "failed"]
    BY <1>2, <2>1, <2>2, <2>4, WorkType, RowType, <1>0 DEF ValidateDiscount, Idle
  <2>5. CASE /\ Do(p, [pc |-> "discount", id |-> i, order |-> order])
             /\ UNCHANGED saga
    BY <1>2, <2>1, <2>2, <2>5, WorkType, RowType, <1>0 DEF ValidateDiscount
  <2> QED
    BY <1>2, <2>3, <2>4, <2>5 DEF ValidateDiscount
<1>3. ASSUME NEW p \in Proc, SaveDiscount(p)
      PROVE  UndoInv'
  BY <1>3, <1>0, WorkType, RowType DEF SaveDiscount
<1>4. ASSUME NEW p \in Proc, NEW l \in Line, ReserveLine(p, l)
      PROVE  UndoInv'
  BY <1>4, <1>0, WorkType, RowType DEF ReserveLine
<1>5. ASSUME NEW p \in Proc, NEW l \in Line, ReserveLineRefused(p, l)
      PROVE  UndoInv'
  BY <1>5, <1>0, WorkType, RowType DEF ReserveLineRefused, RowInv
<1>6. ASSUME NEW p \in Proc, NEW l \in Line, CompensateLine(p, l)
      PROVE  UndoInv'
  <2> DEFINE i == act[p].id
  <2>1. /\ i \in Attempt /\ At(p, "compensate") /\ UNCHANGED <<saga, events>>
        /\ Do(p, [act[p] EXCEPT !.todo = @ \ {l}])
    BY <1>6, WorkType DEF CompensateLine
  <2>2. /\ act'[p].pc = "compensate" /\ act'[p].id = i
        /\ act'[p].todo = act[p].todo \ {l}
        /\ act'[p].cancel = act[p].cancel
        /\ \A q \in Proc : q # p => act'[q] = act[q]
    <3>1. act[p] \in Work /\ act[p].pc = "compensate"
      BY <2>1 DEF Idle
    <3> QED
      BY <2>1, <3>1, CompensateUpdate
  <2>3. l \in saga[i].lines => hold'[l] \in Holds!Settlement
    BY <1>6, <2>1, WorkType, RowType
       DEF CompensateLine, ReleaseIfActive, HeldInv, NoSaga, Holds!Settle,
           Holds!Settlement, Holds!Fate
  <2>4. saga[i].lines \subseteq Line /\ Begun(i)
    BY <2>1, RowType
  <2>5. \A k \in saga[i].lines \ act'[p].todo : hold'[k] \in Holds!Settlement
    <3>1. ASSUME NEW k \in saga[i].lines \ act[p].todo
          PROVE  hold'[k] \in Holds!Settlement
      BY <1>0, <2>1, <2>4
    <3> QED
      BY <2>2, <2>3, <3>1
  <2>6. saga[i].intent => act'[p].cancel
    BY <2>1, <2>2
  <2>7. ASSUME NEW j \in Attempt, Begun(j), Undone(saga[j].lines)
        PROVE  \A k \in saga'[j].lines : hold'[k] \in Holds!Settlement
    <3>1. saga[j].lines \subseteq Line
      BY <2>7, RowType
    <3> QED
      BY <1>0, <2>1, <2>7, <3>1
  <2>8. ASSUME NEW q \in Proc, q # p, At(q, "compensate")
        PROVE  \A k \in saga'[act[q].id].lines \ act[q].todo :
                   hold'[k] \in Holds!Settlement
    <3>1. act[q].id \in Attempt /\ saga[act[q].id].lines \subseteq Line
      BY <2>8, WorkType, RowType
    <3> QED
      BY <1>0, <2>1, <2>8, <3>1
  <2> QED
    BY <1>0, <2>1, <2>2, <2>5, <2>6, <2>7, <2>8, WorkType
<1>7. ASSUME NEW p \in Proc, LinesReserved(p)
      PROVE  UndoInv'
  BY <1>7, <1>0, WorkType, RowType DEF LinesReserved
<1>8. ASSUME NEW p \in Proc, CreateIntent(p)
      PROVE  UndoInv'
  BY <1>8, <1>0, WorkType, RowType DEF CreateIntent
<1>9. ASSUME NEW p \in Proc, CreateIntentRefused(p)
      PROVE  UndoInv'
  BY <1>9, <1>0, WorkType, RowType DEF CreateIntentRefused, RowInv
<1>10. ASSUME NEW p \in Proc, EnterAwaitingPayment(p)
       PROVE  UndoInv'
  BY <1>10, <1>0, WorkType, RowType DEF EnterAwaitingPayment, RowInv
<1>11. ASSUME NEW p \in Proc, CompleteSaga(p)
       PROVE  UndoInv'
  BY <1>11, <1>0, WorkType, RowType DEF CompleteSaga
<1>12. ASSUME NEW p \in Proc, FailAwaitingPayment(p)
       PROVE  UndoInv'
  BY <1>12, <1>0, WorkType, RowType DEF FailAwaitingPayment
<1>13. ASSUME NEW p \in Proc, CompensateIntent(p)
       PROVE  UndoInv'
  <2> DEFINE i == act[p].id
  <2>1. /\ i \in Attempt /\ At(p, "compensate") /\ act[p].todo = {}
        /\ UNCHANGED <<saga, hold>>
    BY <1>13, WorkType DEF CompensateIntent
  <2>2. Undone(saga[i].lines)
    BY <2>1
  <2>3. CASE Do(p, Idle)
    BY <1>0, <2>1, <2>3, WorkType
  <2>4. CASE Do(p, [pc |-> "intentCanceled", id |-> i]) /\ "canceled" \in events'
    BY <1>0, <2>1, <2>2, <2>4, WorkType
  <2> QED
    BY <1>13, <2>3, <2>4 DEF PaymentInv, CompensateIntent, Intent!Cancel
<1>14. ASSUME NEW p \in Proc, FinishCompensation(p)
       PROVE  UndoInv'
  BY <1>14, <1>0, WorkType, RowType DEF FinishCompensation
<1>15. ASSUME NEW p \in Proc, CancelOrder(p)
       PROVE  UndoInv'
  BY <1>15, <1>0, WorkType, RowType DEF CancelOrder
<1>16. ASSUME NEW p \in Proc, Update(p) \/ AdvanceStage(p) \/ Cancel(p)
       PROVE  UndoInv'
  BY <1>16, <1>0, WorkType, RowType DEF Update, AdvanceStage, Cancel
<1>17. ASSUME NEW p \in Proc, CheckoutRequest(p) \/ LoadOrder(p)
       PROVE  UndoInv'
  BY <1>17, <1>0, WorkType, RowType DEF CheckoutRequest, LoadOrder
<1>18. ASSUME NEW p \in Proc, NEW i \in Attempt, HandlePaymentSucceeded(p, i)
       PROVE  UndoInv'
  BY <1>18, <1>0, WorkType, RowType DEF HandlePaymentSucceeded
<1>19. ASSUME NEW p \in Proc, NEW i \in Attempt, FindAwaiting(p, i)
       PROVE  UndoInv'
  BY <1>19, <1>0, WorkType, RowType DEF FindAwaiting
<1>20. ASSUME NEW p \in Proc, Crash(p)
       PROVE  UndoInv'
  BY <1>20, <1>0, WorkType, RowType DEF Crash
<1>21. ASSUME NEW p \in Proc, NEW l \in Line, ReserveLineLost(p, l)
       PROVE  UndoInv'
  BY <1>21, <1>0, WorkType, RowType DEF ReserveLineLost
<1>22. ASSUME NEW l \in Line, CommitLine(l) \/ ReleaseLine(l) \/ ExpireLine(l)
       PROVE  UndoInv'
  BY <1>22, <1>0, WorkType, RowType DEF CommitLine, ReleaseLine, ExpireLine
<1>23. ASSUME PaymentSucceeds \/ PaymentFails
       PROVE  UndoInv'
  BY <1>23, <1>0, WorkType, RowType DEF PaymentSucceeds, PaymentFails
<1>24. CASE UNCHANGED vars
  BY <1>24 DEF vars
<1> QED
  BY <1>1, <1>2, <1>3, <1>4, <1>5, <1>6, <1>7, <1>8, <1>9, <1>10, <1>11,
     <1>12, <1>13, <1>14, <1>15, <1>16, <1>17, <1>18, <1>19, <1>20, <1>21,
     <1>22, <1>23, <1>24 DEF Next, Proceed, Request, Handle, Die,
     HandlePaymentFailed, HandlePaymentTimeout, HandleReservationExpired

\* Nothing is placed or sold without a payment.
LEMMA PaidStep ==
    ASSUME TypeOK, PaidInv, [Next]_vars
    PROVE  PaidInv'
<1> USE DEF Do, At, Idle, InOrderService, Elsewhere, TypeOK, PaidInv,
   SoldOnlyIfPaid, Forward, StartCompensation, Drives
<1>0. Forward
  BY ForwardStep
<1>1. ASSUME NEW p \in Proc, StartSaga(p)
      PROVE  PaidInv'
  BY <1>1, <1>0 DEF StartSaga
<1>2. ASSUME NEW p \in Proc, ValidateDiscount(p)
      PROVE  PaidInv'
  BY <1>2, <1>0 DEF ValidateDiscount
<1>3. ASSUME NEW p \in Proc, SaveDiscount(p)
      PROVE  PaidInv'
  BY <1>3, <1>0 DEF SaveDiscount
<1>4. ASSUME NEW p \in Proc, NEW l \in Line, ReserveLine(p, l)
      PROVE  PaidInv'
  BY <1>4, <1>0 DEF ReserveLine, OpenOrReplay, Holds!Open
<1>5. ASSUME NEW p \in Proc, NEW l \in Line, ReserveLineRefused(p, l)
      PROVE  PaidInv'
  BY <1>5, <1>0 DEF ReserveLineRefused
<1>6. ASSUME NEW p \in Proc, NEW l \in Line, CompensateLine(p, l)
      PROVE  PaidInv'
  BY <1>6, <1>0 DEF CompensateLine, ReleaseIfActive, Holds!Settle
<1>7. ASSUME NEW p \in Proc, LinesReserved(p)
      PROVE  PaidInv'
  BY <1>7, <1>0 DEF LinesReserved
<1>8. ASSUME NEW p \in Proc, CreateIntent(p)
      PROVE  PaidInv'
  BY <1>8, <1>0 DEF CreateIntent, Intent!Create
<1>9. ASSUME NEW p \in Proc, CreateIntentRefused(p)
      PROVE  PaidInv'
  BY <1>9, <1>0 DEF CreateIntentRefused
<1>10. ASSUME NEW p \in Proc, EnterAwaitingPayment(p)
       PROVE  PaidInv'
  BY <1>10, <1>0 DEF EnterAwaitingPayment
<1>11. ASSUME NEW p \in Proc, CompleteSaga(p)
       PROVE  PaidInv'
  BY <1>11, <1>0 DEF CompleteSaga
<1>12. ASSUME NEW p \in Proc, FailAwaitingPayment(p)
       PROVE  PaidInv'
  BY <1>12, <1>0 DEF FailAwaitingPayment
<1>13. ASSUME NEW p \in Proc, CompensateIntent(p)
       PROVE  PaidInv'
  BY <1>13, <1>0 DEF CompensateIntent
<1>14. ASSUME NEW p \in Proc, FinishCompensation(p)
       PROVE  PaidInv'
  BY <1>14, <1>0 DEF FinishCompensation
<1>15. ASSUME NEW p \in Proc, CancelOrder(p)
       PROVE  PaidInv'
  BY <1>15, <1>0 DEF CancelOrder
<1>16. ASSUME NEW p \in Proc, Update(p) \/ AdvanceStage(p) \/ Cancel(p)
       PROVE  PaidInv'
  BY <1>16, <1>0 DEF Update, AdvanceStage, Cancel
<1>17. ASSUME NEW p \in Proc, CheckoutRequest(p) \/ LoadOrder(p)
       PROVE  PaidInv'
  BY <1>17, <1>0 DEF CheckoutRequest, LoadOrder
<1>18. ASSUME NEW p \in Proc, NEW i \in Attempt, HandlePaymentSucceeded(p, i)
       PROVE  PaidInv'
  BY <1>18, <1>0 DEF HandlePaymentSucceeded
<1>19. ASSUME NEW p \in Proc, NEW i \in Attempt, FindAwaiting(p, i)
       PROVE  PaidInv'
  BY <1>19, <1>0 DEF FindAwaiting
<1>20. ASSUME NEW p \in Proc, Crash(p)
       PROVE  PaidInv'
  BY <1>20, <1>0 DEF Crash
<1>21. ASSUME NEW p \in Proc, NEW l \in Line, ReserveLineLost(p, l)
       PROVE  PaidInv'
  BY <1>21, <1>0 DEF ReserveLineLost, OpenOrReplay, Holds!Open
<1>22. ASSUME NEW l \in Line, CommitLine(l) \/ ReleaseLine(l) \/ ExpireLine(l)
       PROVE  PaidInv'
  BY <1>22, <1>0 DEF CommitLine, ReleaseLine, ExpireLine, Holds!Settle
<1>23. ASSUME PaymentSucceeds \/ PaymentFails
       PROVE  PaidInv'
  BY <1>23, <1>0 DEF PaymentSucceeds, PaymentFails
<1>24. CASE UNCHANGED vars
  BY <1>24 DEF vars
<1> QED
  BY <1>1, <1>2, <1>3, <1>4, <1>5, <1>6, <1>7, <1>8, <1>9, <1>10, <1>11,
     <1>12, <1>13, <1>14, <1>15, <1>16, <1>17, <1>18, <1>19, <1>20, <1>21,
     <1>22, <1>23, <1>24 DEF Next, Proceed, Request, Handle, Die,
     HandlePaymentFailed, HandlePaymentTimeout, HandleReservationExpired

\* A sold saga does not fail.
LEMMA SaleStep ==
    ASSUME TypeOK, PlaceInv, RowInv, UndoInv, PaymentInv, PaidInv,
           SaleInv, [Next]_vars
    PROVE  SaleInv'
<1> USE DEF Do, At, Idle, InOrderService, Elsewhere, TypeOK, PlaceInv, PaidInv,
   SaleInv, Sellable, Settling, Begun, Synchronous, Drives, NoSaga
<1>1. ASSUME NEW p \in Proc, StartSaga(p)
      PROVE  SaleInv'
  BY <1>1, WorkType, RowType DEF StartSaga
<1>2. ASSUME NEW p \in Proc, ValidateDiscount(p)
      PROVE  SaleInv'
  <2> DEFINE i == act[p].id
  <2>1. i \in Attempt /\ At(p, "run") /\ saga[i].step = "validating_discount"
    BY <1>2, WorkType DEF ValidateDiscount
  <2>2. \A j \in Attempt : j # i => saga'[j] = saga[j]
    BY <1>2, <2>1 DEF ValidateDiscount
  <2>3. saga'[i].step # "awaiting_payment" /\ ~Begun(i)
    BY <1>2, <2>1, RowType DEF ValidateDiscount, Saga
  <2>4. /\ \A q \in Proc : q # p => act'[q] = act[q]
        /\ \/ act'[p] = act[p]
           \/ act'[p].pc \notin {"succeed", "compensate", "intentCanceled"}
    BY <1>2 DEF ValidateDiscount
  <2> QED
    BY <1>2, <2>1, <2>2, <2>3, <2>4, WorkType DEF ValidateDiscount
<1>3. ASSUME NEW p \in Proc, SaveDiscount(p)
      PROVE  SaleInv'
  BY <1>3, WorkType, RowType DEF SaveDiscount
<1>4. ASSUME NEW p \in Proc, NEW l \in Line, ReserveLine(p, l)
      PROVE  SaleInv'
  BY <1>4, WorkType, RowType DEF ReserveLine, OpenOrReplay, Holds!Open
<1>5. ASSUME NEW p \in Proc, NEW l \in Line, ReserveLineRefused(p, l)
      PROVE  SaleInv'
  BY <1>5, WorkType, RowType DEF ReserveLineRefused, StartCompensation, RowInv
<1>6. ASSUME NEW p \in Proc, NEW l \in Line, CompensateLine(p, l)
      PROVE  SaleInv'
  BY <1>6, WorkType, RowType DEF CompensateLine, ReleaseIfActive, Holds!Settle
<1>7. ASSUME NEW p \in Proc, LinesReserved(p)
      PROVE  SaleInv'
  BY <1>7, WorkType, RowType DEF LinesReserved
<1>8. ASSUME NEW p \in Proc, CreateIntent(p)
      PROVE  SaleInv'
  BY <1>8, WorkType, RowType DEF CreateIntent, Intent!Create
<1>9. ASSUME NEW p \in Proc, CreateIntentRefused(p)
      PROVE  SaleInv'
  BY <1>9, WorkType, RowType DEF CreateIntentRefused, StartCompensation, RowInv
<1>10. ASSUME NEW p \in Proc, EnterAwaitingPayment(p)
       PROVE  SaleInv'
  BY <1>10, WorkType, RowType DEF EnterAwaitingPayment, RowInv
<1>11. ASSUME NEW p \in Proc, CompleteSaga(p)
       PROVE  SaleInv'
  BY <1>11, WorkType, RowType DEF CompleteSaga
<1>12. ASSUME NEW p \in Proc, FailAwaitingPayment(p)
       PROVE  SaleInv'
  BY <1>12, WorkType, RowType DEF FailAwaitingPayment, StartCompensation, RowInv
<1>13. ASSUME NEW p \in Proc, CompensateIntent(p)
       PROVE  SaleInv'
  BY <1>13, WorkType, RowType DEF CompensateIntent, Intent!Cancel, PaymentInv
<1>14. ASSUME NEW p \in Proc, FinishCompensation(p)
       PROVE  SaleInv'
  <2> DEFINE i == act[p].id
  <2>1. /\ i \in Attempt /\ Begun(i)
        /\ saga' = [saga EXCEPT ![i].step = "failed"]
    BY <1>14, WorkType DEF FinishCompensation
  <2>2. i \notin placed /\ \A q \in Proc : At(q, "succeed") => act[q].id # i
    <3>1. CASE At(p, "compensate") /\ ~act[p].cancel
      BY <2>1, <3>1 DEF UndoInv
    <3>2. CASE At(p, "intentCanceled")
      BY <3>2
    <3> QED
      BY <1>14, <3>1, <3>2 DEF FinishCompensation
  <2>3. /\ saga'[i].step = "failed"
        /\ \A j \in Attempt : j # i => saga'[j] = saga[j]
    BY <2>1, RowType DEF Saga
  <2>4. /\ \A q \in Proc : q # p => act'[q] = act[q]
        /\ \/ act'[p] = act[p]
           \/ act'[p].pc \notin {"succeed", "compensate", "intentCanceled"}
    BY <1>14 DEF FinishCompensation
  <2> QED
    BY <1>14, <2>1, <2>2, <2>3, <2>4, WorkType DEF FinishCompensation
<1>15. ASSUME NEW p \in Proc, CancelOrder(p)
       PROVE  SaleInv'
  BY <1>15, WorkType, RowType DEF CancelOrder
<1>16. ASSUME NEW p \in Proc, Update(p) \/ AdvanceStage(p) \/ Cancel(p)
       PROVE  SaleInv'
  BY <1>16, WorkType, RowType DEF Update, AdvanceStage, Cancel
<1>17. ASSUME NEW p \in Proc, CheckoutRequest(p) \/ LoadOrder(p)
       PROVE  SaleInv'
  BY <1>17, WorkType, RowType DEF CheckoutRequest, LoadOrder
<1>18. ASSUME NEW p \in Proc, NEW i \in Attempt, HandlePaymentSucceeded(p, i)
       PROVE  SaleInv'
  BY <1>18, WorkType, RowType DEF HandlePaymentSucceeded, RowInv
<1>19. ASSUME NEW p \in Proc, NEW i \in Attempt, FindAwaiting(p, i)
       PROVE  SaleInv'
  BY <1>19, WorkType, RowType DEF FindAwaiting
<1>20. ASSUME NEW p \in Proc, Crash(p)
       PROVE  SaleInv'
  BY <1>20, WorkType, RowType DEF Crash
<1>21. ASSUME NEW p \in Proc, NEW l \in Line, ReserveLineLost(p, l)
       PROVE  SaleInv'
  BY <1>21, WorkType, RowType DEF ReserveLineLost, OpenOrReplay, Holds!Open
<1>22. ASSUME NEW l \in Line, CommitLine(l) \/ ReleaseLine(l) \/ ExpireLine(l)
       PROVE  SaleInv'
  BY <1>22, WorkType, RowType DEF CommitLine, ReleaseLine, ExpireLine, Holds!Settle
<1>23. ASSUME PaymentSucceeds \/ PaymentFails
       PROVE  SaleInv'
  BY <1>23, WorkType, RowType DEF PaymentSucceeds, PaymentFails
<1>24. CASE UNCHANGED vars
  BY <1>24 DEF vars
<1> QED
  BY <1>1, <1>2, <1>3, <1>4, <1>5, <1>6, <1>7, <1>8, <1>9, <1>10, <1>11,
     <1>12, <1>13, <1>14, <1>15, <1>16, <1>17, <1>18, <1>19, <1>20, <1>21,
     <1>22, <1>23, <1>24 DEF Next, Proceed, Request, Handle, Die,
     HandlePaymentFailed, HandlePaymentTimeout, HandleReservationExpired

-----------------------------------------------------------------------------
\* The invariant holds: the lemmas above, one per part.
LEMMA InvariantHolds == Spec => []IInv
<1>1. Init => IInv
  <2> SUFFICES ASSUME Init PROVE IInv
    OBVIOUS
  <2> USE DEF Init, Idle, NoSaga
  <2>1. TypeOK
    BY DEF TypeOK, Order, Stage, Holds!Fate, Intent!Status, Intent!Result
  <2>2. PlaceInv /\ OneRunningSaga /\ RowInv
    BY DEF PlaceInv, At, Driving, Settling, OneRunningSaga, Running,
           RunningStep, Synchronous, RowInv
  <2>3. HeldInv /\ UndoInv /\ PaymentInv /\ PaidInv /\ SaleInv
    BY DEF HeldInv, UndoInv, PaymentInv, PaidInv, SaleInv,
           SoldOnlyIfPaid, At
  <2> QED
    BY <2>1, <2>2, <2>3 DEF IInv
<1>2. IInv /\ [Next]_vars => IInv'
  <2> SUFFICES ASSUME IInv, [Next]_vars
               PROVE  IInv'
    OBVIOUS
  <2> USE DEF IInv
  <2>1. TypeOK'
    BY RestType, ActType, SagaType DEF TypeOK, RestOK
  <2>2. PlaceInv' /\ OneRunningSaga' /\ RowInv'
    BY PlaceStep, OneRunningStep, RowStep
  <2>3. HeldInv' /\ UndoInv' /\ PaymentInv' /\ PaidInv' /\ SaleInv'
    BY HeldStep, UndoStep, PaymentStep, PaidStep, SaleStep
  <2> QED
    BY <2>1, <2>2, <2>3
<1> QED
  BY <1>1, <1>2, PTL DEF Spec

\* Type correctness: no handler, however late, saves a saga row that was never
\* inserted, and no stage goes past delivered.
THEOREM TypeCorrect == Spec => []TypeOK
BY InvariantHolds, PTL DEF IInv

\* One saga of an order runs at a time, for any number of concurrent checkout
\* requests (the unique index on saga_state).
THEOREM OneSagaRuns == Spec => []OneRunningSaga
BY InvariantHolds, PTL DEF IInv

\* A saga that awaits its payment has its lines, its intent and its timeout
\* (enterAwaitingPayment), whatever crashed or raced before.
THEOREM AwaitingHasItsBacking == Spec => []AwaitingIsBacked
<1>1. IInv => AwaitingIsBacked
  BY DEF IInv, AwaitingIsBacked, RowInv, HeldInv, NoSaga
<1> QED
  BY <1>1, InvariantHolds, PTL

\* A failed saga is undone, however many compensations and results raced
\* (compensate, runCompensation).
THEOREM FailedSagasAreUndone == Spec => []FailedIsUndone
<1>1. IInv => FailedIsUndone
  BY DEF IInv, FailedIsUndone, UndoInv, Undone, Holds!Settlement
<1> QED
  BY <1>1, InvariantHolds, PTL

\* No line of the order is sold before a payment of it succeeded.
THEOREM SalesArePaid == Spec => []SoldOnlyIfPaid
BY InvariantHolds, PTL DEF IInv, PaidInv

\* An order that was announced as placed is never that of a failed saga, for
\* any number of payment results, timeouts and compensations that overlap
\* (handlePaymentSucceeded, failAwaitingPayment, CancelPaymentIntent).
THEOREM PlacedSagasNeverFail == Spec => []PlacedNeverFails
<1>1. IInv => PlacedNeverFails
  BY DEF IInv, PlacedNeverFails, SaleInv, Sellable
<1> QED
  BY <1>1, InvariantHolds, PTL
=============================================================================
