-------------------------- MODULE PaymentLifecycle --------------------------
(***************************************************************************)
(* What the checkout may assume of the payment of an order: it is created  *)
(* once per idempotency key, canceled only while pending, and whatever its *)
(* status, a result of the provider can still arrive and settle it.  Every *)
(* change publishes its event.  A refunded payment counts as paid.         *)
(***************************************************************************)
VARIABLES payment, events

Status == {"none", "pending", "paid", "failed", "canceled"}
Result == {"succeeded", "failed", "canceled"}

Init == payment = "none" /\ events = {}

Create == /\ payment = "none"
          /\ payment' = "pending"
          /\ UNCHANGED events

Succeed == /\ payment \notin {"none", "paid"}
           /\ payment' = "paid"
           /\ events' = events \cup {"succeeded"}

Fail == /\ payment \notin {"none", "failed"}
        /\ payment' = "failed"
        /\ events' = events \cup {"failed"}

Cancel == /\ payment = "pending"
          /\ payment' = "canceled"
          /\ events' = events \cup {"canceled"}

Next == Create \/ Succeed \/ Fail \/ Cancel

Spec == Init /\ [][Next]_<<payment, events>>
=============================================================================
