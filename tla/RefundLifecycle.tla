-------------------------- MODULE RefundLifecycle --------------------------
(***************************************************************************)
(* What order-service may assume of a refund it commands: payment-service  *)
(* settles it at most once, with one result that is final, and never       *)
(* without the command, however often the command is delivered.            *)
(***************************************************************************)
CONSTANT Refund

VARIABLES commanded, result

Result == {"none", "succeeded", "failed"}

Init == commanded = {} /\ result = [r \in Refund |-> "none"]

Command == /\ commanded' \in SUBSET Refund
           /\ commanded \subseteq commanded'
           /\ UNCHANGED result

Settle(r) == /\ r \in commanded
             /\ result[r] = "none"
             /\ \E outcome \in {"succeeded", "failed"} :
                   result' = [result EXCEPT ![r] = outcome]
             /\ UNCHANGED commanded

Next == Command \/ \E r \in Refund : Settle(r)

Spec == Init /\ [][Next]_<<commanded, result>>
=============================================================================
