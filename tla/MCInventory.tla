---------------------------- MODULE MCInventory ----------------------------
(* Instances of Inventory small enough for TLC. *)
EXTENDS Inventory

\* Both units of line l1 into cell 1.
OneReceipt == {[line |-> "l1", upTo |-> 2, cell |-> 1, qty |-> 2]}
=============================================================================
