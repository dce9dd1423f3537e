----------------------------- MODULE MCRefunds -----------------------------
(* Instances of Refunds small enough for TLC. *)
EXTENDS Refunds

CONSTANT m1

\* The first two exhaust a Total of 2, and so does the third.
ThreeRefunds == {[id |-> 1, amount |-> 1, rma |-> m1],
                 [id |-> 2, amount |-> 1, rma |-> NoRma],
                 [id |-> 3, amount |-> 2, rma |-> NoRma]}
=============================================================================
