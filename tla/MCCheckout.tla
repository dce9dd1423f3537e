---------------------------- MODULE MCCheckout ----------------------------
(* Instances of Checkout small enough for TLC. *)
EXTENDS Checkout, TLC

Symmetry == Permutations(Line) \cup Permutations(Attempt) \cup Permutations(Proc)
=============================================================================
