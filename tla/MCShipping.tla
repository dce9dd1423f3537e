---------------------------- MODULE MCShipping -----------------------------
(* Instances of Shipping small enough for TLC. *)
EXTENDS Shipping, TLC

CONSTANTS a, b

OneEach == [l \in {a, b} |-> 1]

\* One fulfillment for each of two lines.
OneByOne == {[id |-> 1, qty |-> (a :> 1 @@ b :> 0)],
             [id |-> 2, qty |-> (a :> 0 @@ b :> 1)]}
=============================================================================
