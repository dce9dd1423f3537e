----------------------------- MODULE MCPayment -----------------------------
(* Instances of Payment small enough for TLC. *)
EXTENDS Payment, TLC

\* A first attempt that fails and a second one that succeeds.
TwoAttempts == {[id |-> 1, kind |-> "failed"], [id |-> 2, kind |-> "succeeded"]}
OneAttempt  == {[id |-> 2, kind |-> "succeeded"]}

\* Two refunds that together cover a Total of 2.
TwoHalves == {[id |-> 1, amount |-> 1], [id |-> 2, amount |-> 1]}
OneRefund == {[id |-> 1, amount |-> 2]}

Symmetry == Permutations(Proc)
=============================================================================
