--------------------------- MODULE HoldLifecycle ---------------------------
(***************************************************************************)
(* What inventory-service promises of a reservation row: it is opened      *)
(* once, and settled once -- by a release, by the 24h expiry or by the     *)
(* commit that turns it into a sale -- after which it never changes again  *)
(* (reservation.releasedAt is "terminal").                                 *)
(***************************************************************************)
CONSTANT Hold

VARIABLE fate

Settlement == {"released", "expired", "committed"}
Fate       == {"none", "active"} \cup Settlement

Init == fate = [h \in Hold |-> "none"]

Open(h) == /\ fate[h] = "none"
           /\ fate' = [fate EXCEPT ![h] = "active"]

Settle(h, f) == /\ fate[h] = "active"
                /\ fate' = [fate EXCEPT ![h] = f]

Next == \E h \in Hold : Open(h) \/ \E f \in Settlement : Settle(h, f)

Spec == Init /\ [][Next]_fate
=============================================================================
