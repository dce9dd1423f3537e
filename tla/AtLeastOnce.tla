---------------------------- MODULE AtLeastOnce ----------------------------
(***************************************************************************)
(* What the services promise each other of domain events: only what a      *)
(* committed transaction recorded is ever published.  How often and in     *)
(* which order is left open; Checkout and Payment assume no more.          *)
(***************************************************************************)
CONSTANT Row

VARIABLES recorded, published

Init == recorded = {} /\ published = {}

\* The commit of a transaction that records rows t.
Record(t) == /\ recorded' = recorded \cup t
             /\ UNCHANGED published

Publish(r) == /\ r \in recorded
              /\ published' = published \cup {r}
              /\ UNCHANGED recorded

Next == \/ \E t \in SUBSET (Row \ recorded) : Record(t)
        \/ \E r \in Row : Publish(r)

Spec == Init /\ [][Next]_<<recorded, published>>
=============================================================================
