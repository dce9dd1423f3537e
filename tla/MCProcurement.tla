--------------------------- MODULE MCProcurement ----------------------------
(* Instances of Procurement small enough for TLC. *)
EXTENDS Procurement

CONSTANTS l1, l2

\* In either order they are a partial receipt and the rest of it; the second
\* one twice is more than was ordered.
Receipts == {<<[line |-> l1, qty |-> 1]>>,
             <<[line |-> l2, qty |-> 2], [line |-> l1, qty |-> 1]>>}

\* A line may be repeated in one request: its second entry is lost.
RepeatedLine == {<<[line |-> l1, qty |-> 1], [line |-> l1, qty |-> 1]>>}
=============================================================================
