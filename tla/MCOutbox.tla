------------------------------ MODULE MCOutbox ------------------------------
(* Instances of Outbox small enough for TLC. *)
EXTENDS Outbox

\* Row 1 is of an aggregate of its own.  Rows 2 and 3 are of one transaction,
\* which began before that of row 4 and may commit after it.
FourRows == 1..4
ThreeTransactions == {{1}, {2, 3}, {4}}
BegunAt == <<1, 2, 2, 3>>
TwoAggregates == <<1, 2, 2, 2>>
=============================================================================
