-------------------------- MODULE OrderFulfillment --------------------------
(***************************************************************************)
(* What order-service keeps of the fulfillments of one order: the status   *)
(* its readers see, the fulfilled quantities of the lines and the rollup   *)
(* rows, and the promise it makes of them.  How they come about is in      *)
(* Shipping.                                                               *)
(***************************************************************************)
EXTENDS Integers, FiniteSetsExt

CONSTANTS
    Fulfillment,  \* possible fulfillments: [id, qty], qty[l] of each line
    Line,         \* lines of the order
    Ordered       \* Ordered[l]: the qty of line l

VARIABLES
    order,     \* fulfillment_status of the order row
    fulfilled, \* fulfilled[l]: fulfilled_qty of the order line
    rolled     \* the fulfillment_rollup rows

\* The units of line l that fulfillments S are for.
Counted(l, S) == SumFunctionOnSet([f \in Fulfillment |-> f.qty[l]], S)

\* Each fulfillment is counted in the order's lines exactly once, however
\* often its event is delivered and however the rollups overlap, and the order
\* shows as fulfilled only when the counted ones suffice.
LinesCountFulfillments ==
    /\ \A l \in Line : fulfilled[l] = Counted(l, rolled)
    /\ order = "fulfilled" =>
          \A l \in Line : fulfilled[l] >= Ordered[l]
=============================================================================
