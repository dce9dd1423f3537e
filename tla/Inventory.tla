----------------------------- MODULE Inventory -----------------------------
(***************************************************************************)
(* inventory-service: the stock cells of one variant, the reservations     *)
(* (holds) against them and the stock_movement ledger.  One action is one  *)
(* database transaction or one unlocked read that a later transaction      *)
(* relies on.  All rows belong to one store and one variant; the cells     *)
(* are its locations.                                                      *)
(*                                                                         *)
(* Bounds: the holds, callers and receipts are the members of Hold, Caller *)
(* and Receipt; a quantity is at most MaxQty and an audit enters a member  *)
(* of Count.                                                               *)
(***************************************************************************)
EXTENDS Integers, FiniteSetsExt

CONSTANTS
    Cell,          \* stock_level ids, ordered (sl.id breaks ties)
    Hold,          \* reservation ids
    Key,           \* idempotency keys, one per order line
    NoKey,         \* the null key of a reservation made over REST
    Caller,        \* concurrent gRPC ReserveStock calls
    Receipt,       \* purchasing.po.received lines: [line, cell, qty]
    Stocked,       \* the cells that exist at the start
    MaxQty,        \* the largest quantity
    Count,         \* what an audit may enter as physicalCount
    ReorderLevel,  \* triggerLevel of the variant's active reorder rule
    AlertLevel,    \* threshold of its active stock alerts, one per direction
    EditsOverlap   \* may a cell edit overlap another transaction?

ASSUME InventoryAssumption ==
    /\ Cell \subseteq Nat
    /\ NoKey \notin Key
    /\ Stocked \subseteq Cell
    /\ MaxQty \in Nat \ {0}
    /\ IsFiniteSet(Hold) /\ IsFiniteSet(Receipt)
    /\ Count \subseteq Int
    /\ ReorderLevel \in Int /\ AlertLevel \in Int
    /\ \A x \in Receipt : x.cell \in Cell /\ x.qty \in Nat \ {0}
    /\ EditsOverlap \in BOOLEAN

VARIABLES
    present,    \* cells that have a stock_level row
    level,      \* level[c]: the on_hand and reserved columns
    hold,       \* hold[h]: the reservation row
    received,   \* receipts with a stock_movement row (unique ref_id)
    acked,      \* receipts whose event some delivery acknowledged
    inserting,  \* receipts in a transaction that found no cell
    referenced, \* cells a movement, reservation or audit row points at
    drift,      \* sum of the adjustment rows of the ledger, per cell
    call,       \* call[p]: the ReserveStock call p between check and insert
    edit,       \* edit[c]: the row a cell edit has loaded and not yet saved
    removing,   \* cells a removal has found empty and not yet deleted
    emitted     \* alert and reorder events of the last transaction

vars == <<present, level, hold, received, acked, inserting, referenced,
          drift, call, edit, removing, emitted>>

Direction == {"lower_than", "greater_than", "equals"}
Rule      == Direction \cup {"reorder"}
Level     == [onHand : Nat, reserved : Nat]
Empty     == [onHand |-> 0, reserved |-> 0]
NoRow     == [state |-> "none"]
Row       == [state : {"active", "released", "expired", "committed"},
              cell : Cell, qty : 1..MaxQty, key : Key \cup {NoKey}]
Idle      == [pc |-> "idle"]
InFlight  == [pc : {"checked"}, key : Key, cell : Cell, qty : 1..MaxQty]
NoEdit    == [open |-> FALSE]
Edit      == [open : {TRUE}, row : Level]

TypeOK ==
    /\ present \subseteq Cell
    /\ level \in [Cell -> Level]
    /\ hold \in [Hold -> {NoRow} \cup Row]
    /\ received \subseteq Receipt
    /\ acked \subseteq Receipt
    /\ inserting \subseteq Receipt
    /\ referenced \subseteq Cell
    /\ drift \in [Cell -> Int]
    /\ call \in [Caller -> {Idle} \cup InFlight]
    /\ edit \in [Cell -> {NoEdit} \cup Edit]
    /\ removing \subseteq Cell
    /\ emitted \subseteq Cell \X Rule

Init ==
    /\ present = Stocked
    /\ level = [c \in Cell |-> Empty]
    /\ hold = [h \in Hold |-> NoRow]
    /\ received = {} /\ acked = {} /\ inserting = {} /\ referenced = {}
    /\ drift = [c \in Cell |-> 0]
    /\ call = [p \in Caller |-> Idle]
    /\ edit = [c \in Cell |-> NoEdit]
    /\ removing = {}
    /\ emitted = {}

-----------------------------------------------------------------------------
(* StockMovementsService.record: the one place a movement is applied. *)

AvailableIn(l) == l.onHand - l.reserved
Available(c)   == AvailableIn(level[c])

\* Which column a movement of this kind changes.
TargetField(kind) ==
    IF kind \in {"reservation", "release"} THEN "reserved" ELSE "onHand"

\* Mutant: no negative guard.
AcceptedAlways(l, kind, delta) == TRUE

\* The negative guard of record() ...
Accepted(l, kind, delta) == l[TargetField(kind)] + delta >= 0
\* ... and the row it saves.
Moved(l, kind, delta) == [l EXCEPT ![TargetField(kind)] = @ + delta]

Matches(value, direction) ==
    CASE direction = "lower_than"   -> value < AlertLevel
      [] direction = "greater_than" -> value > AlertLevel
      [] direction = "equals"       -> value = AlertLevel
      [] direction = "reorder"      -> value <= ReorderLevel

\* Mutant: thresholds are compared with on_hand, not with what is available.
CrossingsOnHand(c, before, after) ==
    {<<c, r>> : r \in {s \in Rule : /\ ~Matches(before.onHand, s)
                                    /\ Matches(after.onHand, s)}}

\* The alerts and the reorder rule that one movement freshly satisfies.
Crossings(c, before, after) ==
    {<<c, r>> : r \in {s \in Rule : /\ ~Matches(AvailableIn(before), s)
                                    /\ Matches(AvailableIn(after), s)}}

\* A transaction whose only movement of cell c is (kind, delta).
Record(c, kind, delta) ==
    /\ c \in present
    /\ Accepted(level[c], kind, delta)
    /\ LET after == Moved(level[c], kind, delta)
       IN  /\ level' = [level EXCEPT ![c] = after]
           /\ emitted' = Crossings(c, level[c], after)
    /\ referenced' = referenced \cup {c}

-----------------------------------------------------------------------------
(* Reservations. *)

HoldsWith(k) == {h \in Hold : hold[h] # NoRow /\ hold[h].key = k}

\* createCore: save the reservation row and record its movement.
Insert(c, q, k) ==
    \E h \in Hold :
        /\ hold[h] = NoRow
        /\ hold' = [hold EXCEPT ![h] = [state |-> "active", cell |-> c,
                                        qty |-> q, key |-> k]]
        /\ Record(c, "reservation", q)

\* POST /reservations: no idempotency key.
Create(c, q) ==
    /\ Insert(c, q, NoKey)
    /\ UNCHANGED <<present, received, acked, inserting, drift, call, edit,
                   removing>>

\* The cell with the most available units, the lowest id among equals.
BestCell(c) ==
    /\ c \in present
    /\ \A d \in present : \/ Available(c) > Available(d)
                          \/ Available(c) = Available(d) /\ c <= d

\* gRPC ReserveStock, first half: pick a cell and look for the key.  A key
\* that is found is answered at once with its reservation.
ReserveStockCheck(p, k, q) ==
    /\ call[p] = Idle
    /\ HoldsWith(k) = {}
    /\ \E c \in Cell :
          /\ BestCell(c)
          /\ call' = [call EXCEPT ![p] = [pc |-> "checked", key |-> k,
                                          cell |-> c, qty |-> q]]
    /\ emitted' = {}
    /\ UNCHANGED <<present, level, hold, received, acked, inserting,
                   referenced, drift, edit, removing>>

\* Mutant: no unique index on idempotency_key.
ReserveStockInsertUnindexed(p) ==
    /\ call[p] # Idle
    /\ call' = [call EXCEPT ![p] = Idle]
    /\ Insert(call[p].cell, call[p].qty, call[p].key)
    /\ UNCHANGED <<present, received, acked, inserting, drift, edit, removing>>

\* Second half: the unique index on idempotency_key admits one insert per
\* key; the call that loses is answered with the winner's reservation.
ReserveStockInsert(p) ==
    /\ call[p] # Idle
    /\ call' = [call EXCEPT ![p] = Idle]
    /\ IF HoldsWith(call[p].key) = {}
       THEN Insert(call[p].cell, call[p].qty, call[p].key)
       ELSE /\ emitted' = {}
            /\ UNCHANGED <<level, hold, referenced>>
    /\ UNCHANGED <<present, received, acked, inserting, drift, edit, removing>>

\* The call fails between the two halves: crash, deadline, or the cell it
\* picked is gone.
ReserveStockFails(p) ==
    /\ call[p] # Idle
    /\ call' = [call EXCEPT ![p] = Idle]
    /\ emitted' = {}
    /\ UNCHANGED <<present, level, hold, received, acked, inserting,
                   referenced, drift, edit, removing>>

IsActive(h) == hold[h] # NoRow /\ hold[h].state = "active"

\* Mutant: releasedAt is not checked.
ReturnUnchecked(h, settlement) ==
    /\ hold[h] # NoRow
    /\ hold' = [hold EXCEPT ![h].state = settlement]
    /\ Record(hold[h].cell, "release", -hold[h].qty)
    /\ UNCHANGED <<present, received, acked, inserting, drift, call, edit,
                   removing>>

\* release() and expire() lock the row, check releasedAt, set it and give
\* the units back; they differ in the event they record.
Return(h, settlement) ==
    /\ IsActive(h)
    /\ hold' = [hold EXCEPT ![h].state = settlement]
    /\ Record(hold[h].cell, "release", -hold[h].qty)
    /\ UNCHANGED <<present, received, acked, inserting, drift, call, edit,
                   removing>>

Release(h) == Return(h, "released")

\* Mutant: the expiry is armed for reservations made over REST only.
ExpireUnkeyed(h) ==
    IsActive(h) /\ hold[h].key = NoKey /\ Return(h, "expired")

Expire(h)  == Return(h, "expired")

\* orders.order.placed: release the hold, then sell the units -- two
\* movements in one transaction, each with its own guard and crossings.
Commit(h) ==
    /\ IsActive(h)
    /\ hold[h].key # NoKey
    /\ LET c    == hold[h].cell
           q    == hold[h].qty
           mid  == Moved(level[c], "release", -q)
           last == Moved(mid, "sale", -q)
       IN  /\ Accepted(level[c], "release", -q)
           /\ Accepted(mid, "sale", -q)
           /\ level' = [level EXCEPT ![c] = last]
           /\ emitted' = Crossings(c, level[c], mid) \cup Crossings(c, mid, last)
    /\ hold' = [hold EXCEPT ![h].state = "committed"]
    /\ UNCHANGED <<present, received, acked, inserting, referenced, drift,
                   call, edit, removing>>

-----------------------------------------------------------------------------
(* Stock audits and purchase receipts. *)

\* A new stock_level row.  Whoever still refers to an earlier row of the same
\* variant and location by its id fails without effect.
InsertRow(c, l) ==
    /\ c \notin present
    /\ present' = present \cup {c}
    /\ level' = [level EXCEPT ![c] = l]
    /\ edit' = [edit EXCEPT ![c] = NoEdit]
    /\ removing' = removing \ {c}
    /\ call' = [p \in Caller |-> IF call[p] # Idle /\ call[p].cell = c
                                THEN Idle ELSE call[p]]

\* An audit row, and an adjustment by what the count differs from the
\* available units when it differs at all.
Audit(c, physicalCount) ==
    LET discrepancy == physicalCount - Available(c)
    IN  /\ c \in present
        /\ IF discrepancy = 0
           THEN /\ referenced' = referenced \cup {c}
                /\ emitted' = {}
                /\ UNCHANGED level
           ELSE Record(c, "adjustment", discrepancy)
        /\ drift' = [drift EXCEPT ![c] = @ + discrepancy]
        /\ UNCHANGED <<present, hold, received, acked, inserting, call, edit,
                       removing>>

\* Mutant: no unique (ref_table, ref_id); a replay counts again.
ReceiveIntoCellAgain(x) ==
    /\ x.cell \in present
    /\ x \notin inserting
    /\ Record(x.cell, "purchase_receipt", x.qty)
    /\ received' = received \cup {x}
    /\ acked' = acked \cup {x}
    /\ UNCHANGED <<present, hold, inserting, drift, call, edit, removing>>

\* applyPoReceived finds the cell: the movement's unique (ref_table, ref_id)
\* rolls a replay back.
ReceiveIntoCell(x) ==
    /\ x.cell \in present
    /\ x \notin inserting
    /\ IF x \in received
       THEN emitted' = {} /\ UNCHANGED <<level, referenced, received>>
       ELSE /\ Record(x.cell, "purchase_receipt", x.qty)
            /\ received' = received \cup {x}
    /\ acked' = acked \cup {x}
    /\ UNCHANGED <<present, hold, inserting, drift, call, edit, removing>>

\* It finds none: the transaction will insert the cell.
ReceiveFindsNoCell(x) ==
    /\ x.cell \notin present
    /\ x \notin inserting
    /\ inserting' = inserting \cup {x}
    /\ emitted' = {}
    /\ UNCHANGED <<present, level, hold, received, acked, referenced, drift,
                   call, edit, removing>>

\* It inserts the cell, empty, and records the receipt.  When another
\* transaction has inserted it first, the violation of the cell's unique
\* (variant_id, location_id) is taken for a replay and acknowledged.
ReceiveInsertsCell(x) ==
    /\ x \in inserting
    /\ inserting' = inserting \ {x}
    /\ acked' = acked \cup {x}
    /\ IF x.cell \notin present
       THEN LET after == Moved(Empty, "purchase_receipt", x.qty)
            IN  /\ InsertRow(x.cell, after)
                /\ emitted' = Crossings(x.cell, Empty, after)
                /\ referenced' = referenced \cup {x.cell}
                /\ received' = received \cup {x}
       ELSE /\ emitted' = {}
            /\ UNCHANGED <<present, level, referenced, received, call, edit,
                           removing>>
    /\ UNCHANGED <<hold, drift>>

-----------------------------------------------------------------------------
(* The cell's own row: StockLevelsService. *)

CreateCell(c) ==
    /\ InsertRow(c, Empty)
    /\ emitted' = {}
    /\ UNCHANGED <<hold, received, acked, inserting, referenced, drift>>

\* update(): load the row, set lowThreshold or unitCost, save the entity.
\* save() writes every column of the loaded entity that differs from the
\* row as it is then, on_hand and reserved with them.
EditLoad(c) ==
    /\ c \in present
    /\ edit[c] = NoEdit
    /\ edit' = [edit EXCEPT ![c] = [open |-> TRUE, row |-> level[c]]]
    /\ emitted' = {}
    /\ UNCHANGED <<present, level, hold, received, acked, inserting,
                   referenced, drift, call, removing>>

EditSave(c) ==
    /\ edit[c] # NoEdit
    /\ edit' = [edit EXCEPT ![c] = NoEdit]
    /\ level' = [level EXCEPT ![c] = edit[c].row]
    /\ present' = present \cup {c}
    /\ emitted' = {}
    /\ UNCHANGED <<hold, received, acked, inserting, referenced, drift, call,
                   removing>>

\* remove(): an unlocked check that the cell is empty ...
RemoveCheck(c) ==
    /\ c \in present
    /\ c \notin removing
    /\ level[c] = Empty
    /\ removing' = removing \cup {c}
    /\ emitted' = {}
    /\ UNCHANGED <<present, level, hold, received, acked, inserting,
                   referenced, drift, call, edit>>

\* Mutant: no foreign keys.
RemoveDeleteUnchecked(c) ==
    /\ c \in removing
    /\ removing' = removing \ {c}
    /\ present' = present \ {c}
    /\ emitted' = {}
    /\ UNCHANGED <<level, hold, received, acked, inserting, referenced, drift,
                   call, edit>>

\* ... then the delete, which the foreign keys of the ledger, the
\* reservations and the audits (ON DELETE RESTRICT) refuse.
RemoveDelete(c) ==
    /\ c \in removing
    /\ removing' = removing \ {c}
    /\ present' = IF c \in referenced THEN present ELSE present \ {c}
    /\ emitted' = {}
    /\ UNCHANGED <<level, hold, received, acked, inserting, referenced, drift,
                   call, edit>>

-----------------------------------------------------------------------------
Transaction ==
    \/ \E c \in Cell, q \in 1..MaxQty : Create(c, q)
    \/ \E p \in Caller, k \in Key, q \in 1..MaxQty : ReserveStockCheck(p, k, q)
    \/ \E p \in Caller : ReserveStockInsert(p) \/ ReserveStockFails(p)
    \/ \E h \in Hold : Release(h) \/ Expire(h) \/ Commit(h)
    \/ \E c \in Cell, n \in Count : Audit(c, n)
    \/ \E x \in Receipt : \/ ReceiveIntoCell(x)
                          \/ ReceiveFindsNoCell(x)
                          \/ ReceiveInsertsCell(x)
    \/ \E c \in Cell : \/ CreateCell(c) \/ EditLoad(c)
                       \/ RemoveCheck(c) \/ RemoveDelete(c)

\* Unless edits overlap, nothing happens between an edit's load and save.
Uninterrupted == EditsOverlap \/ \A c \in Cell : edit[c] = NoEdit

Next == \/ Uninterrupted /\ Transaction
        \/ \E c \in Cell : EditSave(c)

Spec == Init /\ [][Next]_vars

\* The delayed expiry message of a reservation is redelivered until its
\* handler has settled the row; an edit that has begun is saved.
FairSpec == /\ Spec
            /\ \A h \in Hold : WF_vars(Expire(h))
            /\ \A c \in Cell : WF_vars(EditSave(c))

-----------------------------------------------------------------------------
(* Properties. *)

Units(S) == SumFunctionOnSet([x \in Receipt |-> x.qty], S)

HoldsOf(c, state) ==
    {h \in Hold : hold[h] # NoRow /\ hold[h].state = state /\ hold[h].cell = c}
HoldUnits(c, state) ==
    SumFunctionOnSet([h \in Hold |-> hold[h].qty], HoldsOf(c, state))

\* The reserved column of a cell is exactly the units of its active holds:
\* no release, expiry or commit, in any order and however often delivered,
\* returns a hold's units twice or not at all (reservations.service.ts).
ReservedMatchesHolds ==
    \A c \in Cell : level[c].reserved = HoldUnits(c, "active")

\* Every unit on hand is accounted for: receipts count once under
\* redelivery, a committed hold is sold once, audits explain the rest.
StockConserved ==
    \A c \in Cell :
        level[c].onHand = Units({x \in received : x.cell = c})
                            - HoldUnits(c, "committed") + drift[c]

\* However the check and the insert of concurrent ReserveStock calls
\* interleave, an order line's key holds stock once.
OneHoldPerKey ==
    \A h, g \in Hold :
        (hold[h] # NoRow /\ hold[g] # NoRow /\ h # g) =>
            (hold[h].key = hold[g].key => hold[h].key = NoKey)

\* A removal that found the cell empty does not delete it from under a
\* movement, a hold or an audit recorded since.
NoOrphanRows == referenced \subseteq present

\* No transaction takes a cell's available units across an alert's or the
\* reorder rule's threshold without announcing it, a commit's two
\* movements included.
CrossingsAnnounced ==
    [][\A c \in Cell, r \in Rule :
          (c \in referenced' /\ ~Matches(Available(c), r)
             /\ Matches(AvailableIn(level'[c]), r)) => <<c, r>> \in emitted']_vars

\* Each reservation row goes through the lifecycle that HoldLifecycle states.
Lifecycle == INSTANCE HoldLifecycle
                 WITH fate <- [h \in Hold |-> hold[h].state]
ImplementsLifecycle == Lifecycle!Spec

\* No hold keeps its units for ever: the expiry, always enabled while a hold
\* is active, settles it if nothing else did.
HoldsNeverLeak == \A h \in Hold : IsActive(h) ~> ~IsActive(h)
=============================================================================
