-------------------------- MODULE InventoryProofs --------------------------
(***************************************************************************)
(* What holds of Inventory for every set of cells, holds, keys, callers    *)
(* and receipts.  The books of the last two sections balance as long as    *)
(* no cell edit overlaps another transaction (~EditsOverlap); everything   *)
(* before them holds with edits that do.                                   *)
(***************************************************************************)
EXTENDS Inventory, Sums, TLAPS

USE InventoryAssumption

\* record() leaves a cell with two natural columns, thanks to its guard.
LEMMA MovedType ==
    ASSUME NEW l \in Level, NEW kind, NEW delta \in Int,
           Accepted(l, kind, delta)
    PROVE  Moved(l, kind, delta) \in Level
BY DEF Level, Accepted, Moved, TargetField

\* What one movement announces is about the cell it moves.
LEMMA CrossingsType ==
    ASSUME NEW c \in Cell, NEW before, NEW after
    PROVE  Crossings(c, before, after) \subseteq Cell \X Rule
BY DEF Crossings

\* The effect of a one-movement transaction on the typed state.
LEMMA RecordType ==
    ASSUME TypeOK, NEW c \in Cell, NEW kind, NEW delta \in Int,
           Record(c, kind, delta)
    PROVE  /\ level' \in [Cell -> Level]
           /\ referenced' \subseteq Cell
           /\ emitted' \subseteq Cell \X Rule
<1>1. level[c] \in Level
  BY DEF TypeOK
<1>2. Moved(level[c], kind, delta) \in Level
  BY <1>1, MovedType DEF Record
<1>3. level' \in [Cell -> Level]
  BY <1>2 DEF Record, TypeOK
<1>4. emitted' \subseteq Cell \X Rule
  BY CrossingsType DEF Record
<1>5. referenced' \subseteq Cell
  BY DEF Record, TypeOK
<1> QED
  BY <1>3, <1>4, <1>5

\* A hold is inserted as an active row, in a cell and of a quantity.
LEMMA InsertType ==
    ASSUME TypeOK, NEW c \in Cell, NEW q \in 1..MaxQty,
           NEW k \in Key \cup {NoKey}, Insert(c, q, k)
    PROVE  /\ hold' \in [Hold -> {NoRow} \cup Row]
           /\ level' \in [Cell -> Level]
           /\ referenced' \subseteq Cell
           /\ emitted' \subseteq Cell \X Rule
<1>1. PICK h \in Hold :
          hold' = [hold EXCEPT ![h] = [state |-> "active", cell |-> c,
                                       qty |-> q, key |-> k]]
  BY DEF Insert
<1>2. [state |-> "active", cell |-> c, qty |-> q, key |-> k] \in Row
  BY DEF Row
<1>3. hold' \in [Hold -> {NoRow} \cup Row]
  BY <1>1, <1>2 DEF TypeOK
<1>4. Record(c, "reservation", q)
  BY DEF Insert
<1> QED
  BY <1>3, <1>4, RecordType

\* Settling a hold keeps its cell, quantity and key.
LEMMA SettledType ==
    ASSUME TypeOK, NEW h \in Hold, IsActive(h),
           NEW f \in {"released", "expired", "committed"}
    PROVE  /\ hold[h] \in Row
           /\ [hold EXCEPT ![h].state = f] \in [Hold -> {NoRow} \cup Row]
<1>1. hold[h] \in Row
  BY DEF TypeOK, IsActive
<1>2. [hold[h] EXCEPT !.state = f] \in Row
  BY <1>1 DEF Row
<1> QED
  BY <1>1, <1>2 DEF TypeOK

-----------------------------------------------------------------------------
\* Type correctness; for on_hand and reserved it says that no sequence of
\* movements, edits and redeliveries takes either column below zero
\* (stock-movements.service.ts, record()).
THEOREM TypeCorrect == Spec => []TypeOK
<1>1. Init => TypeOK
  BY DEF Init, TypeOK, Level, Empty
<1>2. TypeOK /\ [Next]_vars => TypeOK'
  <2> SUFFICES ASSUME TypeOK, [Next]_vars
               PROVE  TypeOK'
    OBVIOUS
  <2>1. ASSUME NEW c \in Cell, NEW q \in 1..MaxQty, Create(c, q)
        PROVE  TypeOK'
    BY <2>1, InsertType DEF Create, TypeOK
  <2>2. ASSUME NEW p \in Caller, NEW k \in Key, NEW q \in 1..MaxQty,
               ReserveStockCheck(p, k, q)
        PROVE  TypeOK'
    BY <2>2 DEF ReserveStockCheck, TypeOK, InFlight
  <2>3. ASSUME NEW p \in Caller, ReserveStockInsert(p)
        PROVE  TypeOK'
    <3>1. call' \in [Caller -> {Idle} \cup InFlight]
      BY <2>3 DEF ReserveStockInsert, TypeOK
    <3>2. CASE HoldsWith(call[p].key) = {}
      <4>1. call[p] \in InFlight
        BY <2>3 DEF ReserveStockInsert, TypeOK
      <4>2. /\ call[p].cell \in Cell
            /\ call[p].qty \in 1..MaxQty
            /\ call[p].key \in Key \cup {NoKey}
        BY <4>1 DEF InFlight
      <4>3. Insert(call[p].cell, call[p].qty, call[p].key)
        BY <2>3, <3>2 DEF ReserveStockInsert
      <4> QED
        BY <2>3, <3>1, <4>2, <4>3, InsertType DEF ReserveStockInsert, TypeOK
    <3>3. CASE HoldsWith(call[p].key) # {}
      BY <2>3, <3>1, <3>3 DEF ReserveStockInsert, TypeOK
    <3> QED
      BY <3>2, <3>3
  <2>4. ASSUME NEW p \in Caller, ReserveStockFails(p)
        PROVE  TypeOK'
    BY <2>4 DEF ReserveStockFails, TypeOK
  <2>5. ASSUME NEW h \in Hold, NEW f \in {"released", "expired"}, Return(h, f)
        PROVE  TypeOK'
    <3>1. hold[h] \in Row /\ hold' \in [Hold -> {NoRow} \cup Row]
      BY <2>5, SettledType DEF Return
    <3>2. hold[h].cell \in Cell /\ -hold[h].qty \in Int
      BY <3>1 DEF Row
    <3> QED
      BY <2>5, <3>1, <3>2, RecordType DEF Return, TypeOK
  <2>6. ASSUME NEW h \in Hold, Commit(h)
        PROVE  TypeOK'
    <3> DEFINE c == hold[h].cell
               q == hold[h].qty
               mid == Moved(level[c], "release", -q)
               last == Moved(mid, "sale", -q)
    <3>1. hold[h] \in Row /\ hold' \in [Hold -> {NoRow} \cup Row]
      BY <2>6, SettledType DEF Commit
    <3>2. c \in Cell /\ -q \in Int
      BY <3>1 DEF Row
    <3>3. level[c] \in Level
      BY <3>2 DEF TypeOK
    <3>4. mid \in Level
      BY <2>6, <3>2, <3>3, MovedType DEF Commit
    <3>5. last \in Level
      BY <2>6, <3>2, <3>4, MovedType DEF Commit
    <3>6. level' \in [Cell -> Level]
      BY <2>6, <3>5 DEF Commit, TypeOK
    <3>7. emitted' \subseteq Cell \X Rule
      BY <2>6, <3>2, CrossingsType DEF Commit
    <3> QED
      BY <2>6, <3>1, <3>6, <3>7 DEF Commit, TypeOK
  <2>7. ASSUME NEW c \in Cell, NEW n \in Count, Audit(c, n)
        PROVE  TypeOK'
    <3>1. level[c] \in Level
      BY DEF TypeOK
    <3>2. n - Available(c) \in Int
      BY <3>1 DEF Available, AvailableIn, Level
    <3>3. drift' \in [Cell -> Int]
      BY <2>7, <3>2 DEF Audit, TypeOK
    <3>4. CASE n - Available(c) = 0
      BY <2>7, <3>3, <3>4 DEF Audit, TypeOK
    <3>5. CASE n - Available(c) # 0
      BY <2>7, <3>2, <3>3, <3>5, RecordType DEF Audit, TypeOK
    <3> QED
      BY <3>4, <3>5
  <2>8. ASSUME NEW x \in Receipt, ReceiveIntoCell(x)
        PROVE  TypeOK'
    <3>1. x.cell \in Cell /\ x.qty \in Int
      OBVIOUS
    <3>2. CASE x \in received
      BY <2>8, <3>2 DEF ReceiveIntoCell, TypeOK
    <3>3. CASE x \notin received
      BY <2>8, <3>1, <3>3, RecordType DEF ReceiveIntoCell, TypeOK
    <3> QED
      BY <3>2, <3>3
  <2>9. ASSUME NEW x \in Receipt, ReceiveFindsNoCell(x)
        PROVE  TypeOK'
    BY <2>9 DEF ReceiveFindsNoCell, TypeOK
  <2>10. ASSUME NEW x \in Receipt, ReceiveInsertsCell(x)
         PROVE  TypeOK'
    <3>1. CASE x.cell \in present
      BY <2>10, <3>1 DEF ReceiveInsertsCell, TypeOK
    <3>2. CASE x.cell \notin present
      <4> DEFINE after == Moved(Empty, "purchase_receipt", x.qty)
      <4>1. x.cell \in Cell /\ after \in Level
        BY DEF Moved, Empty, TargetField, Level
      <4>2. InsertRow(x.cell, after) /\ emitted' = Crossings(x.cell, Empty, after)
        BY <2>10, <3>2 DEF ReceiveInsertsCell
      <4>3. /\ level' \in [Cell -> Level]
            /\ edit' \in [Cell -> {NoEdit} \cup Edit]
            /\ call' \in [Caller -> {Idle} \cup InFlight]
            /\ present' \subseteq Cell /\ removing' \subseteq Cell
        BY <4>1, <4>2 DEF InsertRow, TypeOK
      <4>4. emitted' \subseteq Cell \X Rule
        BY <4>1, <4>2, CrossingsType
      <4> QED
        BY <2>10, <3>2, <4>1, <4>3, <4>4 DEF ReceiveInsertsCell, TypeOK
    <3> QED
      BY <3>1, <3>2
  <2>11. ASSUME NEW c \in Cell, CreateCell(c)
         PROVE  TypeOK'
    BY <2>11 DEF CreateCell, InsertRow, Empty, Level, TypeOK
  <2>12. ASSUME NEW c \in Cell, EditLoad(c)
         PROVE  TypeOK'
    BY <2>12 DEF EditLoad, Edit, TypeOK
  <2>13. ASSUME NEW c \in Cell, EditSave(c)
         PROVE  TypeOK'
    BY <2>13 DEF EditSave, Edit, TypeOK
  <2>14. ASSUME NEW c \in Cell, RemoveCheck(c) \/ RemoveDelete(c)
         PROVE  TypeOK'
    BY <2>14 DEF RemoveCheck, RemoveDelete, TypeOK
  <2>15. CASE UNCHANGED vars
    BY <2>15 DEF vars, TypeOK
  <2> QED
    BY <2>1, <2>2, <2>3, <2>4, <2>5, <2>6, <2>7, <2>8, <2>9, <2>10, <2>11,
       <2>12, <2>13, <2>14, <2>15 DEF Next, Transaction, Release, Expire
<1> QED
  BY <1>1, <1>2, PTL DEF Spec

-----------------------------------------------------------------------------
\* The only actions that open or settle a hold, by what they do to the
\* hold variable.
LEMMA HoldStep ==
    ASSUME TypeOK, [Next]_vars
    PROVE  \/ UNCHANGED hold
           \/ \E h \in Hold, k \in Key \cup {NoKey}, c \in Cell, q \in 1..MaxQty :
                 /\ hold[h] = NoRow
                 /\ k = NoKey \/ HoldsWith(k) = {}
                 /\ hold' = [hold EXCEPT ![h] = [state |-> "active", cell |-> c,
                                                 qty |-> q, key |-> k]]
           \/ \E h \in Hold, f \in {"released", "expired", "committed"} :
                 /\ IsActive(h)
                 /\ hold' = [hold EXCEPT ![h].state = f]
<1>1. ASSUME NEW c \in Cell, NEW q \in 1..MaxQty, Create(c, q)
      PROVE  \E h \in Hold : /\ hold[h] = NoRow
                              /\ hold' = [hold EXCEPT ![h] =
                                            [state |-> "active", cell |-> c,
                                             qty |-> q, key |-> NoKey]]
  BY <1>1 DEF Create, Insert
<1>2. ASSUME NEW p \in Caller, ReserveStockInsert(p)
      PROVE  \/ UNCHANGED hold
             \/ \E h \in Hold, k \in Key, c \in Cell, q \in 1..MaxQty :
                   /\ hold[h] = NoRow
                   /\ HoldsWith(k) = {}
                   /\ hold' = [hold EXCEPT ![h] =
                                 [state |-> "active", cell |-> c,
                                  qty |-> q, key |-> k]]
  <2>1. call[p] \in InFlight
    BY <1>2 DEF ReserveStockInsert, TypeOK
  <2>2. /\ call[p].cell \in Cell
        /\ call[p].qty \in 1..MaxQty
        /\ call[p].key \in Key
    BY <2>1 DEF InFlight
  <2>3. CASE HoldsWith(call[p].key) = {}
    <3>1. Insert(call[p].cell, call[p].qty, call[p].key)
      BY <1>2, <2>3 DEF ReserveStockInsert
    <3> QED
      BY <2>2, <2>3, <3>1 DEF Insert
  <2>4. CASE HoldsWith(call[p].key) # {}
    BY <1>2, <2>4 DEF ReserveStockInsert
  <2> QED
    BY <2>3, <2>4
<1>3. ASSUME NEW h \in Hold, Release(h) \/ Expire(h) \/ Commit(h)
      PROVE  \E f \in {"released", "expired", "committed"} :
                 /\ IsActive(h)
                 /\ hold' = [hold EXCEPT ![h].state = f]
  BY <1>3 DEF Release, Expire, Return, Commit
<1>4. ASSUME NEW p \in Caller, NEW k \in Key, NEW q \in 1..MaxQty,
             ReserveStockCheck(p, k, q)
      PROVE  UNCHANGED hold
  BY <1>4 DEF ReserveStockCheck
<1>5. ASSUME NEW p \in Caller, ReserveStockFails(p)
      PROVE  UNCHANGED hold
  BY <1>5 DEF ReserveStockFails
<1>6. ASSUME NEW c \in Cell, NEW n \in Count, Audit(c, n)
      PROVE  UNCHANGED hold
  BY <1>6 DEF Audit
<1>7. ASSUME NEW x \in Receipt,
             ReceiveIntoCell(x) \/ ReceiveFindsNoCell(x) \/ ReceiveInsertsCell(x)
      PROVE  UNCHANGED hold
  BY <1>7 DEF ReceiveIntoCell, ReceiveFindsNoCell, ReceiveInsertsCell
<1>8. ASSUME NEW c \in Cell,
             \/ CreateCell(c) \/ EditLoad(c) \/ EditSave(c)
             \/ RemoveCheck(c) \/ RemoveDelete(c)
      PROVE  UNCHANGED hold
  BY <1>8 DEF CreateCell, EditLoad, EditSave, RemoveCheck, RemoveDelete
<1>9. CASE UNCHANGED vars
  BY <1>9 DEF vars
<1> QED
  BY <1>1, <1>2, <1>3, <1>4, <1>5, <1>6, <1>7, <1>8, <1>9
     DEF Next, Transaction

\* For every number of holds, keys and concurrent ReserveStock calls, and
\* with the retries of the checkout saga, one idempotency key never holds
\* stock twice (createIdempotent and the unique index).
THEOREM KeysHoldOnce == Spec => []OneHoldPerKey
<1>1. Init => OneHoldPerKey
  BY DEF Init, OneHoldPerKey
<1>2. TypeOK /\ OneHoldPerKey /\ [Next]_vars => OneHoldPerKey'
  <2> SUFFICES ASSUME TypeOK, OneHoldPerKey, [Next]_vars
               PROVE  OneHoldPerKey'
    OBVIOUS
  <2>1. CASE UNCHANGED hold
    BY <2>1 DEF OneHoldPerKey
  <2>2. ASSUME NEW h \in Hold, NEW k \in Key \cup {NoKey}, NEW c \in Cell,
               NEW q \in 1..MaxQty,
               hold[h] = NoRow,
               k = NoKey \/ HoldsWith(k) = {},
               hold' = [hold EXCEPT ![h] = [state |-> "active", cell |-> c,
                                            qty |-> q, key |-> k]]
        PROVE  OneHoldPerKey'
    <3>1. hold'[h].key = k
      BY <2>2 DEF TypeOK
    <3>2. \A g \in Hold : g # h => hold'[g] = hold[g]
      BY <2>2 DEF TypeOK
    <3>3. \A g \in Hold : (g # h /\ hold[g] # NoRow) =>
                             (hold[g].key = k => k = NoKey)
      BY <2>2 DEF HoldsWith
    <3> QED
      BY <3>1, <3>2, <3>3 DEF OneHoldPerKey
  <2>3. ASSUME NEW h \in Hold, NEW f \in {"released", "expired", "committed"},
               IsActive(h),
               hold' = [hold EXCEPT ![h].state = f]
        PROVE  OneHoldPerKey'
    <3>1. hold[h] \in Row
      BY <2>3, SettledType
    <3>2. hold'[h].key = hold[h].key
      BY <2>3, <3>1 DEF TypeOK, Row
    <3>3. \A g \in Hold : g # h => hold'[g] = hold[g]
      BY <2>3 DEF TypeOK
    <3>4. hold[h] # NoRow
      BY <2>3 DEF IsActive
    <3> QED
      BY <3>2, <3>3, <3>4 DEF OneHoldPerKey
  <2> QED
    BY <2>1, <2>2, <2>3, HoldStep
<1> QED
  BY <1>1, <1>2, TypeCorrect, PTL DEF Spec

\* Every behaviour of inventory-service, redeliveries and overlapping
\* handlers included, takes each reservation row through HoldLifecycle:
\* opened once, settled at most once, unchanged from then on.
THEOREM LifecycleImplemented == Spec => ImplementsLifecycle
<1> DEFINE Fates == [h \in Hold |-> hold[h].state]
<1>1. Init => Lifecycle!Init
  BY DEF Init, Lifecycle!Init, NoRow
<1>2. TypeOK /\ [Next]_vars => [Lifecycle!Next]_Fates
  <2> SUFFICES ASSUME TypeOK, [Next]_vars
               PROVE  Lifecycle!Next \/ UNCHANGED Fates
    OBVIOUS
  <2>1. CASE UNCHANGED hold
    BY <2>1
  <2>2. ASSUME NEW h \in Hold, NEW c, NEW q, NEW k,
               hold[h] = NoRow,
               hold' = [hold EXCEPT ![h] = [state |-> "active", cell |-> c,
                                            qty |-> q, key |-> k]]
        PROVE  Lifecycle!Next
    <3>1. Fates[h] = "none"
      BY <2>2 DEF NoRow
    <3>2. Fates' = [Fates EXCEPT ![h] = "active"]
      BY <2>2 DEF TypeOK
    <3> QED
      BY <3>1, <3>2 DEF Lifecycle!Next, Lifecycle!Open
  <2>3. ASSUME NEW h \in Hold, NEW f \in {"released", "expired", "committed"},
               IsActive(h),
               hold' = [hold EXCEPT ![h].state = f]
        PROVE  Lifecycle!Next
    <3>1. Fates[h] = "active"
      BY <2>3 DEF IsActive
    <3>2. hold[h] \in Row
      BY <2>3, SettledType
    <3>3. hold'[h].state = f
      BY <2>3, <3>2 DEF TypeOK, Row
    <3>4. \A g \in Hold : g # h => hold'[g] = hold[g]
      BY <2>3 DEF TypeOK
    <3>5. Fates' = [Fates EXCEPT ![h] = f]
      BY <3>3, <3>4
    <3> QED
      BY <3>1, <3>5 DEF Lifecycle!Next, Lifecycle!Settle, Lifecycle!Settlement
  <2> QED
    BY <2>1, <2>2, <2>3, HoldStep
<1> QED
  BY <1>1, <1>2, TypeCorrect, PTL
     DEF Spec, ImplementsLifecycle, Lifecycle!Spec

-----------------------------------------------------------------------------
\* A movement, a hold or an audit never outlives its cell, whatever races
\* the removal's unlocked check (stock-levels.service.ts, remove()).
THEOREM RowsKeepTheirCell == Spec => []NoOrphanRows
<1>1. Init => NoOrphanRows
  BY DEF Init, NoOrphanRows
<1>2. NoOrphanRows /\ [Next]_vars => NoOrphanRows'
  <2> SUFFICES ASSUME NoOrphanRows, [Next]_vars
               PROVE  NoOrphanRows'
    OBVIOUS
  <2> USE DEF NoOrphanRows, Record
  <2>1. ASSUME NEW c \in Cell, NEW q \in 1..MaxQty, Create(c, q)
        PROVE  NoOrphanRows'
    BY <2>1 DEF Create, Insert
  <2>2. ASSUME NEW p \in Caller, NEW k \in Key, NEW q \in 1..MaxQty,
               ReserveStockCheck(p, k, q)
        PROVE  NoOrphanRows'
    BY <2>2 DEF ReserveStockCheck
  <2>3. ASSUME NEW p \in Caller, ReserveStockInsert(p) \/ ReserveStockFails(p)
        PROVE  NoOrphanRows'
    BY <2>3 DEF ReserveStockInsert, ReserveStockFails, Insert
  <2>4. ASSUME NEW h \in Hold, Release(h) \/ Expire(h) \/ Commit(h)
        PROVE  NoOrphanRows'
    BY <2>4 DEF Release, Expire, Return, Commit
  <2>5. ASSUME NEW c \in Cell, NEW n \in Count, Audit(c, n)
        PROVE  NoOrphanRows'
    BY <2>5 DEF Audit
  <2>6. ASSUME NEW x \in Receipt,
               \/ ReceiveIntoCell(x) \/ ReceiveFindsNoCell(x)
               \/ ReceiveInsertsCell(x)
        PROVE  NoOrphanRows'
    BY <2>6 DEF ReceiveIntoCell, ReceiveFindsNoCell, ReceiveInsertsCell, InsertRow
  <2>7. ASSUME NEW c \in Cell, CreateCell(c) \/ EditLoad(c) \/ EditSave(c)
        PROVE  NoOrphanRows'
    BY <2>7 DEF CreateCell, InsertRow, EditLoad, EditSave
  <2>8. ASSUME NEW c \in Cell, RemoveCheck(c) \/ RemoveDelete(c)
        PROVE  NoOrphanRows'
    BY <2>8 DEF RemoveCheck, RemoveDelete
  <2>9. CASE UNCHANGED vars
    BY <2>9 DEF vars
  <2> QED
    BY <2>1, <2>2, <2>3, <2>4, <2>5, <2>6, <2>7, <2>8, <2>9
       DEF Next, Transaction
<1> QED
  BY <1>1, <1>2, PTL DEF Spec

-----------------------------------------------------------------------------
(* The units of a set of holds under the three ways it changes.  The sums  *)
(* run over hold[h].qty, which only a hold that has a row has.             *)

\* The holds a sum runs over have rows, and rows have quantities.
LEMMA HoldsAreRows ==
    ASSUME TypeOK, NEW c \in Cell, NEW s
    PROVE  /\ HoldsOf(c, s) \in SUBSET Hold
           /\ Summable([h \in Hold |-> hold[h].qty], HoldsOf(c, s))
<1>1. HoldsOf(c, s) \in SUBSET Hold
  BY DEF HoldsOf
<1>2. IsFiniteSet(HoldsOf(c, s))
  BY <1>1, FS_Subset
<1>3. \A h \in HoldsOf(c, s) : hold[h].qty \in Int
  BY DEF HoldsOf, TypeOK, Row
<1> QED
  BY <1>1, <1>2, <1>3 DEF Summable

\* The same holds with the same quantities have the same units.
LEMMA UnitsKept ==
    ASSUME TypeOK, NEW c \in Cell, NEW s,
           HoldsOf(c, s)' = HoldsOf(c, s),
           \A h \in HoldsOf(c, s) : hold'[h].qty = hold[h].qty
    PROVE  HoldUnits(c, s)' = HoldUnits(c, s)
<1> DEFINE S == HoldsOf(c, s)
           before == [h \in Hold |-> hold[h].qty]
           after == [h \in Hold |-> hold'[h].qty]
<1>1. Summable(before, S) /\ S \in SUBSET Hold
  BY HoldsAreRows
<1>2. \A h \in S : before[h] = after[h]
  BY <1>1
<1>3. HoldUnits(c, s)' = SumFunctionOnSet(after, S)
  BY DEF HoldUnits
<1>4. HoldUnits(c, s) = SumFunctionOnSet(before, S)
  BY DEF HoldUnits
<1> HIDE DEF S, before, after
<1> QED
  BY <1>1, <1>2, <1>3, <1>4, SumOfSame

\* One hold more adds its units.
LEMMA UnitsGained ==
    ASSUME TypeOK, NEW c \in Cell, NEW s, NEW h \in Hold \ HoldsOf(c, s),
           HoldsOf(c, s)' = HoldsOf(c, s) \cup {h},
           hold'[h].qty \in Int,
           \A g \in HoldsOf(c, s) : hold'[g].qty = hold[g].qty
    PROVE  HoldUnits(c, s)' = HoldUnits(c, s) + hold'[h].qty
<1> DEFINE S == HoldsOf(c, s)
           before == [g \in Hold |-> hold[g].qty]
           after == [g \in Hold |-> hold'[g].qty]
<1>1. Summable(before, S) /\ S \in SUBSET Hold
  BY HoldsAreRows
<1>2. \A g \in S : before[g] = after[g]
  BY <1>1
<1>3. HoldUnits(c, s)' = SumFunctionOnSet(after, S \cup {h})
  BY DEF HoldUnits
<1>4. HoldUnits(c, s) = SumFunctionOnSet(before, S)
  BY DEF HoldUnits
<1>5. h \notin S /\ after[h] = hold'[h].qty /\ after[h] \in Int
  OBVIOUS
<1> HIDE DEF S, before, after
<1>6. Summable(after, S) /\ h \notin S /\ after[h] \in Int
  BY <1>1, <1>2, <1>5 DEF Summable
<1>7. SumFunctionOnSet(after, S \cup {h}) = SumFunctionOnSet(after, S) + after[h]
  BY <1>6, SumWith
<1>8. SumFunctionOnSet(before, S) = SumFunctionOnSet(after, S)
  BY <1>1, <1>2, SumOfSame
<1> QED
  BY <1>3, <1>4, <1>5, <1>7, <1>8

\* One hold fewer takes its units away.
LEMMA UnitsLost ==
    ASSUME TypeOK, NEW c \in Cell, NEW s, NEW h \in HoldsOf(c, s),
           HoldsOf(c, s)' = HoldsOf(c, s) \ {h},
           \A g \in HoldsOf(c, s) \ {h} : hold'[g].qty = hold[g].qty
    PROVE  HoldUnits(c, s)' = HoldUnits(c, s) - hold[h].qty
<1> DEFINE S == HoldsOf(c, s)
           T == S \ {h}
           before == [g \in Hold |-> hold[g].qty]
           after == [g \in Hold |-> hold'[g].qty]
<1>1. Summable(before, S) /\ S \in SUBSET Hold
  BY HoldsAreRows
<1>2. \A g \in T : before[g] = after[g]
  BY <1>1
<1>3. HoldUnits(c, s)' = SumFunctionOnSet(after, T)
  BY DEF HoldUnits
<1>4. HoldUnits(c, s) = SumFunctionOnSet(before, S)
  BY DEF HoldUnits
<1>5. h \in S /\ before[h] = hold[h].qty
  BY <1>1
<1>6. before[h] \in Int
  BY <1>1, <1>5 DEF Summable
<1>7. Summable(before, T)
  BY <1>1, FS_Subset DEF Summable
<1>8. T = S \ {h}
  OBVIOUS
<1> HIDE DEF S, T, before, after
<1>9. SumFunctionOnSet(before, S) = before[h] + SumFunctionOnSet(before, T)
  BY <1>1, <1>5, <1>8, SumWithout
<1>10. SumFunctionOnSet(before, T) = SumFunctionOnSet(after, T)
  BY <1>2, <1>7, SumOfSame
<1>11. SumFunctionOnSet(before, T) \in Int
  BY <1>7, SumIsInt
<1> QED
  BY <1>3, <1>4, <1>5, <1>6, <1>9, <1>10, <1>11

\* The units of a cell's holds are an integer.
LEMMA UnitsType ==
    ASSUME TypeOK, NEW c \in Cell, NEW s
    PROVE  HoldUnits(c, s) \in Int
<1> DEFINE qty == [h \in Hold |-> hold[h].qty]
<1>1. Summable(qty, HoldsOf(c, s))
  BY HoldsAreRows
<1>2. HoldUnits(c, s) = SumFunctionOnSet(qty, HoldsOf(c, s))
  BY DEF HoldUnits
<1> HIDE DEF qty
<1> QED
  BY <1>1, <1>2, SumIsInt

-----------------------------------------------------------------------------
(* What opening and settling a hold do to the units of every cell.         *)

\* Only the new hold's cell gains units, and only active ones.
LEMMA OpenedUnits ==
    ASSUME TypeOK, NEW h \in Hold, NEW c \in Cell, NEW q \in 1..MaxQty,
           NEW k \in Key \cup {NoKey}, hold[h] = NoRow,
           hold' = [hold EXCEPT ![h] = [state |-> "active", cell |-> c,
                                        qty |-> q, key |-> k]]
    PROVE  \A d \in Cell :
              /\ HoldUnits(d, "active")' =
                    HoldUnits(d, "active") + (IF d = c THEN q ELSE 0)
              /\ HoldUnits(d, "committed")' = HoldUnits(d, "committed")
<1>1. /\ \A g \in Hold : g # h => hold'[g] = hold[g]
      /\ hold'[h].state = "active" /\ hold'[h].cell = c /\ hold'[h].qty = q
      /\ hold'[h] # NoRow /\ q \in Int
  BY DEF TypeOK, NoRow
<1>2. \A d \in Cell : \A s : h \notin HoldsOf(d, s) /\ HoldsOf(d, s) \subseteq Hold
  BY DEF HoldsOf
<1>3. \A d \in Cell : \A s : \A g \in HoldsOf(d, s) : hold'[g].qty = hold[g].qty
  BY <1>1, <1>2
<1> SUFFICES ASSUME NEW d \in Cell
             PROVE  /\ HoldUnits(d, "active")' =
                          HoldUnits(d, "active") + (IF d = c THEN q ELSE 0)
                    /\ HoldUnits(d, "committed")' = HoldUnits(d, "committed")
  OBVIOUS
<1>4. HoldsOf(d, "committed")' = HoldsOf(d, "committed")
  BY <1>1 DEF HoldsOf
<1>5. HoldUnits(d, "committed")' = HoldUnits(d, "committed")
  BY <1>3, <1>4, UnitsKept
<1>6. CASE d = c
  <2>1. HoldsOf(d, "active")' = HoldsOf(d, "active") \cup {h}
    BY <1>1, <1>6 DEF HoldsOf
  <2>2. HoldUnits(d, "active")' = HoldUnits(d, "active") + hold'[h].qty
    BY <1>1, <1>2, <1>3, <2>1, UnitsGained
  <2> QED
    BY <1>1, <1>5, <1>6, <2>2
<1>7. CASE d # c
  <2>1. HoldsOf(d, "active")' = HoldsOf(d, "active")
    BY <1>1, <1>2, <1>7 DEF HoldsOf
  <2>2. HoldUnits(d, "active")' = HoldUnits(d, "active")
    BY <1>3, <2>1, UnitsKept
  <2>3. HoldUnits(d, "active") \in Int
    BY UnitsType
  <2> QED
    BY <1>5, <1>7, <2>2, <2>3
<1> QED
  BY <1>6, <1>7

\* The settled hold's cell loses its active units; a commit sells them.
LEMMA SettledUnits ==
    ASSUME TypeOK, NEW h \in Hold, IsActive(h),
           NEW f \in {"released", "expired", "committed"},
           hold' = [hold EXCEPT ![h].state = f]
    PROVE  \A d \in Cell :
              /\ HoldUnits(d, "active")' =
                    HoldUnits(d, "active")
                      - (IF d = hold[h].cell THEN hold[h].qty ELSE 0)
              /\ HoldUnits(d, "committed")' =
                    HoldUnits(d, "committed")
                      + (IF d = hold[h].cell /\ f = "committed"
                         THEN hold[h].qty ELSE 0)
<1>0. hold[h] \in Row /\ hold[h] # NoRow /\ hold[h].state = "active"
  BY SettledType DEF IsActive
<1>1. /\ \A g \in Hold : g # h => hold'[g] = hold[g]
      /\ hold'[h].state = f /\ hold'[h].cell = hold[h].cell
      /\ hold'[h].qty = hold[h].qty /\ hold[h].qty \in Int
  BY <1>0 DEF TypeOK, Row
<1>2. hold'[h] # NoRow
  BY <1>1 DEF NoRow
<1>3. \A d \in Cell : \A s : HoldsOf(d, s) \subseteq Hold
  BY DEF HoldsOf
<1>4. \A d \in Cell : \A s : \A g \in HoldsOf(d, s) : hold'[g].qty = hold[g].qty
  BY <1>1, <1>3
<1> SUFFICES ASSUME NEW d \in Cell
             PROVE  /\ HoldUnits(d, "active")' =
                          HoldUnits(d, "active")
                            - (IF d = hold[h].cell THEN hold[h].qty ELSE 0)
                    /\ HoldUnits(d, "committed")' =
                          HoldUnits(d, "committed")
                            + (IF d = hold[h].cell /\ f = "committed"
                               THEN hold[h].qty ELSE 0)
  OBVIOUS
<1>5. HoldUnits(d, "active") \in Int /\ HoldUnits(d, "committed") \in Int
  BY UnitsType
<1>6. CASE d = hold[h].cell
  <2>1. /\ h \in HoldsOf(d, "active")
        /\ HoldsOf(d, "active")' = HoldsOf(d, "active") \ {h}
    BY <1>0, <1>1, <1>2, <1>6 DEF HoldsOf
  <2>2. HoldUnits(d, "active")' = HoldUnits(d, "active") - hold[h].qty
    BY <1>4, <2>1, UnitsLost
  <2>3. CASE f = "committed"
    <3>1. /\ h \in Hold \ HoldsOf(d, "committed")
          /\ HoldsOf(d, "committed")' = HoldsOf(d, "committed") \cup {h}
      BY <1>0, <1>1, <1>2, <1>6, <2>3 DEF HoldsOf
    <3>2. HoldUnits(d, "committed")' = HoldUnits(d, "committed") + hold'[h].qty
      BY <1>1, <1>4, <3>1, UnitsGained
    <3> QED
      BY <1>1, <1>6, <2>2, <2>3, <3>2
  <2>4. CASE f # "committed"
    <3>1. HoldsOf(d, "committed")' = HoldsOf(d, "committed")
      BY <1>0, <1>1, <1>2, <1>6, <2>4 DEF HoldsOf
    <3>2. HoldUnits(d, "committed")' = HoldUnits(d, "committed")
      BY <1>4, <3>1, UnitsKept
    <3> QED
      BY <1>5, <1>6, <2>2, <2>4, <3>2
  <2> QED
    BY <2>3, <2>4
<1>7. CASE d # hold[h].cell
  <2>1. /\ HoldsOf(d, "active")' = HoldsOf(d, "active")
        /\ HoldsOf(d, "committed")' = HoldsOf(d, "committed")
    BY <1>0, <1>1, <1>7 DEF HoldsOf
  <2>2. /\ HoldUnits(d, "active")' = HoldUnits(d, "active")
        /\ HoldUnits(d, "committed")' = HoldUnits(d, "committed")
    BY <1>4, <2>1, UnitsKept
  <2> QED
    BY <1>5, <1>7, <2>2
<1> QED
  BY <1>6, <1>7

\* Of the receipts of a cell, one more counts its quantity.
LEMMA ReceivedUnits ==
    ASSUME NEW S \in SUBSET Receipt
    PROVE  /\ Units(S) \in Int
           /\ \A x \in Receipt \ S : Units(S \cup {x}) = Units(S) + x.qty
<1> DEFINE qty == [x \in Receipt |-> x.qty]
<1>1. Summable(qty, S)
  BY FS_Subset DEF Summable
<1>2. \A T \in SUBSET Receipt : Units(T) = SumFunctionOnSet(qty, T)
  BY DEF Units
<1>3. \A x \in Receipt : qty[x] = x.qty /\ qty[x] \in Int
  OBVIOUS
<1> HIDE DEF qty
<1>4. Units(S) \in Int
  BY <1>1, <1>2, SumIsInt
<1>5. ASSUME NEW x \in Receipt \ S
      PROVE  Units(S \cup {x}) = Units(S) + x.qty
  <2>1. x \notin S /\ Summable(qty, S) /\ qty[x] \in Int
    BY <1>1, <1>3
  <2>2. SumFunctionOnSet(qty, S \cup {x}) = SumFunctionOnSet(qty, S) + qty[x]
    BY <2>1, SumWith
  <2> QED
    BY <1>2, <1>3, <2>2
<1> QED
  BY <1>4, <1>5

-----------------------------------------------------------------------------
(* The books.  A cell that no ledger row refers to is empty, so a new row  *)
(* for it starts from what the books say; and while no edit overlaps       *)
(* another transaction, the row an edit has loaded is still the cell's.    *)

Referencing ==
    /\ \A h \in Hold : hold[h] # NoRow => hold[h].cell \in referenced
    /\ \A x \in received : x.cell \in referenced
    /\ \A c \in Cell \ referenced : level[c] = Empty

EditsCurrent == \A c \in Cell : edit[c] # NoEdit => edit[c].row = level[c]

Grounded == NoOrphanRows /\ Referencing /\ EditsCurrent

\* A step that adds to the two columns of one cell.
Moves(c, onHand, reserved) ==
    /\ level' = [level EXCEPT ![c] = [onHand   |-> level[c].onHand + onHand,
                                      reserved |-> level[c].reserved + reserved]]
    /\ referenced \cup {c} \subseteq referenced'

\* The six things a step can do to the books.
Nothing == /\ UNCHANGED <<level, hold, received, drift>>
           /\ referenced \subseteq referenced'
Holds(h, c, q, k) ==
    /\ hold[h] = NoRow
    /\ hold' = [hold EXCEPT ![h] = [state |-> "active", cell |-> c,
                                    qty |-> q, key |-> k]]
    /\ Moves(c, 0, q)
    /\ UNCHANGED <<received, drift>>
GivesBack(h, f) ==
    /\ IsActive(h)
    /\ hold' = [hold EXCEPT ![h].state = f]
    /\ Moves(hold[h].cell, 0, -hold[h].qty)
    /\ UNCHANGED <<received, drift>>
Sells(h) ==
    /\ IsActive(h)
    /\ hold' = [hold EXCEPT ![h].state = "committed"]
    /\ Moves(hold[h].cell, -hold[h].qty, -hold[h].qty)
    /\ UNCHANGED <<received, drift>>
Corrects(c, n) ==
    /\ Moves(c, n, 0)
    /\ drift' = [drift EXCEPT ![c] = @ + n]
    /\ UNCHANGED <<hold, received>>
Books(x) ==
    /\ received' = received \cup {x}
    /\ Moves(x.cell, x.qty, 0)
    /\ UNCHANGED <<hold, drift>>

BookStep ==
    \/ Nothing
    \/ \E h \in Hold, c \in Cell, q \in 1..MaxQty, k \in Key \cup {NoKey} :
          Holds(h, c, q, k)
    \/ \E h \in Hold, f \in {"released", "expired"} : GivesBack(h, f)
    \/ \E h \in Hold : Sells(h)
    \/ \E c \in Cell, n \in Int : Corrects(c, n)
    \/ \E x \in Receipt \ received : Books(x)

\* What record() does to the two columns, by the kind of the movement.
LEMMA MovedColumns ==
    ASSUME NEW l \in Level, NEW delta \in Int
    PROVE  /\ \A kind \in {"reservation", "release"} :
                 Moved(l, kind, delta) = [onHand   |-> l.onHand + 0,
                                          reserved |-> l.reserved + delta]
           /\ \A kind \in {"sale", "adjustment", "purchase_receipt"} :
                 Moved(l, kind, delta) = [onHand   |-> l.onHand + delta,
                                          reserved |-> l.reserved + 0]
<1>1. PICK a \in Nat, b \in Nat : l = [onHand |-> a, reserved |-> b]
  BY DEF Level
<1>2. ASSUME NEW kind \in {"reservation", "release"}
      PROVE  Moved(l, kind, delta) = [onHand   |-> l.onHand + 0,
                                      reserved |-> l.reserved + delta]
  <2>1. TargetField(kind) = "reserved"
    BY DEF TargetField
  <2>2. Moved(l, kind, delta) = [l EXCEPT !.reserved = b + delta]
    BY <1>1, <2>1 DEF Moved
  <2>3. Moved(l, kind, delta) = [onHand |-> a, reserved |-> b + delta]
    BY <1>1, <2>2
  <2> QED
    BY <1>1, <2>3
<1>3. ASSUME NEW kind \in {"sale", "adjustment", "purchase_receipt"}
      PROVE  Moved(l, kind, delta) = [onHand   |-> l.onHand + delta,
                                      reserved |-> l.reserved + 0]
  <2>1. TargetField(kind) = "onHand"
    BY DEF TargetField
  <2>2. Moved(l, kind, delta) = [l EXCEPT !.onHand = a + delta]
    BY <1>1, <2>1 DEF Moved
  <2>3. Moved(l, kind, delta) = [onHand |-> a + delta, reserved |-> b]
    BY <1>1, <2>2
  <2> QED
    BY <1>1, <2>3
<1> QED
  BY <1>2, <1>3

\* A one-movement transaction moves one column of its cell.
LEMMA RecordMoves ==
    ASSUME TypeOK, NEW c \in Cell, NEW delta \in Int, NEW kind, Record(c, kind, delta)
    PROVE  /\ kind \in {"reservation", "release"} => Moves(c, 0, delta)
           /\ kind \in {"sale", "adjustment", "purchase_receipt"} => Moves(c, delta, 0)
<1>1. level[c] \in Level
  BY DEF TypeOK
<1>2. /\ level' = [level EXCEPT ![c] = Moved(level[c], kind, delta)]
      /\ referenced' = referenced \cup {c}
  BY DEF Record
<1> QED
  BY <1>1, <1>2, MovedColumns DEF Moves

\* createCore() opens a hold and reserves its units in one step.
LEMMA InsertBooks ==
    ASSUME TypeOK, NEW c \in Cell, NEW q \in 1..MaxQty,
           NEW k \in Key \cup {NoKey}, Insert(c, q, k),
           UNCHANGED <<received, drift>>
    PROVE  BookStep
<1>1. PICK h \in Hold : /\ hold[h] = NoRow
                        /\ hold' = [hold EXCEPT ![h] =
                                      [state |-> "active", cell |-> c,
                                       qty |-> q, key |-> k]]
                        /\ Record(c, "reservation", q)
  BY DEF Insert
<1>2. Moves(c, 0, q)
  <2>1. q \in Int
    OBVIOUS
  <2> QED
    BY <1>1, <2>1, RecordMoves
<1>3. Holds(h, c, q, k)
  BY <1>1, <1>2 DEF Holds
<1> QED
  BY <1>3 DEF BookStep

\* Every transaction of inventory-service is one of the six.
LEMMA StepBooks ==
    ASSUME ~EditsOverlap, TypeOK, Grounded, [Next]_vars
    PROVE  BookStep
<1> USE DEF Grounded
<1>1. ASSUME NEW c \in Cell, NEW q \in 1..MaxQty, Create(c, q)
      PROVE  BookStep
  BY <1>1, InsertBooks DEF Create
<1>2. ASSUME NEW p \in Caller, NEW k \in Key, NEW q \in 1..MaxQty,
             ReserveStockCheck(p, k, q)
      PROVE  BookStep
  BY <1>2 DEF ReserveStockCheck, BookStep, Nothing
<1>3. ASSUME NEW p \in Caller, ReserveStockInsert(p)
      PROVE  BookStep
  <2>1. call[p] \in InFlight
    BY <1>3 DEF ReserveStockInsert, TypeOK
  <2>2. /\ call[p].cell \in Cell
        /\ call[p].qty \in 1..MaxQty
        /\ call[p].key \in Key \cup {NoKey}
    BY <2>1 DEF InFlight
  <2>3. CASE HoldsWith(call[p].key) = {}
    BY <1>3, <2>2, <2>3, InsertBooks DEF ReserveStockInsert
  <2>4. CASE HoldsWith(call[p].key) # {}
    BY <1>3, <2>4 DEF ReserveStockInsert, BookStep, Nothing
  <2> QED
    BY <2>3, <2>4
<1>4. ASSUME NEW p \in Caller, ReserveStockFails(p)
      PROVE  BookStep
  BY <1>4 DEF ReserveStockFails, BookStep, Nothing
<1>5. ASSUME NEW h \in Hold, NEW f \in {"released", "expired"}, Return(h, f)
      PROVE  BookStep
  <2>1. hold[h] \in Row /\ IsActive(h)
    BY <1>5, SettledType DEF Return
  <2>2. hold[h].cell \in Cell /\ -hold[h].qty \in Int
    BY <2>1 DEF Row
  <2>3. Moves(hold[h].cell, 0, -hold[h].qty)
    BY <1>5, <2>2, RecordMoves DEF Return
  <2>4. GivesBack(h, f)
    BY <1>5, <2>1, <2>3 DEF Return, GivesBack
  <2> QED
    BY <2>4 DEF BookStep
<1>6. ASSUME NEW h \in Hold, Commit(h)
      PROVE  BookStep
  <2> DEFINE c == hold[h].cell
             q == hold[h].qty
             mid == Moved(level[c], "release", -q)
             last == Moved(mid, "sale", -q)
  <2>1. hold[h] \in Row /\ IsActive(h)
    BY <1>6, SettledType DEF Commit
  <2>2. c \in Cell /\ -q \in Int /\ c \in referenced
    BY <2>1 DEF Row, Referencing, IsActive
  <2>3. level[c] \in Level
    BY <2>2 DEF TypeOK
  <2>4. mid \in Level
    BY <1>6, <2>2, <2>3, MovedType DEF Commit
  <2>5. mid = [onHand |-> level[c].onHand + 0, reserved |-> level[c].reserved + -q]
    BY <2>2, <2>3, MovedColumns
  <2>6. last = [onHand |-> mid.onHand + -q, reserved |-> mid.reserved + 0]
    BY <2>2, <2>4, MovedColumns
  <2>7. level' = [level EXCEPT ![c] = last]
    BY <1>6 DEF Commit
  <2>8. last = [onHand |-> level[c].onHand + -q, reserved |-> level[c].reserved + -q]
    BY <2>2, <2>3, <2>5, <2>6 DEF Level
  <2>9. Moves(c, -q, -q)
    BY <1>6, <2>2, <2>7, <2>8 DEF Commit, Moves
  <2>10. Sells(h)
    BY <1>6, <2>1, <2>9 DEF Commit, Sells
  <2> QED
    BY <2>10 DEF BookStep
<1>7. ASSUME NEW c \in Cell, NEW n \in Count, Audit(c, n)
      PROVE  BookStep
  <2> DEFINE d == n - Available(c)
  <2>1. level[c] \in Level /\ drift[c] \in Int
    BY DEF TypeOK
  <2>2. d \in Int
    BY <2>1 DEF Available, AvailableIn, Level
  <2>3. CASE d = 0
    <3>1. drift' = drift
      BY <1>7, <2>1, <2>3 DEF Audit, TypeOK
    <3> QED
      BY <1>7, <2>3, <3>1 DEF Audit, BookStep, Nothing
  <2>4. CASE d # 0
    <3>1. Moves(c, d, 0)
      BY <1>7, <2>2, <2>4, RecordMoves DEF Audit
    <3>2. Corrects(c, d)
      BY <1>7, <3>1 DEF Audit, Corrects
    <3> QED
      BY <2>2, <3>2 DEF BookStep
  <2> QED
    BY <2>3, <2>4
<1>8. ASSUME NEW x \in Receipt, ReceiveIntoCell(x)
      PROVE  BookStep
  <2>1. x.cell \in Cell /\ x.qty \in Int
    OBVIOUS
  <2>2. CASE x \in received
    BY <1>8, <2>2 DEF ReceiveIntoCell, BookStep, Nothing
  <2>3. CASE x \notin received
    <3>1. Moves(x.cell, x.qty, 0)
      BY <1>8, <2>1, <2>3, RecordMoves DEF ReceiveIntoCell
    <3>2. Books(x)
      BY <1>8, <2>3, <3>1 DEF ReceiveIntoCell, Books
    <3> QED
      BY <2>3, <3>2 DEF BookStep
  <2> QED
    BY <2>2, <2>3
<1>9. ASSUME NEW x \in Receipt, ReceiveFindsNoCell(x)
      PROVE  BookStep
  BY <1>9 DEF ReceiveFindsNoCell, BookStep, Nothing
<1>10. ASSUME NEW x \in Receipt, ReceiveInsertsCell(x)
       PROVE  BookStep
  <2>1. CASE x.cell \in present
    BY <1>10, <2>1 DEF ReceiveInsertsCell, BookStep, Nothing
  <2>2. CASE x.cell \notin present
    <3>1. x.cell \in Cell /\ x.qty \in Int
      OBVIOUS
    <3>2. x.cell \notin referenced /\ x \notin received
      BY <2>2 DEF NoOrphanRows, Referencing
    <3>3. level[x.cell] = Empty /\ level[x.cell] \in Level
      BY <3>1, <3>2 DEF Referencing, TypeOK
    <3>4. level' = [level EXCEPT ![x.cell] =
                       Moved(level[x.cell], "purchase_receipt", x.qty)]
      BY <1>10, <2>2, <3>3 DEF ReceiveInsertsCell, InsertRow
    <3>5. Moves(x.cell, x.qty, 0)
      BY <1>10, <2>2, <3>1, <3>3, <3>4, MovedColumns DEF ReceiveInsertsCell, Moves
    <3>6. Books(x)
      BY <1>10, <2>2, <3>5 DEF ReceiveInsertsCell, Books
    <3> QED
      BY <3>2, <3>6 DEF BookStep
  <2> QED
    BY <2>1, <2>2
<1>11. ASSUME NEW c \in Cell, CreateCell(c)
       PROVE  BookStep
  <2>1. level[c] = Empty
    BY <1>11 DEF CreateCell, InsertRow, NoOrphanRows, Referencing
  <2>2. level' = level
    BY <1>11, <2>1 DEF CreateCell, InsertRow, TypeOK
  <2> QED
    BY <1>11, <2>2 DEF CreateCell, BookStep, Nothing
<1>12. ASSUME NEW c \in Cell, EditSave(c)
       PROVE  BookStep
  <2>1. level' = level
    BY <1>12 DEF EditSave, EditsCurrent, TypeOK
  <2> QED
    BY <1>12, <2>1 DEF EditSave, BookStep, Nothing
<1>13. ASSUME NEW c \in Cell, EditLoad(c) \/ RemoveCheck(c) \/ RemoveDelete(c)
       PROVE  BookStep
  BY <1>13 DEF EditLoad, RemoveCheck, RemoveDelete, BookStep, Nothing
<1>14. CASE UNCHANGED vars
  BY <1>14 DEF vars, BookStep, Nothing
<1> QED
  BY <1>1, <1>2, <1>3, <1>4, <1>5, <1>6, <1>7, <1>8, <1>9, <1>10, <1>11,
     <1>12, <1>13, <1>14 DEF Next, Transaction, Release, Expire

\* What a step that moves a cell does to each cell's row.
LEMMA MovesRows ==
    ASSUME TypeOK, NEW c \in Cell, NEW a \in Int, NEW b \in Int, Moves(c, a, b)
    PROVE  /\ \A d \in Cell :
                 /\ level'[d].onHand = level[d].onHand + (IF d = c THEN a ELSE 0)
                 /\ level'[d].reserved = level[d].reserved + (IF d = c THEN b ELSE 0)
           /\ \A d \in Cell \ referenced' : level'[d] = level[d]
<1>1. \A d \in Cell : d # c => level'[d] = level[d]
  BY DEF Moves, TypeOK
<1>2. level'[c] = [onHand   |-> level[c].onHand + a,
                   reserved |-> level[c].reserved + b]
  BY DEF Moves, TypeOK
<1>3. \A d \in Cell : level[d].onHand \in Int /\ level[d].reserved \in Int
  BY DEF TypeOK, Level
<1>4. c \in referenced'
  BY DEF Moves
<1>5. \A d \in Cell \ referenced' : level'[d] = level[d]
  BY <1>1, <1>4
<1>6. ASSUME NEW d \in Cell
      PROVE  /\ level'[d].onHand = level[d].onHand + (IF d = c THEN a ELSE 0)
             /\ level'[d].reserved = level[d].reserved + (IF d = c THEN b ELSE 0)
  <2>1. CASE d = c
    BY <1>2, <2>1
  <2>2. CASE d # c
    <3>1. level'[d].onHand = level[d].onHand /\ level[d].onHand \in Int
      BY <1>1, <1>3, <2>2
    <3>2. level'[d].reserved = level[d].reserved /\ level[d].reserved \in Int
      BY <1>1, <1>3, <2>2
    <3> QED
      BY <2>2, <3>1, <3>2
  <2> QED
    BY <2>1, <2>2
<1> QED
  BY <1>5, <1>6

\* Of the received receipts, those of one cell.
Into(c) == {x \in received : x.cell = c}

Balanced == ReservedMatchesHolds /\ StockConserved

\* Each of the six keeps the books balanced.
LEMMA StaysBalanced ==
    ASSUME TypeOK, Balanced, BookStep
    PROVE  Balanced'
<1> USE DEF Balanced
<1>0. ASSUME NEW d \in Cell
      PROVE  /\ HoldUnits(d, "active") \in Int /\ HoldUnits(d, "committed") \in Int
             /\ Units(Into(d)) \in Int /\ drift[d] \in Int
             /\ level[d].onHand \in Int /\ level[d].reserved \in Int
             /\ level[d].reserved = HoldUnits(d, "active")
             /\ level[d].onHand =
                   Units(Into(d)) - HoldUnits(d, "committed") + drift[d]
  <2>1. Into(d) \in SUBSET Receipt
    BY DEF TypeOK, Into
  <2>2. Units(Into(d)) \in Int
    BY <2>1, ReceivedUnits
  <2>3. drift[d] \in Int /\ level[d].onHand \in Int /\ level[d].reserved \in Int
    BY DEF TypeOK, Level
  <2> QED
    BY <2>2, <2>3, UnitsType DEF ReservedMatchesHolds, StockConserved, Into
<1>1. SUFFICES ASSUME NEW d \in Cell
               PROVE  /\ level'[d].reserved = HoldUnits(d, "active")'
                      /\ level'[d].onHand = Units(Into(d))'
                            - HoldUnits(d, "committed")' + drift'[d]
  BY DEF ReservedMatchesHolds, StockConserved, Into
<1>2. ASSUME UNCHANGED received
      PROVE  Units(Into(d))' = Units(Into(d))
  BY <1>2 DEF Units, Into
<1>3. ASSUME UNCHANGED hold
      PROVE  /\ HoldUnits(d, "active")' = HoldUnits(d, "active")
             /\ HoldUnits(d, "committed")' = HoldUnits(d, "committed")
  BY <1>3 DEF HoldUnits, HoldsOf
<1>4. CASE Nothing
  BY <1>0, <1>2, <1>3, <1>4 DEF Nothing
<1>5. ASSUME NEW h \in Hold, NEW c \in Cell, NEW q \in 1..MaxQty,
             NEW k \in Key \cup {NoKey}, Holds(h, c, q, k)
      PROVE  /\ level'[d].reserved = HoldUnits(d, "active")'
             /\ level'[d].onHand = Units(Into(d))'
                   - HoldUnits(d, "committed")' + drift'[d]
  <2>1. q \in Int
    OBVIOUS
  <2>2. /\ level'[d].onHand = level[d].onHand + 0
        /\ level'[d].reserved = level[d].reserved + (IF d = c THEN q ELSE 0)
    <3>1. Moves(c, 0, q) /\ q \in Int /\ 0 \in Int
      BY <1>5, <2>1 DEF Holds
    <3>2. /\ level'[d].onHand = level[d].onHand + (IF d = c THEN 0 ELSE 0)
          /\ level'[d].reserved = level[d].reserved + (IF d = c THEN q ELSE 0)
      BY <3>1, MovesRows
    <3> QED
      BY <3>2
  <2>3. /\ HoldUnits(d, "active")' =
              HoldUnits(d, "active") + (IF d = c THEN q ELSE 0)
        /\ HoldUnits(d, "committed")' = HoldUnits(d, "committed")
    BY <1>5, OpenedUnits DEF Holds
  <2>4. Units(Into(d))' = Units(Into(d)) /\ drift'[d] = drift[d]
    BY <1>2, <1>5 DEF Holds
  <2> QED
    BY <1>0, <2>1, <2>2, <2>3, <2>4
<1>6. ASSUME NEW h \in Hold, IsActive(h),
             NEW f \in {"released", "expired", "committed"},
             hold' = [hold EXCEPT ![h].state = f],
             Moves(hold[h].cell,
                   IF f = "committed" THEN -hold[h].qty ELSE 0, -hold[h].qty),
             UNCHANGED <<received, drift>>
      PROVE  /\ level'[d].reserved = HoldUnits(d, "active")'
             /\ level'[d].onHand = Units(Into(d))'
                   - HoldUnits(d, "committed")' + drift'[d]
  <2> DEFINE c == hold[h].cell
             q == hold[h].qty
  <2>1. hold[h] \in Row
    BY <1>6, SettledType
  <2>2. c \in Cell /\ q \in Int
    BY <2>1 DEF Row
  <2>3. /\ level'[d].onHand = level[d].onHand
              + (IF d = c THEN IF f = "committed" THEN -q ELSE 0 ELSE 0)
        /\ level'[d].reserved = level[d].reserved + (IF d = c THEN -q ELSE 0)
    <3> DEFINE a == IF f = "committed" THEN -q ELSE 0
    <3>1. Moves(c, a, -q) /\ a \in Int /\ -q \in Int
      BY <1>6, <2>2
    <3> HIDE DEF c, q, a
    <3>2. /\ level'[d].onHand = level[d].onHand + (IF d = c THEN a ELSE 0)
          /\ level'[d].reserved = level[d].reserved + (IF d = c THEN -q ELSE 0)
      BY <2>2, <3>1, MovesRows
    <3> QED
      BY <3>2 DEF a
  <2>4. /\ HoldUnits(d, "active")' =
              HoldUnits(d, "active") - (IF d = c THEN q ELSE 0)
        /\ HoldUnits(d, "committed")' =
              HoldUnits(d, "committed")
                + (IF d = c /\ f = "committed" THEN q ELSE 0)
    BY <1>6, SettledUnits
  <2>5. Units(Into(d))' = Units(Into(d)) /\ drift'[d] = drift[d]
    BY <1>2, <1>6
  <2> HIDE DEF c, q
  <2> QED
    BY <1>0, <2>2, <2>3, <2>4, <2>5
<1>7. ASSUME NEW h \in Hold, NEW f \in {"released", "expired"}, GivesBack(h, f)
      PROVE  /\ level'[d].reserved = HoldUnits(d, "active")'
             /\ level'[d].onHand = Units(Into(d))'
                   - HoldUnits(d, "committed")' + drift'[d]
  BY <1>6, <1>7 DEF GivesBack
<1>8. ASSUME NEW h \in Hold, Sells(h)
      PROVE  /\ level'[d].reserved = HoldUnits(d, "active")'
             /\ level'[d].onHand = Units(Into(d))'
                   - HoldUnits(d, "committed")' + drift'[d]
  BY <1>6, <1>8 DEF Sells
<1>9. ASSUME NEW c \in Cell, NEW n \in Int, Corrects(c, n)
      PROVE  /\ level'[d].reserved = HoldUnits(d, "active")'
             /\ level'[d].onHand = Units(Into(d))'
                   - HoldUnits(d, "committed")' + drift'[d]
  <2>1. /\ level'[d].onHand = level[d].onHand + (IF d = c THEN n ELSE 0)
        /\ level'[d].reserved = level[d].reserved + 0
    <3>1. Moves(c, n, 0) /\ 0 \in Int
      BY <1>9 DEF Corrects
    <3>2. /\ level'[d].onHand = level[d].onHand + (IF d = c THEN n ELSE 0)
          /\ level'[d].reserved = level[d].reserved + (IF d = c THEN 0 ELSE 0)
      BY <3>1, MovesRows
    <3> QED
      BY <3>2
  <2>2. drift'[d] = drift[d] + (IF d = c THEN n ELSE 0)
    BY <1>0, <1>9 DEF Corrects, TypeOK
  <2>3. received' = received /\ hold' = hold
    BY <1>9 DEF Corrects
  <2>4. /\ Units(Into(d))' = Units(Into(d))
        /\ HoldUnits(d, "active")' = HoldUnits(d, "active")
        /\ HoldUnits(d, "committed")' = HoldUnits(d, "committed")
    BY <1>2, <1>3, <2>3
  <2>5. CASE d = c
    BY <1>0, <2>1, <2>2, <2>4, <2>5
  <2>6. CASE d # c
    BY <1>0, <2>1, <2>2, <2>4, <2>6
  <2> QED
    BY <2>5, <2>6
<1>10. ASSUME NEW x \in Receipt \ received, Books(x)
       PROVE  /\ level'[d].reserved = HoldUnits(d, "active")'
              /\ level'[d].onHand = Units(Into(d))'
                    - HoldUnits(d, "committed")' + drift'[d]
  <2> DEFINE c == x.cell
             q == x.qty
  <2>1. c \in Cell /\ q \in Int
    OBVIOUS
  <2>2. /\ level'[d].onHand = level[d].onHand + (IF d = c THEN q ELSE 0)
        /\ level'[d].reserved = level[d].reserved + 0
    <3>1. Moves(c, q, 0) /\ 0 \in Int
      BY <1>10 DEF Books
    <3> HIDE DEF c, q
    <3>2. /\ level'[d].onHand = level[d].onHand + (IF d = c THEN q ELSE 0)
          /\ level'[d].reserved = level[d].reserved + (IF d = c THEN 0 ELSE 0)
      BY <2>1, <3>1, MovesRows
    <3> QED
      BY <3>2
  <2>3. Units(Into(d))' = Units(Into(d)) + (IF d = c THEN q ELSE 0)
    <3>1. Into(d) \in SUBSET Receipt /\ x \in Receipt \ Into(d)
      BY DEF Into, TypeOK
    <3>2. Units(Into(d))' = Units(Into(d)')
      BY DEF Units
    <3>3. CASE d = x.cell
      <4>1. Into(d)' = Into(d) \cup {x}
        BY <1>10, <3>3 DEF Books, Into
      <4> QED
        BY <3>1, <3>2, <3>3, <4>1, ReceivedUnits
    <3>4. CASE d # x.cell
      <4>1. Into(d)' = Into(d)
        BY <1>10, <3>4 DEF Books, Into
      <4>2. Units(Into(d))' = Units(Into(d)) /\ d # c
        BY <3>2, <3>4, <4>1
      <4>3. Units(Into(d)) \in Int
        BY <1>0
      <4> HIDE DEF c, q
      <4> QED
        BY <4>2, <4>3
    <3> QED
      BY <3>3, <3>4
  <2>4. /\ HoldUnits(d, "active")' = HoldUnits(d, "active")
        /\ HoldUnits(d, "committed")' = HoldUnits(d, "committed")
        /\ drift'[d] = drift[d]
    BY <1>3, <1>10 DEF Books
  <2> HIDE DEF c, q
  <2> QED
    BY <1>0, <2>1, <2>2, <2>3, <2>4
<1> QED
  BY <1>4, <1>5, <1>7, <1>8, <1>9, <1>10 DEF BookStep

\* Each of the six leaves a row behind that refers to the cell it moved.
LEMMA StaysReferencing ==
    ASSUME TypeOK, Referencing, BookStep
    PROVE  Referencing'
<1>1. CASE Nothing
  BY <1>1 DEF Nothing, Referencing, TypeOK
<1>2. ASSUME NEW h \in Hold, NEW c \in Cell, NEW q \in 1..MaxQty,
             NEW k \in Key \cup {NoKey}, Holds(h, c, q, k)
      PROVE  Referencing'
  <2>1. q \in Int /\ 0 \in Int
    OBVIOUS
  <2>2. \A d \in Cell \ referenced' : level'[d] = level[d]
    BY <1>2, <2>1, MovesRows DEF Holds
  <2>3. \A g \in Hold : hold'[g] # NoRow => hold'[g].cell \in referenced'
    BY <1>2 DEF Holds, Moves, Referencing, TypeOK
  <2> QED
    BY <1>2, <2>2, <2>3 DEF Holds, Moves, Referencing
<1>3. ASSUME NEW h \in Hold, IsActive(h),
             NEW f \in {"released", "expired", "committed"}, NEW n \in Int,
             hold' = [hold EXCEPT ![h].state = f],
             Moves(hold[h].cell, n, -hold[h].qty),
             UNCHANGED received
      PROVE  Referencing'
  <2>1. hold[h] \in Row
    BY <1>3, SettledType
  <2>2. hold[h].cell \in Cell /\ -hold[h].qty \in Int
    BY <2>1 DEF Row
  <2>3. \A d \in Cell \ referenced' : level'[d] = level[d]
    BY <1>3, <2>2, MovesRows
  <2>4. \A g \in Hold : /\ g # h => hold'[g] = hold[g]
                        /\ hold'[g].cell = hold[g].cell
    BY <1>3, <2>1 DEF TypeOK, Row
  <2>5. \A g \in Hold : hold'[g] # NoRow => hold'[g].cell \in referenced'
    BY <1>3, <2>4 DEF Moves, Referencing, IsActive
  <2> QED
    BY <1>3, <2>3, <2>5 DEF Moves, Referencing
<1>4. ASSUME NEW h \in Hold, NEW f \in {"released", "expired"}, GivesBack(h, f)
      PROVE  Referencing'
  <2>1. /\ IsActive(h) /\ f \in {"released", "expired", "committed"}
        /\ 0 \in Int /\ hold' = [hold EXCEPT ![h].state = f]
        /\ Moves(hold[h].cell, 0, -hold[h].qty) /\ UNCHANGED received
    BY <1>4 DEF GivesBack
  <2> QED
    BY <1>3, <2>1
<1>5. ASSUME NEW h \in Hold, Sells(h)
      PROVE  Referencing'
  <2>1. hold[h] \in Row
    BY <1>5, SettledType DEF Sells
  <2>2. -hold[h].qty \in Int
    BY <2>1 DEF Row
  <2> QED
    BY <1>3, <1>5, <2>2 DEF Sells
<1>6. ASSUME NEW c \in Cell, NEW n \in Int, Corrects(c, n)
      PROVE  Referencing'
  <2>1. \A d \in Cell \ referenced' : level'[d] = level[d]
    BY <1>6, MovesRows DEF Corrects
  <2> QED
    BY <1>6, <2>1 DEF Corrects, Moves, Referencing
<1>7. ASSUME NEW x \in Receipt \ received, Books(x)
      PROVE  Referencing'
  <2>1. x.cell \in Cell /\ x.qty \in Int
    OBVIOUS
  <2>2. \A d \in Cell \ referenced' : level'[d] = level[d]
    BY <1>7, <2>1, MovesRows DEF Books
  <2> QED
    BY <1>7, <2>2 DEF Books, Moves, Referencing
<1> QED
  BY <1>1, <1>2, <1>4, <1>5, <1>6, <1>7 DEF BookStep

\* While an edit is open nothing else runs, so what it has loaded stays what
\* the row holds.
LEMMA EditsStayCurrent ==
    ASSUME ~EditsOverlap, TypeOK, EditsCurrent, [Next]_vars
    PROVE  EditsCurrent'
<1>1. CASE (\A c \in Cell : edit[c] = NoEdit) /\ Transaction
  <2>1. ASSUME NEW c \in Cell, EditLoad(c)
        PROVE  EditsCurrent'
    BY <1>1, <2>1 DEF EditLoad, EditsCurrent, TypeOK
  <2>2. ASSUME \A c \in Cell : edit'[c] = NoEdit
        PROVE  EditsCurrent'
    BY <2>2 DEF EditsCurrent
  <2>3. ASSUME NEW c \in Cell, NEW l, InsertRow(c, l)
        PROVE  EditsCurrent'
    BY <1>1, <2>2, <2>3 DEF InsertRow, TypeOK
  <2>4. ASSUME UNCHANGED edit
        PROVE  EditsCurrent'
    BY <1>1, <2>2, <2>4
  <2>5. ASSUME NEW c \in Cell, \E q \in 1..MaxQty : Create(c, q)
        PROVE  EditsCurrent'
    BY <2>4, <2>5 DEF Create
  <2>6. ASSUME NEW p \in Caller,
               \/ \E k \in Key, q \in 1..MaxQty : ReserveStockCheck(p, k, q)
               \/ ReserveStockInsert(p) \/ ReserveStockFails(p)
        PROVE  EditsCurrent'
    BY <2>4, <2>6 DEF ReserveStockCheck, ReserveStockInsert, ReserveStockFails
  <2>7. ASSUME NEW h \in Hold, Release(h) \/ Expire(h) \/ Commit(h)
        PROVE  EditsCurrent'
    BY <2>4, <2>7 DEF Release, Expire, Return, Commit
  <2>8. ASSUME NEW c \in Cell, NEW n \in Count, Audit(c, n)
        PROVE  EditsCurrent'
    BY <2>4, <2>8 DEF Audit
  <2>9. ASSUME NEW x \in Receipt, ReceiveIntoCell(x) \/ ReceiveFindsNoCell(x)
        PROVE  EditsCurrent'
    BY <2>4, <2>9 DEF ReceiveIntoCell, ReceiveFindsNoCell
  <2>10. ASSUME NEW x \in Receipt, ReceiveInsertsCell(x)
         PROVE  EditsCurrent'
    BY <2>3, <2>4, <2>10 DEF ReceiveInsertsCell
  <2>11. ASSUME NEW c \in Cell, CreateCell(c)
         PROVE  EditsCurrent'
    BY <2>3, <2>11 DEF CreateCell
  <2>12. ASSUME NEW c \in Cell, RemoveCheck(c) \/ RemoveDelete(c)
         PROVE  EditsCurrent'
    BY <2>4, <2>12 DEF RemoveCheck, RemoveDelete
  <2> QED
    BY <1>1, <2>1, <2>5, <2>6, <2>7, <2>8, <2>9, <2>10, <2>11, <2>12
       DEF Transaction
<1>2. ASSUME NEW c \in Cell, EditSave(c)
      PROVE  EditsCurrent'
  BY <1>2 DEF EditSave, EditsCurrent, TypeOK
<1>3. CASE UNCHANGED vars
  BY <1>3 DEF vars, EditsCurrent
<1> QED
  BY <1>1, <1>2, <1>3 DEF Next, Uninterrupted

-----------------------------------------------------------------------------
\* With the rows kept in their cells, the ground the books stand on is inductive.
LEMMA GroundedAlways == ASSUME ~EditsOverlap PROVE Spec => []Grounded
<1>1. Init => Referencing /\ EditsCurrent
  BY DEF Init, Referencing, EditsCurrent
<1>2. TypeOK /\ NoOrphanRows /\ Referencing /\ EditsCurrent /\ [Next]_vars
         => Referencing' /\ EditsCurrent'
  BY StepBooks, StaysReferencing, EditsStayCurrent DEF Grounded
<1>3. NoOrphanRows /\ Referencing /\ EditsCurrent => Grounded
  BY DEF Grounded
<1> QED
  BY <1>1, <1>2, <1>3, TypeCorrect, RowsKeepTheirCell, PTL DEF Spec


\* And on that ground, so is the balance.
LEMMA BalancedAlways == ASSUME ~EditsOverlap PROVE Spec => []Balanced
<1>1. Init => Balanced
  <2> SUFFICES ASSUME Init, NEW c \in Cell
               PROVE  /\ level[c].reserved = HoldUnits(c, "active")
                      /\ level[c].onHand = Units(Into(c))
                            - HoldUnits(c, "committed") + drift[c]
    BY DEF Balanced, ReservedMatchesHolds, StockConserved, Into
  <2>1. /\ HoldsOf(c, "active") = {} /\ HoldsOf(c, "committed") = {}
        /\ Into(c) = {}
    BY DEF Init, HoldsOf, Into
  <2>2. /\ HoldUnits(c, "active") = 0 /\ HoldUnits(c, "committed") = 0
        /\ Units({}) = 0
    BY <2>1, SumOfNone DEF HoldUnits, Units
  <2>3. level[c].reserved = 0 /\ level[c].onHand = 0 /\ drift[c] = 0
    BY DEF Init, Empty
  <2> QED
    BY <2>1, <2>2, <2>3
<1>2. TypeOK /\ Grounded /\ Balanced /\ [Next]_vars => Balanced'
  BY StepBooks, StaysBalanced
<1> QED
  BY <1>1, <1>2, TypeCorrect, GroundedAlways, PTL DEF Spec

\* For every number of holds, concurrent calls, redeliveries and audits, the
\* reserved column of a cell is the units of its active holds: none is given
\* back twice, and none is kept after its hold is settled
\* (reservations.service.ts).
THEOREM ReservedIsHeld == ASSUME ~EditsOverlap PROVE Spec => []ReservedMatchesHolds
<1>1. Balanced => ReservedMatchesHolds
  BY DEF Balanced
<1> QED
  BY <1>1, BalancedAlways, PTL

\* And every unit on hand is one that a receipt brought in once, less what
\* commits have sold, give or take what audits found
\* (stock-movements.service.ts, purchasing-events.consumer.ts).
THEOREM StockIsAccountedFor == ASSUME ~EditsOverlap PROVE Spec => []StockConserved
<1>1. Balanced => StockConserved
  BY DEF Balanced
<1> QED
  BY <1>1, BalancedAlways, PTL

-----------------------------------------------------------------------------
\* The step announces every threshold it crosses.
Announced ==
    \A c \in Cell, r \in Rule :
        (c \in referenced' /\ ~Matches(Available(c), r)
           /\ Matches(AvailableIn(level'[c]), r)) => <<c, r>> \in emitted'

\* One movement announces what it crosses.
LEMMA RecordAnnounces ==
    ASSUME TypeOK, NEW c \in Cell, NEW kind, NEW delta, Record(c, kind, delta)
    PROVE  Announced
<1>1. /\ level' = [level EXCEPT ![c] = Moved(level[c], kind, delta)]
      /\ emitted' = Crossings(c, level[c], Moved(level[c], kind, delta))
  BY DEF Record
<1>2. level'[c] = Moved(level[c], kind, delta)
  BY <1>1 DEF TypeOK
<1>3. \A d \in Cell : d # c => level'[d] = level[d]
  BY <1>1 DEF TypeOK
<1> QED
  BY <1>1, <1>2, <1>3 DEF Announced, Crossings, Available

\* A step that keeps every row crosses nothing.
LEMMA StillAnnounces == ASSUME level' = level PROVE Announced
BY DEF Announced, Available

\* However many movements of however many cells, alert levels and reorder
\* levels: what a transaction crosses it announces, the second movement of a
\* commit included (stock-movements.service.ts, record()).
THEOREM CrossingsAreAnnounced == ASSUME ~EditsOverlap PROVE Spec => CrossingsAnnounced
<1>1. TypeOK /\ Grounded /\ [Next]_vars => [Announced]_vars
  <2> SUFFICES ASSUME TypeOK, Grounded, [Next]_vars
               PROVE  Announced
    OBVIOUS
  <2> USE DEF Grounded
  <2>1. ASSUME NEW c \in Cell, NEW q, NEW k, Insert(c, q, k)
        PROVE  Announced
    BY <2>1, RecordAnnounces DEF Insert
  <2>2. ASSUME NEW c \in Cell, NEW q \in 1..MaxQty, Create(c, q)
        PROVE  Announced
    BY <2>1, <2>2 DEF Create
  <2>3. ASSUME NEW p \in Caller, ReserveStockInsert(p)
        PROVE  Announced
    <3>1. call[p] \in InFlight
      BY <2>3 DEF ReserveStockInsert, TypeOK
    <3>2. call[p].cell \in Cell
      BY <3>1 DEF InFlight
    <3> QED
      BY <2>1, <2>3, <3>2, StillAnnounces DEF ReserveStockInsert
  <2>4. ASSUME NEW p \in Caller,
               \/ \E k \in Key, q \in 1..MaxQty : ReserveStockCheck(p, k, q)
               \/ ReserveStockFails(p)
        PROVE  Announced
    BY <2>4, StillAnnounces DEF ReserveStockCheck, ReserveStockFails
  <2>5. ASSUME NEW h \in Hold, NEW f \in {"released", "expired"}, Return(h, f)
        PROVE  Announced
    <3>1. hold[h] \in Row
      BY <2>5, SettledType DEF Return
    <3>2. hold[h].cell \in Cell
      BY <3>1 DEF Row
    <3> QED
      BY <2>5, <3>2, RecordAnnounces DEF Return
  <2>6. ASSUME NEW h \in Hold, Commit(h)
        PROVE  Announced
    <3> DEFINE c == hold[h].cell
               q == hold[h].qty
               mid == Moved(level[c], "release", -q)
               last == Moved(mid, "sale", -q)
    <3>1. hold[h] \in Row
      BY <2>6, SettledType DEF Commit
    <3>2. c \in Cell
      BY <3>1 DEF Row
    <3>3. /\ level' = [level EXCEPT ![c] = last]
          /\ emitted' = Crossings(c, level[c], mid) \cup Crossings(c, mid, last)
      BY <2>6 DEF Commit
    <3> HIDE DEF mid, last
    <3>4. level'[c] = last /\ \A d \in Cell : d # c => level'[d] = level[d]
      BY <3>2, <3>3 DEF TypeOK
    <3>5. \A r \in Rule :
             ~Matches(AvailableIn(level[c]), r) /\ Matches(AvailableIn(last), r)
                => <<c, r>> \in emitted'
      BY <3>2, <3>3 DEF Crossings
    <3> QED
      BY <3>2, <3>4, <3>5 DEF Announced, Available
  <2>7. ASSUME NEW c \in Cell, NEW n \in Count, Audit(c, n)
        PROVE  Announced
    BY <2>7, RecordAnnounces, StillAnnounces DEF Audit
  <2>8. ASSUME NEW x \in Receipt, ReceiveIntoCell(x) \/ ReceiveFindsNoCell(x)
        PROVE  Announced
    <3>1. x.cell \in Cell
      OBVIOUS
    <3> QED
      BY <2>8, <3>1, RecordAnnounces, StillAnnounces
         DEF ReceiveIntoCell, ReceiveFindsNoCell
  <2>9. ASSUME NEW x \in Receipt, ReceiveInsertsCell(x)
        PROVE  Announced
    <3>1. CASE x.cell \in present
      BY <2>9, <3>1, StillAnnounces DEF ReceiveInsertsCell
    <3>2. CASE x.cell \notin present
      <4> DEFINE after == Moved(Empty, "purchase_receipt", x.qty)
      <4>1. x.cell \in Cell /\ x.cell \notin referenced
        BY <3>2 DEF NoOrphanRows
      <4>2. level[x.cell] = Empty
        BY <4>1 DEF Referencing
      <4>3. /\ level' = [level EXCEPT ![x.cell] = after]
            /\ emitted' = Crossings(x.cell, Empty, after)
        BY <2>9, <3>2 DEF ReceiveInsertsCell, InsertRow
      <4>4. level'[x.cell] = after
        BY <4>1, <4>3 DEF TypeOK
      <4>5. \A d \in Cell : d # x.cell => level'[d] = level[d]
        BY <4>3 DEF TypeOK
      <4> HIDE DEF after
      <4> QED
        BY <4>1, <4>2, <4>3, <4>4, <4>5 DEF Announced, Available, Crossings
    <3> QED
      BY <3>1, <3>2
  <2>10. ASSUME NEW c \in Cell, CreateCell(c)
         PROVE  Announced
    <3>1. level[c] = Empty
      BY <2>10 DEF CreateCell, InsertRow, NoOrphanRows, Referencing
    <3>2. level' = level
      BY <2>10, <3>1 DEF CreateCell, InsertRow, TypeOK
    <3> QED
      BY <3>2, StillAnnounces
  <2>11. ASSUME NEW c \in Cell, EditSave(c)
         PROVE  Announced
    <3>1. level' = level
      BY <2>11 DEF EditSave, EditsCurrent, TypeOK
    <3> QED
      BY <3>1, StillAnnounces
  <2>12. ASSUME NEW c \in Cell, EditLoad(c) \/ RemoveCheck(c) \/ RemoveDelete(c)
         PROVE  Announced
    BY <2>12, StillAnnounces DEF EditLoad, RemoveCheck, RemoveDelete
  <2>13. CASE UNCHANGED vars
    BY <2>13, StillAnnounces DEF vars
  <2> QED
    BY <2>2, <2>3, <2>4, <2>5, <2>6, <2>7, <2>8, <2>9, <2>10, <2>11, <2>12,
       <2>13 DEF Next, Transaction, Release, Expire
<1>2. [Announced]_vars => [\A c \in Cell, r \in Rule :
          (c \in referenced' /\ ~Matches(Available(c), r)
             /\ Matches(AvailableIn(level'[c]), r)) => <<c, r>> \in emitted']_vars
  BY DEF Announced
<1> QED
  BY <1>1, <1>2, TypeCorrect, GroundedAlways, PTL DEF Spec, CrossingsAnnounced
=============================================================================
