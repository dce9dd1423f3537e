----------------------------- MODULE GoodsProofs -----------------------------
(***************************************************************************)
(* What holds of the counts of goods that one service keeps and another    *)
(* follows by messages: of Procurement for every set of orders, lines,     *)
(* receipts, rules and executions, quantity ordered and number of crashes; *)
(* and of Shipping for every set of shipments, fulfillments, lines and     *)
(* executions, quantities ordered and number of crashes.                   *)
(*                                                                         *)
(* The two share no state.  Of Shipping, what order-service keeps and its  *)
(* promise are extended, and the rest is instantiated: MaxCrash, work and  *)
(* crashes, which both modules declare, are the ones of Procurement here,  *)
(* and no theorem is about both.                                           *)
(***************************************************************************)
EXTENDS Procurement, OrderFulfillment, Sums, Functions, SequenceTheorems, TLAPS

CONSTANTS Shipment, Unlinked, Proc

VARIABLES shipment, created, armed, stamped

Shp == INSTANCE Shipping

USE ProcurementAssumption

\* What an execution carries with it.
LEMMA WorkFields ==
    ASSUME TypeOK, NEW p \in Staff \cup Handler
    PROVE  /\ At(p, "saving") =>
                 /\ work[p].po \in Po /\ work[p].row \in Row
                 /\ work[p].lines \in Seq(Entry)
           /\ At(p, "applying") =>
                 /\ work[p].event \in Event /\ work[p].next \in Nat
                 /\ work[p] \in [pc : {"applying"}, event : Event, next : Nat]
<1>1. work[p] \in {Idle} \cup Work
  BY DEF TypeOK
<1> QED
  BY <1>1 DEF Idle, Work, At

\* A step of one execution leaves the others where they are.
LEMMA DoOthers ==
    ASSUME TypeOK, NEW p \in Staff \cup Handler, NEW w, Do(p, w)
    PROVE  /\ work'[p] = w
           /\ \A q \in Staff \cup Handler : q # p => work'[q] = work[q]
BY DEF TypeOK, Do

LEMMA DoType ==
    ASSUME TypeOK, NEW p \in Staff \cup Handler,
           NEW w \in {Idle} \cup Work, Do(p, w)
    PROVE  work' \in [Staff \cup Handler -> {Idle} \cup Work]
BY DEF TypeOK, Do

\* The entries of a request name lines and quantities.
LEMMA EntriesType ==
    ASSUME NEW entries \in Receipt
    PROVE  /\ Len(entries) \in Nat /\ DOMAIN entries = 1..Len(entries)
           /\ entries = <<>> <=> Len(entries) = 0
           /\ \A i \in DOMAIN entries :
                 /\ entries[i].line \in PoLine
                 /\ entries[i].qty \in Nat /\ entries[i].qty > 0
<1> DEFINE E == [line : PoLine, qty : Nat \ {0}]
<1>1. entries \in Seq(E)
  OBVIOUS
<1>2. \A n \in E : n.line \in PoLine /\ n.qty \in Nat /\ n.qty > 0
  OBVIOUS
<1> HIDE DEF E
<1>3. /\ Len(entries) \in Nat /\ DOMAIN entries = 1..Len(entries)
      /\ entries = <<>> <=> Len(entries) = 0
  BY <1>1, LenProperties, EmptySeq
<1>4. \A i \in 1..Len(entries) : entries[i] \in E
  BY <1>1, ElementOfSeq
<1> QED
  BY <1>2, <1>3, <1>4

\* What a request receives of a line is a number of units, and just those of
\* its entry when no line is entered twice.
LEMMA ReceivedNowType ==
    ASSUME NEW entries \in Receipt, NEW l
    PROVE  ReceivedNow(entries, l) \in Nat
<1> DEFINE S == {i \in DOMAIN entries : entries[i].line = l}
           qty == [i \in DOMAIN entries |-> entries[i].qty]
<1>1. \A i \in DOMAIN entries : entries[i].qty \in Nat
  BY EntriesType
<1>2. DOMAIN entries = 1..Len(entries) /\ Len(entries) \in Nat
  BY EntriesType
<1>3. IsFiniteSet(1..Len(entries))
  BY <1>2, FS_Interval
<1>4. IsFiniteSet(S)
  BY <1>2, <1>3, FS_Subset
<1>5. \A i \in S : qty[i] \in Nat
  BY <1>1
<1>6. ReceivedNow(entries, l) = SumFunctionOnSet(qty, S)
  BY DEF ReceivedNow
<1> HIDE DEF S, qty
<1>7. IsFiniteSet(S) /\ (\A i \in S : qty[i] \in Nat) /\ S \in SUBSET S
  BY <1>4, <1>5
<1> QED
  BY <1>6, <1>7, SumOfPart

LEMMA ReceivedNowOfEntry ==
    ASSUME NEW entries \in Receipt, NEW i \in DOMAIN entries,
           \A j \in DOMAIN entries : entries[j].line = entries[i].line => j = i
    PROVE  ReceivedNow(entries, entries[i].line) = entries[i].qty
<1> DEFINE qty == [j \in DOMAIN entries |-> entries[j].qty]
<1>1. entries[i].qty \in Nat
  BY EntriesType
<1>2. {j \in DOMAIN entries : entries[j].line = entries[i].line} = {} \cup {i}
  OBVIOUS
<1>3. ReceivedNow(entries, entries[i].line) = SumFunctionOnSet(qty, {} \cup {i})
  BY <1>2 DEF ReceivedNow
<1>4. qty[i] = entries[i].qty /\ qty[i] \in Int
  BY <1>1
<1> HIDE DEF qty
<1>5. i \notin {} /\ Summable(qty, {}) /\ qty[i] \in Int
  BY <1>4, FS_EmptySet DEF Summable
<1>6. SumFunctionOnSet(qty, {} \cup {i}) = SumFunctionOnSet(qty, {}) + qty[i]
  BY <1>5, SumWith
<1>7. SumFunctionOnSet(qty, {}) = 0
  BY SumOfNone
<1> QED
  BY <1>3, <1>4, <1>6, <1>7

-----------------------------------------------------------------------------
\* A handler is always at a line of a recorded event.
Applying ==
    /\ \A e \in events : e.lines # <<>>
    /\ \A p \in Staff \cup Handler : At(p, "applying") =>
          /\ p \in Handler /\ work[p].event \in events
          /\ work[p].next \in 1..Len(work[p].event.lines)

LEMMA TypePreserved ==
    ASSUME TypeOK, Applying, [Next]_vars
    PROVE  TypeOK'
<1>1. ASSUME NEW x \in Po, NEW r \in Rule \cup {NoRule}, Create(x, r)
      PROVE  TypeOK'
  <2>1. po[x] \in Row
    BY DEF TypeOK
  <2> DEFINE named == [po EXCEPT ![x].status = "draft"]
  <2>2. [po[x] EXCEPT !.status = "draft"] \in Row
    BY <2>1 DEF Row, Status
  <2>3. named \in [Po -> Row]
    BY <2>2 DEF TypeOK
  <2>4. po' = [named EXCEPT ![x].rule = r]
    BY <1>1 DEF Create
  <2> HIDE DEF named
  <2>5. [named[x] EXCEPT !.rule = r] \in Row
    BY <2>3 DEF Row
  <2>6. po' \in [Po -> Row]
    BY <2>3, <2>4, <2>5
  <2> QED
    BY <1>1, <2>6 DEF Create, TypeOK
<1>2. ASSUME NEW p \in Staff, NEW x \in Po, NEW row \in Row,
             NEW lines \in Seq(Entry), Load(p, x, row, lines)
      PROVE  TypeOK'
  <2>1. [pc |-> "saving", po |-> x, row |-> row, lines |-> lines]
           \in {Idle} \cup Work
    BY DEF Work
  <2>2. work' \in [Staff \cup Handler -> {Idle} \cup Work]
    BY <1>2, <2>1, DoType DEF Load
  <2> QED
    BY <1>2, <2>2 DEF Load, TypeOK
<1>3. ASSUME NEW p \in Staff, NEW x \in Po, Update(p, x)
      PROVE  TypeOK'
  <2>1. po[x] \in Row /\ <<>> \in Seq(Entry)
    BY DEF TypeOK
  <2> QED
    BY <1>2, <1>3, <2>1 DEF Update
<1>4. ASSUME NEW p \in Staff, NEW x \in Po,
             NEW to \in {"sent", "confirmed", "canceled"}, Move(p, x, to)
      PROVE  TypeOK'
  <2>1. po[x] \in Row /\ to \in Status /\ <<>> \in Seq(Entry)
    BY DEF TypeOK, Status
  <2>2. [po[x] EXCEPT !.status = to] \in Row
    BY <2>1 DEF Row
  <2> QED
    BY <1>2, <1>4, <2>1, <2>2 DEF Move
<1>5. ASSUME NEW p \in Staff, NEW x \in Po, NEW entries \in Receipt,
             Receive(p, x, entries)
      PROVE  TypeOK'
  <2> DEFINE total == [l \in PoLine |->
                          po[x].receivedQty[l] + ReceivedNow(entries, l)]
             status == IF \A l \in PoLine : total[l] >= OrderedQty
                       THEN "received" ELSE "partially_received"
             lines == [i \in DOMAIN entries |->
                          [line |-> entries[i].line, qty |-> entries[i].qty,
                           receivedQty |-> total[entries[i].line]]]
  <2>1. po[x] \in Row
    BY DEF TypeOK
  <2>2. \A l \in PoLine : total[l] \in 0..OrderedQty
    BY <1>5, <2>1, ReceivedNowType DEF Receive, Row
  <2>3. total \in [PoLine -> 0..OrderedQty] /\ status \in Status
    BY <2>2 DEF Status
  <2>4. /\ Len(entries) \in Nat /\ DOMAIN entries = 1..Len(entries)
        /\ \A i \in DOMAIN entries :
              entries[i].line \in PoLine /\ entries[i].qty \in Nat
    BY EntriesType
  <2> HIDE DEF total, status
  <2>5. [po[x] EXCEPT !.status = status, !.receivedQty = total] \in Row
    BY <2>1, <2>3 DEF Row
  <2>6. lines \in Seq(Entry)
    <3>1. \A i \in DOMAIN entries :
             [line |-> entries[i].line, qty |-> entries[i].qty,
              receivedQty |-> total[entries[i].line]] \in Entry
      BY <2>3, <2>4 DEF Entry
    <3>2. lines \in [1..Len(entries) -> Entry]
      BY <2>4, <3>1
    <3> QED
      BY <2>4, <3>2
  <2> HIDE DEF lines
  <2>7. Load(p, x, [po[x] EXCEPT !.status = status, !.receivedQty = total], lines)
    BY <1>5 DEF Receive, total, status, lines
  <2> QED
    BY <1>2, <2>5, <2>6, <2>7
<1>6. ASSUME NEW p \in Staff, Save(p)
      PROVE  TypeOK'
  <2> DEFINE w == work[p]
             x == w.po
             mine == {w.lines[i].line : i \in DOMAIN w.lines}
             qty == [l \in PoLine |-> IF l \in mine THEN w.row.receivedQty[l]
                                    ELSE po[x].receivedQty[l]]
             rows == [po EXCEPT ![x] = [w.row EXCEPT !.receivedQty = qty]]
             new == IF w.lines = <<>> THEN {} ELSE {[po |-> x, lines |-> w.lines]}
  <2>1. x \in Po /\ w.row \in Row /\ w.lines \in Seq(Entry) /\ po[x] \in Row
    BY <1>6, WorkFields DEF Save, TypeOK
  <2>2. qty \in [PoLine -> 0..OrderedQty]
    BY <2>1 DEF Row
  <2> HIDE DEF qty
  <2>3. [w.row EXCEPT !.receivedQty = qty] \in Row
    BY <2>1, <2>2 DEF Row
  <2>4. rows \in [Po -> Row] /\ new \subseteq Event
    BY <2>1, <2>3 DEF TypeOK, Event
  <2>5. work' \in [Staff \cup Handler -> {Idle} \cup Work]
    BY <1>6, DoType DEF Save
  <2>6. \/ po' = rows /\ events' = events \cup new /\ unacked' = unacked \cup new
        \/ UNCHANGED <<po, events, unacked>>
    BY <1>6 DEF Save, qty
  <2> HIDE DEF rows, new
  <2> QED
    BY <1>6, <2>4, <2>5, <2>6 DEF Save, TypeOK
<1>7. ASSUME NEW p \in Handler, NEW e \in events, Deliver(p, e)
      PROVE  TypeOK'
  <2>1. [pc |-> "applying", event |-> e, next |-> 1] \in {Idle} \cup Work
    BY DEF Work, TypeOK
  <2>2. work' \in [Staff \cup Handler -> {Idle} \cup Work]
    BY <1>7, <2>1, DoType DEF Deliver
  <2> QED
    BY <1>7, <2>2 DEF Deliver, TypeOK
<1>8. ASSUME NEW p \in Handler, ApplyLine(p)
      PROVE  TypeOK'
  <2> DEFINE e == work[p].event
             n == e.lines[work[p].next]
  <2>1. e \in Event /\ work[p].next \in Nat
        /\ work[p] \in [pc : {"applying"}, event : Event, next : Nat]
    BY <1>8, WorkFields DEF ApplyLine
  <2>2. n \in Entry /\ e.po \in Po
    <3>1. work[p].next \in 1..Len(e.lines) /\ e.lines \in Seq(Entry)
      BY <1>8, <2>1 DEF Event, ApplyLine, Applying
    <3> QED
      BY <2>1, <3>1 DEF Event
  <2>3. n.line \in PoLine /\ n.qty \in Nat /\ n.receivedQty \in 0..OrderedQty
    BY <2>2 DEF Entry
  <2>4. Record(e.po, n)
    BY <1>8 DEF ApplyLine
  <2>5. refs' \subseteq Po \X PoLine \X (0..OrderedQty)
    <3> HIDE DEF e, n
    <3>1. Ref(e.po, n) \in Po \X PoLine \X (0..OrderedQty)
      BY <2>2, <2>3 DEF Ref
    <3>2. refs \subseteq Po \X PoLine \X (0..OrderedQty)
      BY DEF TypeOK
    <3>3. refs' = refs \/ refs' = refs \cup {Ref(e.po, n)}
      BY <2>4 DEF Record
    <3> QED
      BY <3>1, <3>2, <3>3
  <2>6. stocked' \in [Po -> [PoLine -> Nat]]
    <3> HIDE DEF e, n
    <3>1. stocked[e.po] \in [PoLine -> Nat]
      BY <2>2 DEF TypeOK
    <3>2. stocked[e.po][n.line] + n.qty \in Nat
      BY <2>3, <3>1
    <3>3. [stocked[e.po] EXCEPT ![n.line] = stocked[e.po][n.line] + n.qty]
             \in [PoLine -> Nat]
      BY <3>1, <3>2
    <3> QED
      BY <2>2, <2>4, <3>3 DEF Record, TypeOK
  <2>7. [work[p] EXCEPT !.next = @ + 1] \in {Idle} \cup Work
    BY <2>1 DEF Work
  <2>8. \/ Do(p, Idle) /\ unacked' = unacked \ {e}
        \/ Do(p, [work[p] EXCEPT !.next = @ + 1]) /\ UNCHANGED unacked
    BY <1>8 DEF ApplyLine
  <2>9. work' \in [Staff \cup Handler -> {Idle} \cup Work]
    BY <2>7, <2>8, DoType
  <2>10. unacked' \subseteq events
    BY <2>8 DEF TypeOK
  <2> QED
    BY <1>8, <2>5, <2>6, <2>9, <2>10 DEF ApplyLine, TypeOK
<1>9. ASSUME NEW p \in Staff \cup Handler, Crash(p)
      PROVE  TypeOK'
  <2>1. work' \in [Staff \cup Handler -> {Idle} \cup Work]
    BY <1>9, DoType DEF Crash
  <2> QED
    BY <1>9, <2>1 DEF Crash, TypeOK
<1>10. CASE UNCHANGED vars
  BY <1>10 DEF vars, TypeOK
<1> QED
  BY <1>1, <1>3, <1>4, <1>5, <1>6, <1>7, <1>8, <1>9, <1>10
     DEF Next, ReorderTriggered

\* Sequences of entries, in a recorded event and in an execution's hands.
LEMMA LinesType ==
    ASSUME NEW lines \in Seq(Entry)
    PROVE  /\ Len(lines) \in Nat /\ DOMAIN lines = 1..Len(lines)
           /\ lines # <<>> => 1 \in 1..Len(lines)
           /\ \A i \in DOMAIN lines :
                 /\ lines[i] \in Entry
                 /\ lines[i].line \in PoLine /\ lines[i].qty \in Nat
                 /\ lines[i].receivedQty \in 0..OrderedQty
<1>1. \A n \in Entry :
         n.line \in PoLine /\ n.qty \in Nat /\ n.receivedQty \in 0..OrderedQty
  BY DEF Entry
<1>2. /\ Len(lines) \in Nat /\ DOMAIN lines = 1..Len(lines)
      /\ lines # <<>> => Len(lines) \in Nat \ {0}
  BY LenProperties, EmptySeq
<1>3. \A i \in 1..Len(lines) : lines[i] \in Entry
  BY ElementOfSeq
<1> QED
  BY <1>1, <1>2, <1>3

LEMMA ApplyingPreserved ==
    ASSUME TypeOK, Applying, [Next]_vars
    PROVE  Applying'
<1>1. ASSUME NEW p \in Staff, NEW x, NEW row, NEW lines, Load(p, x, row, lines)
      PROVE  Applying'
  BY <1>1, DoOthers DEF Load, At, Applying
<1>2. ASSUME NEW x \in Po, NEW r, Create(x, r)
      PROVE  Applying'
  BY <1>2 DEF Create, At, Applying
<1>3. ASSUME NEW p \in Staff, Save(p)
      PROVE  Applying'
  <2>1. /\ work'[p] = Idle
        /\ \A q \in Staff \cup Handler : q # p => work'[q] = work[q]
    BY <1>3, DoOthers DEF Save
  <2>2. \A e \in events' : e \in events \/ e.lines # <<>>
    BY <1>3 DEF Save
  <2>3. events \subseteq events'
    BY <1>3 DEF Save
  <2> QED
    BY <2>1, <2>2, <2>3 DEF At, Idle, Applying
<1>4. ASSUME NEW p \in Handler, NEW e \in events, Deliver(p, e)
      PROVE  Applying'
  <2>1. /\ work'[p] = [pc |-> "applying", event |-> e, next |-> 1]
        /\ \A q \in Staff \cup Handler : q # p => work'[q] = work[q]
    BY <1>4, DoOthers DEF Deliver
  <2>2. e.lines # <<>> /\ e.lines \in Seq(Entry)
    BY DEF Applying, TypeOK, Event
  <2>3. 1 \in 1..Len(e.lines)
    BY <2>2, LinesType
  <2>4. events' = events
    BY <1>4 DEF Deliver
  <2> QED
    BY <2>1, <2>3, <2>4 DEF At, Applying
<1>5. ASSUME NEW p \in Handler, ApplyLine(p)
      PROVE  Applying'
  <2> DEFINE e == work[p].event
             w == [work[p] EXCEPT !.next = @ + 1]
  <2>1. /\ e \in Event /\ e \in events /\ work[p].next \in 1..Len(e.lines)
        /\ work[p] \in [pc : {"applying"}, event : Event, next : Nat]
    BY <1>5, WorkFields DEF ApplyLine, Applying
  <2>2. Len(e.lines) \in Nat
    BY <2>1, LinesType DEF Event
  <2>3. w.event = e /\ w.next = work[p].next + 1
    BY <2>1
  <2>4. events' = events
    BY <1>5 DEF ApplyLine
  <2>5. CASE Do(p, Idle)
    BY <2>4, <2>5, DoOthers DEF At, Idle, Applying
  <2>6. CASE work[p].next # Len(e.lines) /\ Do(p, w)
    <3>1. /\ work'[p] = w
          /\ \A q \in Staff \cup Handler : q # p => work'[q] = work[q]
      BY <2>6, DoOthers
    <3>2. w.next \in 1..Len(e.lines)
      BY <2>1, <2>2, <2>3, <2>6
    <3> HIDE DEF w
    <3> QED
      BY <2>1, <2>3, <2>4, <3>1, <3>2 DEF At, Applying
  <2> QED
    BY <1>5, <2>5, <2>6 DEF ApplyLine
<1>6. ASSUME NEW p \in Staff \cup Handler, Crash(p)
      PROVE  Applying'
  BY <1>6, DoOthers DEF Crash, At, Idle, Applying
<1>7. CASE UNCHANGED vars
  BY <1>7 DEF vars, At, Applying
<1> QED
  BY <1>1, <1>2, <1>3, <1>4, <1>5, <1>6, <1>7
     DEF Next, ReorderTriggered, Update, Move, Receive

\* Type correctness: no overlap of requests and no repeated receipt takes
\* received_qty past the ordered quantity, and a handler is always at a line
\* of a recorded event (purchase-orders.service.ts, receive()).
THEOREM PurchasingTypeCorrect == Spec => [](TypeOK /\ Applying)
<1>1. Init => TypeOK /\ Applying
  BY DEF Init, TypeOK, Row, Status, Event, Applying, At, Idle
<1>2. TypeOK /\ Applying /\ [Next]_vars => TypeOK' /\ Applying'
  BY TypePreserved, ApplyingPreserved
<1> QED
  BY <1>1, <1>2, PTL DEF Spec

-----------------------------------------------------------------------------
(* The entries of an order's recorded receipts, line by line: each is      *)
(* numbered by the received_qty it has reached, and what was received is   *)
(* their sum.                                                              *)

\* No two requests that are to save a receipt of the same line have both read
\* what was received of it before.
Apart ==
    \A p, q \in Staff :
        (/\ At(p, "saving") /\ At(q, "saving") /\ work[p].po = work[q].po
         /\ \E i \in DOMAIN work[p].lines, j \in DOMAIN work[q].lines :
               work[p].lines[i].line = work[q].lines[j].line) => p = q

LinesOnce == \A entries \in Receipt : \A i, j \in DOMAIN entries :
                entries[i].line = entries[j].line => i = j

Entries(x, l) ==
    {n \in UNION {Range(e.lines) : e \in {f \in events : f.po = x}} : n.line = l}
Booked(x, l)  == {n \in Entries(x, l) : Ref(x, n) \in refs}
Total(S)      == SumFunctionOnSet([n \in Entry |-> n.qty], S)

Numbered ==
    \A x \in Po, l \in PoLine :
        /\ IsFiniteSet(Entries(x, l))
        /\ \A n \in Entries(x, l) : n.receivedQty <= po[x].receivedQty[l]
        /\ \A n, m \in Entries(x, l) : n.receivedQty = m.receivedQty => n = m
        /\ \A q \in 0..OrderedQty :
              <<x, l, q>> \in refs => q <= po[x].receivedQty[l]

Summed ==
    \A x \in Po, l \in PoLine :
        /\ po[x].receivedQty[l] = Total(Entries(x, l))
        /\ stocked[x][l] = Total(Booked(x, l))

\* An acknowledged event is in the ledger with every line, one that is being
\* applied with the lines before the next.
Delivered ==
    /\ \A e \in events \ unacked :
          \A i \in DOMAIN e.lines : Ref(e.po, e.lines[i]) \in refs
    /\ \A p \in Handler : At(p, "applying") =>
          \A i \in 1..(work[p].next - 1) :
             Ref(work[p].event.po, work[p].event.lines[i]) \in refs

\* What a request is about to save continues the count from what is stored.
Saving ==
    \A p \in Staff : At(p, "saving") =>
       /\ \A i \in DOMAIN work[p].lines :
             /\ work[p].lines[i].qty > 0
             /\ work[p].lines[i].receivedQty =
                   po[work[p].po].receivedQty[work[p].lines[i].line]
                      + work[p].lines[i].qty
             /\ work[p].row.receivedQty[work[p].lines[i].line] =
                   work[p].lines[i].receivedQty
       /\ \A i, j \in DOMAIN work[p].lines :
             work[p].lines[i].line = work[p].lines[j].line => i = j

-----------------------------------------------------------------------------
\* The sum of entries.
LEMMA TotalType ==
    ASSUME NEW S \in SUBSET Entry, IsFiniteSet(S), NEW T \in SUBSET S
    PROVE  Total(T) \in Nat /\ Total(S) \in Nat /\ Total(T) <= Total(S)
<1> DEFINE qty == [n \in Entry |-> n.qty]
<1>1. \A n \in S : qty[n] \in Nat
  BY DEF Entry
<1>2. \A U \in SUBSET S : Total(U) = SumFunctionOnSet(qty, U)
  BY DEF Total
<1> HIDE DEF qty
<1>3. IsFiniteSet(S) /\ (\A n \in S : qty[n] \in Nat) /\ S \in SUBSET S
  BY <1>1
<1>4. /\ SumFunctionOnSet(qty, S) \in Nat
      /\ SumFunctionOnSet(qty, T) \in Nat
      /\ SumFunctionOnSet(qty, T) <= SumFunctionOnSet(qty, S)
  BY <1>3, SumOfPart
<1> QED
  BY <1>2, <1>4

LEMMA TotalWith ==
    ASSUME NEW S \in SUBSET Entry, IsFiniteSet(S), NEW n \in Entry \ S
    PROVE  Total(S \cup {n}) = Total(S) + n.qty
<1> DEFINE qty == [m \in Entry |-> m.qty]
<1>1. qty[n] = n.qty /\ qty[n] \in Int /\ \A m \in S : qty[m] \in Int
  BY DEF Entry
<1>2. \A U : Total(U) = SumFunctionOnSet(qty, U)
  BY DEF Total
<1> HIDE DEF qty
<1>3. n \notin S /\ Summable(qty, S) /\ qty[n] \in Int
  BY <1>1 DEF Summable
<1>4. SumFunctionOnSet(qty, S \cup {n}) = SumFunctionOnSet(qty, S) + qty[n]
  BY <1>3, SumWith
<1> QED
  BY <1>1, <1>2, <1>4

LEMMA EntriesAreOfLine ==
    ASSUME TypeOK
    PROVE  /\ \A x \in Po, l \in PoLine :
                 /\ Entries(x, l) \in SUBSET Entry
                 /\ \A n \in Entries(x, l) :
                       n.line = l /\ n.qty \in Nat /\ n.receivedQty \in 0..OrderedQty
           /\ \A e \in events : \A i \in DOMAIN e.lines :
                 /\ e.po \in Po /\ e.lines[i].line \in PoLine
                 /\ e.lines[i] \in Entries(e.po, e.lines[i].line)
           /\ \A x \in Po, l \in PoLine : \A n \in Entries(x, l) :
                 \E e \in events :
                    e.po = x /\ \E i \in DOMAIN e.lines : n = e.lines[i]
<1>1. \A e \in events : e.po \in Po /\ e.lines \in Seq(Entry)
  BY DEF TypeOK, Event
<1>2. \A e \in events : \A i \in DOMAIN e.lines :
         /\ e.lines[i] \in Entry /\ e.lines[i].line \in PoLine
         /\ e.lines[i].qty \in Nat /\ e.lines[i].receivedQty \in 0..OrderedQty
  BY <1>1, LinesType
<1> QED
  BY <1>1, <1>2 DEF Entries, Range

\* A recorded receipt, as seen by the order and by inventory-service.
Recorded(x, lines) ==
    /\ events' = events \cup {[po |-> x, lines |-> lines]}
    /\ UNCHANGED <<refs, stocked>>
    /\ \A y \in Po : y # x => po'[y].receivedQty = po[y].receivedQty
    /\ \A l \in PoLine :
          (\A i \in DOMAIN lines : lines[i].line # l) =>
             po'[x].receivedQty[l] = po[x].receivedQty[l]
    /\ \A i \in DOMAIN lines :
          /\ lines[i].qty > 0
          /\ lines[i].receivedQty =
                po[x].receivedQty[lines[i].line] + lines[i].qty
          /\ po'[x].receivedQty[lines[i].line] = lines[i].receivedQty
    /\ \A i, j \in DOMAIN lines : lines[i].line = lines[j].line => i = j

\* The quantities stay as they are.
Still == /\ UNCHANGED <<events, refs, stocked>>
         /\ \A x \in Po : po'[x].receivedQty = po[x].receivedQty

\* What Save does: nothing that counts, or it records the receipt.
LEMMA SaveRecords ==
    ASSUME TypeOK, Saving, NEW p \in Staff, Save(p)
    PROVE  \/ Still /\ unacked' = unacked
           \/ /\ work[p].po \in Po /\ work[p].lines \in Seq(Entry)
              /\ Recorded(work[p].po, work[p].lines)
              /\ unacked' = unacked \cup
                               {[po |-> work[p].po, lines |-> work[p].lines]}
<1> DEFINE w == work[p]
           x == w.po
           lines == w.lines
           mine == {lines[i].line : i \in DOMAIN lines}
           qty == [l \in PoLine |-> IF l \in mine THEN w.row.receivedQty[l]
                                  ELSE po[x].receivedQty[l]]
           row == [w.row EXCEPT !.receivedQty = qty]
           new == IF lines = <<>> THEN {} ELSE {[po |-> x, lines |-> lines]}
<1>1. /\ x \in Po /\ w.row \in Row /\ lines \in Seq(Entry) /\ po[x] \in Row
      /\ At(p, "saving")
  BY WorkFields DEF Save, TypeOK
<1>2. /\ refs' = refs /\ stocked' = stocked
      /\ \/ /\ po' = [po EXCEPT ![x] = row]
            /\ events' = events \cup new /\ unacked' = unacked \cup new
         \/ UNCHANGED <<po, events, unacked>>
  BY DEF Save
<1>3. /\ \A i \in DOMAIN lines :
            /\ lines[i].qty > 0
            /\ lines[i].receivedQty =
                  po[x].receivedQty[lines[i].line] + lines[i].qty
            /\ w.row.receivedQty[lines[i].line] = lines[i].receivedQty
      /\ \A i, j \in DOMAIN lines : lines[i].line = lines[j].line => i = j
  BY <1>1 DEF Saving
<1>4. row.receivedQty = qty
  BY <1>1 DEF Row
<1>5. \A l \in PoLine \ mine : qty[l] = po[x].receivedQty[l]
  OBVIOUS
<1>6. \A i \in DOMAIN lines :
         lines[i].line \in PoLine /\ qty[lines[i].line] = lines[i].receivedQty
  BY <1>1, <1>3, LinesType
<1>7. /\ qty \in [PoLine -> Int] /\ po[x].receivedQty \in [PoLine -> Int]
  BY <1>1 DEF Row
<1>8. \A l \in PoLine : (\A i \in DOMAIN lines : lines[i].line # l) => l \notin mine
  OBVIOUS
<1>9. lines = <<>> => mine = {}
  OBVIOUS
<1> SUFFICES \/ Still /\ unacked' = unacked
             \/ /\ x \in Po /\ lines \in Seq(Entry)
                /\ Recorded(x, lines)
                /\ unacked' = unacked \cup {[po |-> x, lines |-> lines]}
  OBVIOUS
<1> HIDE DEF row, qty, mine, w, x, lines
<1>10. CASE UNCHANGED <<po, events, unacked>>
  BY <1>2, <1>10 DEF Still
<1>11. CASE /\ po' = [po EXCEPT ![x] = row]
            /\ events' = events \cup new /\ unacked' = unacked \cup new
  <2>1. /\ po'[x].receivedQty = qty
        /\ \A y \in Po : y # x => po'[y].receivedQty = po[y].receivedQty
    BY <1>1, <1>4, <1>11 DEF TypeOK
  <2>2. CASE lines = <<>>
    <3>1. qty = po[x].receivedQty
      BY <1>5, <1>7, <1>9, <2>2
    <3> QED
      BY <1>2, <1>11, <2>1, <2>2, <3>1 DEF Still
  <2>3. CASE lines # <<>>
    <3>1. Recorded(x, lines)
      BY <1>2, <1>3, <1>5, <1>6, <1>8, <1>11, <2>1, <2>3 DEF Recorded
    <3> QED
      BY <1>1, <1>11, <2>3, <3>1
  <2> QED
    BY <2>2, <2>3
<1> QED
  BY <1>2, <1>10, <1>11

\* A recorded receipt adds one entry to each line it is about.
LEMMA RecordedEntries ==
    ASSUME TypeOK, Numbered, NEW x \in Po, NEW lines \in Seq(Entry),
           Recorded(x, lines)
    PROVE  \A y \in Po, l \in PoLine :
              \/ /\ Entries(y, l)' = Entries(y, l)
                 /\ Booked(y, l)' = Booked(y, l)
                 /\ po'[y].receivedQty[l] = po[y].receivedQty[l]
              \/ \E n \in Entry \ Entries(y, l) :
                    /\ Entries(y, l)' = Entries(y, l) \cup {n}
                    /\ Booked(y, l)' = Booked(y, l)
                    /\ n.line = l
                    /\ n.qty > 0
                    /\ n.receivedQty = po[y].receivedQty[l] + n.qty
                    /\ po'[y].receivedQty[l] = n.receivedQty
<1> SUFFICES ASSUME NEW y \in Po, NEW l \in PoLine
             PROVE  \/ /\ Entries(y, l)' = Entries(y, l)
                       /\ Booked(y, l)' = Booked(y, l)
                       /\ po'[y].receivedQty[l] = po[y].receivedQty[l]
                    \/ \E n \in Entry \ Entries(y, l) :
                          /\ Entries(y, l)' = Entries(y, l) \cup {n}
                          /\ Booked(y, l)' = Booked(y, l)
                          /\ n.line = l
                          /\ n.qty > 0
                          /\ n.receivedQty = po[y].receivedQty[l] + n.qty
                          /\ po'[y].receivedQty[l] = n.receivedQty
  OBVIOUS
<1>1. refs' = refs /\ events' = events \cup {[po |-> x, lines |-> lines]}
  BY DEF Recorded
<1>2. ASSUME y # x \/ \A i \in DOMAIN lines : lines[i].line # l
      PROVE  /\ Entries(y, l)' = Entries(y, l)
             /\ po'[y].receivedQty[l] = po[y].receivedQty[l]
  <2>1. Entries(y, l)' = Entries(y, l)
    BY <1>1, <1>2 DEF Entries, Range
  <2> QED
    BY <1>2, <2>1 DEF Recorded
<1>3. ASSUME y = x, NEW i \in DOMAIN lines, lines[i].line = l
      PROVE  \E n \in Entry \ Entries(y, l) :
                /\ Entries(y, l)' = Entries(y, l) \cup {n}
                /\ Booked(y, l)' = Booked(y, l)
                /\ n.line = l /\ n.qty > 0
                /\ n.receivedQty = po[y].receivedQty[l] + n.qty
                /\ po'[y].receivedQty[l] = n.receivedQty
  <2> DEFINE n == lines[i]
  <2>1. n \in Entry /\ n.qty \in Nat /\ n.receivedQty \in 0..OrderedQty
    BY LinesType
  <2>2. /\ n.qty > 0 /\ n.receivedQty = po[y].receivedQty[l] + n.qty
        /\ po'[y].receivedQty[l] = n.receivedQty
    BY <1>3 DEF Recorded
  <2>3. po[y].receivedQty[l] \in Int
    BY DEF TypeOK, Row
  <2>4. n.receivedQty > po[y].receivedQty[l]
    BY <2>1, <2>2, <2>3
  <2>5. n \notin Entries(y, l) /\ Ref(y, n) \notin refs
    BY <1>3, <2>1, <2>3, <2>4, EntriesAreOfLine DEF Numbered, Ref
  <2>6. \A j \in DOMAIN lines : lines[j].line = l => lines[j] = n
    BY <1>3 DEF Recorded
  <2>7. Entries(y, l)' = Entries(y, l) \cup {n}
    <3> DEFINE e == [po |-> x, lines |-> lines]
    <3>1. {m \in Range(e.lines) : m.line = l} = {n}
      BY <1>3, <2>6 DEF Range
    <3>2. UNION {Range(d.lines) : d \in {f \in events : f.po = y} \cup {e}} =
             (UNION {Range(d.lines) : d \in {f \in events : f.po = y}})
                \cup Range(e.lines)
      OBVIOUS
    <3>3. {f \in events' : f.po = y} = {f \in events : f.po = y} \cup {e}
      BY <1>1, <1>3
    <3> HIDE DEF e, n
    <3> QED
      BY <3>1, <3>2, <3>3 DEF Entries
  <2>8. Booked(y, l)' = Booked(y, l)
    BY <1>1, <2>5, <2>7 DEF Booked, Ref
  <2> HIDE DEF n
  <2> QED
    BY <1>3, <2>1, <2>2, <2>5, <2>7, <2>8 DEF n
<1>4. CASE y # x \/ \A i \in DOMAIN lines : lines[i].line # l
  BY <1>1, <1>2, <1>4 DEF Booked, Ref
<1>5. CASE y = x /\ \E i \in DOMAIN lines : lines[i].line = l
  BY <1>3, <1>5
<1> QED
  BY <1>4, <1>5

\* An entry of a recorded receipt reaches the ledger, if it is not there.
Books(x, n) ==
    /\ n \in Entries(x, n.line)
    /\ refs' = refs \cup {Ref(x, n)}
    /\ IF n \in Booked(x, n.line)
       THEN stocked' = stocked
       ELSE stocked' = [stocked EXCEPT ![x][n.line] = @ + n.qty]

\* One transaction of the handler books the entry it is at.
LEMMA ApplyBooks ==
    ASSUME TypeOK, Applying, NEW p \in Handler, ApplyLine(p),
           NEW e, e = work[p].event, NEW n, n = e.lines[work[p].next]
    PROVE  e \in events /\ e.po \in Po /\ n.line \in PoLine /\ Books(e.po, n)
<1>1. /\ e \in events /\ e \in Event /\ work[p].next \in 1..Len(e.lines)
  BY WorkFields DEF ApplyLine, Applying
<1>2. e.po \in Po /\ e.lines \in Seq(Entry)
  BY <1>1 DEF Event
<1>3. n \in Entry /\ n.line \in PoLine /\ n \in Entries(e.po, n.line)
  BY <1>1, <1>2, LinesType, EntriesAreOfLine
<1>4. Record(e.po, n)
  BY DEF ApplyLine
<1>5. n \in Booked(e.po, n.line) <=> Ref(e.po, n) \in refs
  BY <1>3 DEF Booked
<1>6. Books(e.po, n)
  BY <1>3, <1>4, <1>5 DEF Record, Books
<1> QED
  BY <1>1, <1>2, <1>3, <1>6

\* A booked entry counts in its own line, once, and in no other.
LEMMA BookedMore ==
    ASSUME TypeOK, Numbered, Summed, NEW x \in Po, NEW n, n.line \in PoLine,
           Books(x, n), events' = events
    PROVE  \A y \in Po, k \in PoLine : stocked'[y][k] = Total(Booked(y, k))'
<1> DEFINE l == n.line
<1>0. /\ l \in PoLine /\ n \in Entries(x, l)
      /\ refs' = refs \cup {Ref(x, n)}
      /\ IF n \in Booked(x, l)
         THEN stocked' = stocked
         ELSE stocked' = [stocked EXCEPT ![x][l] = @ + n.qty]
  BY DEF Books
<1>1. /\ n \in Entry /\ n.line = l /\ n.qty \in Nat /\ n.receivedQty \in 0..OrderedQty
      /\ \A y \in Po, k \in PoLine : Entries(y, k) \in SUBSET Entry
      /\ \A y \in Po, k \in PoLine : \A m \in Entries(y, k) : m.line = k
  BY <1>0, EntriesAreOfLine
<1> HIDE DEF l
<1>2. \A y, k : Entries(y, k)' = Entries(y, k)
  BY DEF Entries
<1> SUFFICES ASSUME NEW y \in Po, NEW k \in PoLine
             PROVE  stocked'[y][k] = Total(Booked(y, k)')
  BY DEF Total
<1>3. stocked[y][k] = Total(Booked(y, k))
  BY DEF Summed
<1>4. Booked(y, k)' = {m \in Entries(y, k) : Ref(y, m) \in refs \cup {Ref(x, n)}}
  BY <1>0, <1>2 DEF Booked, Ref
<1>5. CASE y = x /\ k = l
  <2>1. Booked(y, k)' = Booked(y, k) \cup {n}
    <3>1. \A m \in Entries(y, k) : Ref(y, m) = Ref(x, n) => m = n
      BY <1>0, <1>5 DEF Ref, Numbered
    <3> QED
      BY <1>0, <1>4, <1>5, <3>1 DEF Booked
  <2>2. CASE n \in Booked(x, l)
    BY <1>0, <1>3, <1>5, <2>1, <2>2
  <2>3. CASE n \notin Booked(x, l)
    <3>1. Booked(x, l) \in SUBSET Entry /\ IsFiniteSet(Booked(x, l))
      BY <1>1, FS_Subset DEF Booked, Numbered
    <3>2. Total(Booked(x, l) \cup {n}) = Total(Booked(x, l)) + n.qty
      BY <1>1, <2>3, <3>1, TotalWith
    <3>3. stocked'[x][l] = stocked[x][l] + n.qty
      BY <1>0, <2>3 DEF TypeOK
    <3> QED
      BY <1>3, <1>5, <2>1, <3>2, <3>3
  <2> QED
    BY <2>2, <2>3
<1>6. CASE y # x \/ k # l
  <2>1. \A m \in Entries(y, k) : Ref(y, m) # Ref(x, n)
    BY <1>1, <1>6 DEF Ref
  <2>2. Booked(y, k)' = Booked(y, k)
    BY <1>4, <2>1 DEF Booked
  <2>3. stocked'[y][k] = stocked[y][k]
    BY <1>0, <1>6 DEF TypeOK
  <2> QED
    BY <1>3, <2>2, <2>3
<1> QED
  BY <1>5, <1>6

\* A step of an order or a handler is one of three for the quantities.
CountStep ==
    \/ Still
    \/ \E x \in Po, lines \in Seq(Entry) : Recorded(x, lines)
    \/ /\ UNCHANGED <<po, events>>
       /\ \E x \in Po, n \in Entry : n.line \in PoLine /\ Books(x, n)

\* A draft has the received quantities of the order it takes the row of.
LEMMA CreateStill ==
    ASSUME TypeOK, NEW x \in Po, NEW r \in Rule \cup {NoRule}, Create(x, r)
    PROVE  Still
<1> DEFINE named == [po EXCEPT ![x].status = "draft"]
<1>1. [po[x] EXCEPT !.status = "draft"] \in Row
  BY DEF TypeOK, Row, Status
<1>2. /\ named \in [Po -> Row]
      /\ \A y \in Po : named[y].receivedQty = po[y].receivedQty
  BY <1>1 DEF TypeOK, Row
<1>3. po' = [named EXCEPT ![x].rule = r]
  BY DEF Create
<1> HIDE DEF named
<1>4. \A y \in Po : po'[y].receivedQty = named[y].receivedQty
  BY <1>2, <1>3 DEF Row
<1> QED
  BY <1>2, <1>4 DEF Create, Still

LEMMA StepCounts ==
    ASSUME TypeOK, Applying, Numbered, Saving, [Next]_vars
    PROVE  CountStep
<1>1. ASSUME NEW x \in Po, NEW r \in Rule \cup {NoRule}, Create(x, r)
      PROVE  CountStep
  BY <1>1, CreateStill DEF CountStep
<1>2. ASSUME NEW p \in Staff, NEW x \in Po,
             \/ Update(p, x)
             \/ \E to \in {"sent", "confirmed", "canceled"} : Move(p, x, to)
             \/ \E entries \in Receipt : Receive(p, x, entries)
      PROVE  CountStep
  BY <1>2 DEF Update, Move, Receive, Load, Still, CountStep
<1>3. ASSUME NEW p \in Staff, Save(p)
      PROVE  CountStep
  BY <1>3, SaveRecords DEF CountStep
<1>4. ASSUME NEW p \in Handler, ApplyLine(p)
      PROVE  CountStep
  <2> DEFINE e == work[p].event
             n == e.lines[work[p].next]
  <2>1. e \in events /\ e.po \in Po /\ n.line \in PoLine /\ Books(e.po, n)
    BY <1>4, ApplyBooks
  <2>2. UNCHANGED <<po, events>>
    BY <1>4 DEF ApplyLine
  <2> HIDE DEF e, n
  <2>3. n \in Entry
    BY <2>1, EntriesAreOfLine DEF Books
  <2> QED
    BY <2>1, <2>2, <2>3 DEF CountStep
<1>5. ASSUME NEW p \in Handler, NEW e \in events, Deliver(p, e)
      PROVE  CountStep
  BY <1>5 DEF Deliver, Still, CountStep
<1>6. ASSUME NEW p \in Staff \cup Handler, Crash(p)
      PROVE  CountStep
  BY <1>6 DEF Crash, Still, CountStep
<1>7. CASE UNCHANGED vars
  BY <1>7 DEF vars, Still, CountStep
<1> QED
  BY <1>1, <1>2, <1>3, <1>4, <1>5, <1>6, <1>7 DEF Next, ReorderTriggered

\* Received quantities stay the sums of their entries, and stock that of the
\* booked ones.
LEMMA SumsPreserved ==
    ASSUME TypeOK, TypeOK', Numbered, Summed, CountStep
    PROVE  Numbered' /\ Summed'
<1>0. \A x \in Po, l \in PoLine :
         /\ Entries(x, l) \in SUBSET Entry /\ IsFiniteSet(Entries(x, l))
         /\ po[x].receivedQty[l] = Total(Entries(x, l))
         /\ stocked[x][l] = Total(Booked(x, l))
         /\ po[x].receivedQty[l] \in 0..OrderedQty
  <2>1. \A x \in Po, l \in PoLine : po[x].receivedQty[l] \in 0..OrderedQty
    BY DEF TypeOK, Row
  <2>2. \A x \in Po, l \in PoLine : Entries(x, l) \in SUBSET Entry
    BY EntriesAreOfLine
  <2> QED
    BY <2>1, <2>2 DEF Numbered, Summed
<1>1. CASE Still
  <2>1. \A x, l : Entries(x, l)' = Entries(x, l) /\ Booked(x, l)' = Booked(x, l)
    BY <1>1 DEF Still, Entries, Booked, Ref
  <2>2. \A x \in Po : po'[x].receivedQty = po[x].receivedQty
    BY <1>1 DEF Still
  <2>3. refs' = refs /\ stocked' = stocked
    BY <1>1 DEF Still
  <2>4. Numbered'
    BY <2>1, <2>2, <2>3 DEF Numbered
  <2>5. Summed'
    BY <2>1, <2>2, <2>3 DEF Summed, Total
  <2> QED
    BY <2>4, <2>5
<1>2. ASSUME NEW x \in Po, NEW lines \in Seq(Entry), Recorded(x, lines)
      PROVE  Numbered' /\ Summed'
  <2>1. refs' = refs /\ stocked' = stocked
    BY <1>2 DEF Recorded
  <2>2. SUFFICES ASSUME NEW y \in Po, NEW l \in PoLine
                 PROVE  /\ IsFiniteSet(Entries(y, l)')
                        /\ \A n \in Entries(y, l)' :
                              n.receivedQty <= po'[y].receivedQty[l]
                        /\ \A n, m \in Entries(y, l)' :
                              n.receivedQty = m.receivedQty => n = m
                        /\ \A q \in 0..OrderedQty :
                              <<y, l, q>> \in refs => q <= po'[y].receivedQty[l]
                        /\ po'[y].receivedQty[l] = Total(Entries(y, l)')
                        /\ stocked[y][l] = Total(Booked(y, l)')
    BY <2>1 DEF Numbered, Summed, Total
  <2>3. CASE /\ Entries(y, l)' = Entries(y, l)
             /\ Booked(y, l)' = Booked(y, l)
             /\ po'[y].receivedQty[l] = po[y].receivedQty[l]
    BY <1>0, <2>3 DEF Numbered
  <2>4. ASSUME NEW n \in Entry \ Entries(y, l),
               Entries(y, l)' = Entries(y, l) \cup {n},
               Booked(y, l)' = Booked(y, l), n.qty > 0,
               n.receivedQty = po[y].receivedQty[l] + n.qty,
               po'[y].receivedQty[l] = n.receivedQty
        PROVE  /\ IsFiniteSet(Entries(y, l)')
               /\ \A m \in Entries(y, l)' :
                     m.receivedQty <= po'[y].receivedQty[l]
               /\ \A k, m \in Entries(y, l)' :
                     k.receivedQty = m.receivedQty => k = m
               /\ \A q \in 0..OrderedQty :
                     <<y, l, q>> \in refs => q <= po'[y].receivedQty[l]
               /\ po'[y].receivedQty[l] = Total(Entries(y, l)')
               /\ stocked[y][l] = Total(Booked(y, l)')
    <3>1. n.qty \in Nat /\ n.receivedQty \in 0..OrderedQty
      BY DEF Entry
    <3>2. IsFiniteSet(Entries(y, l)')
      BY <1>0, <2>4, FS_AddElement
    <3>3. \A m \in Entries(y, l) :
             /\ m.receivedQty \in 0..OrderedQty
             /\ m.receivedQty <= po[y].receivedQty[l]
      BY EntriesAreOfLine DEF Numbered
    <3>4. \A m \in Entries(y, l) : m.receivedQty < n.receivedQty
      BY <1>0, <2>4, <3>1, <3>3
    <3>5. \A m \in Entries(y, l)' : m.receivedQty <= po'[y].receivedQty[l]
      BY <2>4, <3>1, <3>3, <3>4
    <3>6. \A k, m \in Entries(y, l)' : k.receivedQty = m.receivedQty => k = m
      <4>1. \A k, m \in Entries(y, l) : k.receivedQty = m.receivedQty => k = m
        BY DEF Numbered
      <4>2. \A m \in Entries(y, l) : m.receivedQty # n.receivedQty
        BY <3>1, <3>3, <3>4
      <4> QED
        BY <2>4, <4>1, <4>2
    <3>7. \A q \in 0..OrderedQty :
             <<y, l, q>> \in refs => q <= po'[y].receivedQty[l]
      BY <1>0, <2>4, <3>1 DEF Numbered
    <3>8. Total(Entries(y, l) \cup {n}) = Total(Entries(y, l)) + n.qty
      BY <1>0, TotalWith
    <3> QED
      BY <1>0, <2>4, <3>2, <3>5, <3>6, <3>7, <3>8
  <2> QED
    BY <1>2, <2>3, <2>4, RecordedEntries
<1>3. ASSUME UNCHANGED <<po, events>>,
             NEW x \in Po, NEW n \in Entry, n.line \in PoLine, Books(x, n)
      PROVE  Numbered' /\ Summed'
  <2>1. \A y, k : Entries(y, k)' = Entries(y, k)
    BY <1>3 DEF Entries
  <2>2. n \in Entries(x, n.line) /\ refs' = refs \cup {Ref(x, n)}
    BY <1>3 DEF Books
  <2>3. \A y \in Po, k \in PoLine : \A q \in 0..OrderedQty :
           <<y, k, q>> \in refs' => q <= po[y].receivedQty[k]
    BY <1>3, <2>2 DEF Numbered, Ref
  <2>4. Numbered'
    BY <1>3, <2>1, <2>3 DEF Numbered
  <2>5. \A y \in Po, k \in PoLine : stocked'[y][k] = Total(Booked(y, k))'
    BY <1>3, BookedMore
  <2>6. \A y \in Po, k \in PoLine : po'[y].receivedQty[k] = Total(Entries(y, k))'
    BY <1>0, <1>3, <2>1 DEF Total
  <2>7. Summed'
    BY <2>5, <2>6 DEF Summed
  <2> QED
    BY <2>4, <2>7
<1> QED
  BY <1>1, <1>2, <1>3 DEF CountStep

-----------------------------------------------------------------------------
\* A request goes on from the quantities of its lines that are stored, if
\* nobody else receives them meanwhile and it enters no line twice.
LEMMA SavingPreserved ==
    ASSUME Apart, LinesOnce, TypeOK, Applying, Numbered, Saving, [Next]_vars
    PROVE  Saving'
<1> DEFINE Continues(q) ==
       /\ \A i \in DOMAIN work[q].lines :
             /\ work[q].lines[i].qty > 0
             /\ work[q].lines[i].receivedQty =
                   po[work[q].po].receivedQty[work[q].lines[i].line]
                      + work[q].lines[i].qty
             /\ work[q].row.receivedQty[work[q].lines[i].line] =
                   work[q].lines[i].receivedQty
       /\ \A i, j \in DOMAIN work[q].lines :
             work[q].lines[i].line = work[q].lines[j].line => i = j
<1>0. /\ \A q \in Staff : At(q, "saving") => Continues(q)
      /\ (\A q \in Staff : At(q, "saving")' => Continues(q)') => Saving'
  BY ZenonT(30) DEF Saving
<1> HIDE DEF Continues
<1>1. ASSUME NEW q \in Staff, At(q, "saving")', work'[q] = work[q],
             \A i \in DOMAIN work[q].lines :
                po'[work[q].po].receivedQty[work[q].lines[i].line] =
                   po[work[q].po].receivedQty[work[q].lines[i].line]
      PROVE  Continues(q)'
  <2>1. Continues(q)
    BY <1>0, <1>1 DEF At
  <2> QED
    BY <1>1, <2>1 DEF Continues
<1>2. ASSUME \A x \in Po : po'[x].receivedQty = po[x].receivedQty,
             NEW q \in Staff, At(q, "saving")', work'[q] = work[q]
      PROVE  Continues(q)'
  <2>1. work[q].po \in Po
    BY <1>2, WorkFields DEF At
  <2> QED
    BY <1>1, <1>2, <2>1
<1>3. ASSUME NEW p \in Staff, NEW x \in Po, NEW row, NEW lines,
             Load(p, x, row, lines),
             /\ \A i \in DOMAIN lines :
                   /\ lines[i].qty > 0
                   /\ lines[i].receivedQty =
                         po[x].receivedQty[lines[i].line] + lines[i].qty
                   /\ row.receivedQty[lines[i].line] = lines[i].receivedQty
             /\ \A i, j \in DOMAIN lines : lines[i].line = lines[j].line => i = j
      PROVE  Saving'
  <2>1. /\ work'[p] = [pc |-> "saving", po |-> x, row |-> row, lines |-> lines]
        /\ \A q \in Staff : q # p => work'[q] = work[q]
        /\ po' = po
    BY <1>3, DoOthers DEF Load
  <2>2. Continues(p)'
    BY <1>3, <2>1 DEF Continues
  <2>3. \A q \in Staff : q # p /\ At(q, "saving")' => Continues(q)'
    BY <1>2, <2>1
  <2> QED
    BY <1>0, <2>2, <2>3
<1>4. ASSUME NEW p \in Staff, NEW x \in Po, NEW entries \in Receipt,
             Receive(p, x, entries)
      PROVE  Saving'
  <2> DEFINE total == [l \in PoLine |->
                          po[x].receivedQty[l] + ReceivedNow(entries, l)]
             status == IF \A l \in PoLine : total[l] >= OrderedQty
                       THEN "received" ELSE "partially_received"
             row == [po[x] EXCEPT !.status = status, !.receivedQty = total]
             lines == [i \in DOMAIN entries |->
                          [line |-> entries[i].line, qty |-> entries[i].qty,
                           receivedQty |-> total[entries[i].line]]]
  <2>1. Load(p, x, row, lines)
    BY <1>4 DEF Receive
  <2>2. \A i \in DOMAIN entries :
           /\ entries[i].line \in PoLine /\ entries[i].qty > 0
           /\ ReceivedNow(entries, entries[i].line) = entries[i].qty
    BY EntriesType, ReceivedNowOfEntry DEF LinesOnce
  <2>3. \A i \in DOMAIN entries :
           total[entries[i].line] =
              po[x].receivedQty[entries[i].line] + entries[i].qty
    BY <2>2
  <2>4. row.receivedQty = total
    BY DEF TypeOK, Row
  <2>5. /\ DOMAIN lines = DOMAIN entries
        /\ \A i \in DOMAIN lines :
              /\ lines[i].line = entries[i].line /\ lines[i].qty = entries[i].qty
              /\ lines[i].receivedQty = total[entries[i].line]
    OBVIOUS
  <2>6. /\ \A i \in DOMAIN lines :
              /\ lines[i].qty > 0
              /\ lines[i].receivedQty =
                    po[x].receivedQty[lines[i].line] + lines[i].qty
              /\ row.receivedQty[lines[i].line] = lines[i].receivedQty
        /\ \A i, j \in DOMAIN lines : lines[i].line = lines[j].line => i = j
    BY <2>2, <2>3, <2>4, <2>5 DEF LinesOnce
  <2> HIDE DEF total, status, row, lines
  <2> QED
    BY <1>3, <2>1, <2>6
<1>5. ASSUME NEW p \in Staff, Save(p)
      PROVE  Saving'
  <2>1. work'[p] = Idle /\ \A q \in Staff : q # p => work'[q] = work[q]
    BY <1>5, DoOthers DEF Save
  <2>2. ~At(p, "saving")'
    BY <2>1 DEF At, Idle
  <2>3. ASSUME NEW q \in Staff, q # p, At(q, "saving")'
        PROVE  Continues(q)'
    <3>1. CASE Still
      BY <1>2, <2>1, <2>3, <3>1 DEF Still
    <3>2. CASE Recorded(work[p].po, work[p].lines)
      <4>1. At(p, "saving") /\ At(q, "saving")
        BY <1>5, <2>1, <2>3 DEF Save, At
      <4>2. /\ work[q].po \in Po /\ work[q].lines \in Seq(Entry)
        BY <4>1, WorkFields
      <4>3. \A i \in DOMAIN work[q].lines : work[q].lines[i].line \in PoLine
        BY <4>2, LinesType
      <4>4. ASSUME NEW i \in DOMAIN work[q].lines
            PROVE  po'[work[q].po].receivedQty[work[q].lines[i].line] =
                      po[work[q].po].receivedQty[work[q].lines[i].line]
        <5>1. CASE work[q].po # work[p].po
          BY <3>2, <4>2, <5>1 DEF Recorded
        <5>2. CASE work[q].po = work[p].po
          <6>1. \A j \in DOMAIN work[p].lines :
                   work[p].lines[j].line # work[q].lines[i].line
            BY <2>3, <4>1, <5>2 DEF Apart
          <6> QED
            BY <3>2, <4>3, <5>2, <6>1 DEF Recorded
        <5> QED
          BY <5>1, <5>2
      <4> QED
        BY <1>1, <2>1, <2>3, <4>4
    <3> QED
      BY <1>5, <3>1, <3>2, SaveRecords
  <2> QED
    BY <1>0, <2>2, <2>3
<1>6. ASSUME NEW p \in Handler, NEW w, Do(p, w), po' = po
      PROVE  Saving'
  <2>1. \A q \in Staff : work'[q] = work[q]
    BY <1>6, DoOthers
  <2> QED
    BY <1>0, <1>2, <1>6, <2>1
<1>7. ASSUME NEW p \in Staff \cup Handler, Crash(p)
      PROVE  Saving'
  <2>1. /\ po' = po /\ ~At(p, "saving")'
        /\ \A q \in Staff : q # p => work'[q] = work[q]
    BY <1>7, DoOthers DEF Crash, At, Idle
  <2> QED
    BY <1>0, <1>2, <2>1
<1>8. ASSUME NEW x \in Po, NEW r \in Rule \cup {NoRule}, Create(x, r)
      PROVE  Saving'
  BY <1>0, <1>2, <1>8, CreateStill DEF Create, Still
<1>9. ASSUME NEW p \in Handler, ApplyLine(p) \/ \E e \in events : Deliver(p, e)
      PROVE  Saving'
  BY <1>6, <1>9 DEF ApplyLine, Deliver
<1>10. CASE UNCHANGED vars
  BY <1>0, <1>2, <1>10 DEF vars
<1>11. ASSUME NEW p \in Staff, NEW x \in Po, NEW row, Load(p, x, row, <<>>)
      PROVE  Saving'
  <2>1. DOMAIN <<>> = {}
    OBVIOUS
  <2> QED
    BY <1>3, <1>11, <2>1
<1> QED
  BY <1>4, <1>5, <1>7, <1>8, <1>9, <1>10, <1>11
     DEF Next, ReorderTriggered, Update, Move

\* An event is acknowledged by a handler that has booked its every line.
LEMMA DeliveredPreserved ==
    ASSUME TypeOK, Applying, Saving, Delivered, [Next]_vars
    PROVE  Delivered'
<1>1. ASSUME refs \subseteq refs', events' \ unacked' \subseteq events \ unacked,
             \A p \in Handler : work'[p] = work[p] \/ work'[p] = Idle
      PROVE  Delivered'
  BY <1>1 DEF Delivered, At, Idle, Ref
<1>2. ASSUME NEW p \in Staff, NEW w, Do(p, w)
      PROVE  \A q \in Handler : work'[q] = work[q]
  BY <1>2, DoOthers
<1>3. ASSUME NEW p \in Staff, NEW x, NEW row, NEW lines, Load(p, x, row, lines)
      PROVE  Delivered'
  BY <1>1, <1>2, <1>3 DEF Load
<1>4. ASSUME NEW p \in Staff, Save(p)
      PROVE  Delivered'
  <2>1. events' \ unacked' \subseteq events \ unacked /\ refs' = refs
    BY <1>4 DEF Save
  <2>2. \A q \in Handler : work'[q] = work[q]
    BY <1>2, <1>4 DEF Save
  <2> QED
    BY <1>1, <2>1, <2>2
<1>5. ASSUME NEW p \in Handler, NEW e \in events, Deliver(p, e)
      PROVE  Delivered'
  <2>1. /\ work'[p] = [pc |-> "applying", event |-> e, next |-> 1]
        /\ \A q \in Handler : q # p => work'[q] = work[q]
        /\ UNCHANGED <<events, unacked, refs>>
    BY <1>5, DoOthers DEF Deliver
  <2>2. 1..(1 - 1) = {}
    OBVIOUS
  <2> QED
    BY <2>1, <2>2 DEF Delivered, At, Ref
<1>6. ASSUME NEW p \in Handler, ApplyLine(p)
      PROVE  Delivered'
  <2> DEFINE e == work[p].event
             n == e.lines[work[p].next]
             w == [work[p] EXCEPT !.next = @ + 1]
  <2>1. /\ e \in events /\ e \in Event /\ work[p].next \in 1..Len(e.lines)
        /\ work[p] \in [pc : {"applying"}, event : Event, next : Nat]
        /\ At(p, "applying")
    BY <1>6, WorkFields DEF ApplyLine, Applying
  <2>2. Len(e.lines) \in Nat /\ DOMAIN e.lines = 1..Len(e.lines)
    BY <2>1, LinesType DEF Event
  <2>3. refs' = refs \cup {Ref(e.po, n)} /\ events' = events
    BY <1>6, ApplyBooks DEF Books, ApplyLine
  <2>4. \A i \in 1..work[p].next : Ref(e.po, e.lines[i]) \in refs'
    <3>1. \A i \in 1..(work[p].next - 1) : Ref(e.po, e.lines[i]) \in refs
      BY <2>1 DEF Delivered
    <3>2. \A i \in 1..work[p].next : i \in 1..(work[p].next - 1) \/ i = work[p].next
      BY <2>1
    <3> QED
      BY <2>3, <3>1, <3>2
  <2>5. CASE /\ work[p].next = Len(e.lines) /\ Do(p, Idle)
             /\ unacked' = unacked \ {e}
    <3>1. \A f \in events' \ unacked' : f \in events \ unacked \/ f = e
      BY <2>3, <2>5
    <3>2. \A f \in events' \ unacked' :
             \A i \in DOMAIN f.lines : Ref(f.po, f.lines[i]) \in refs'
      BY <2>2, <2>3, <2>4, <2>5, <3>1 DEF Delivered
    <3>3. work'[p] = Idle /\ \A q \in Handler : q # p => work'[q] = work[q]
      BY <2>5, DoOthers
    <3> HIDE DEF e, n
    <3> QED
      BY <2>3, <3>2, <3>3 DEF Delivered, At, Idle, Ref
  <2>6. CASE Do(p, w) /\ UNCHANGED unacked
    <3>1. work'[p] = w /\ \A q \in Handler : q # p => work'[q] = work[q]
      BY <2>6, DoOthers
    <3>2. w.event = e /\ w.next - 1 = work[p].next
      BY <2>1
    <3>3. \A i \in 1..(w.next - 1) : Ref(w.event.po, w.event.lines[i]) \in refs'
      BY <2>4, <3>2
    <3> HIDE DEF e, n, w
    <3> QED
      BY <2>3, <2>6, <3>1, <3>3 DEF Delivered, At, Ref
  <2> QED
    BY <1>6, <2>5, <2>6 DEF ApplyLine
<1>7. ASSUME NEW p \in Staff \cup Handler, Crash(p)
      PROVE  Delivered'
  BY <1>1, <1>7, DoOthers DEF Crash
<1>8. ASSUME NEW x \in Po, NEW r, Create(x, r)
      PROVE  Delivered'
  BY <1>1, <1>8 DEF Create
<1>9. CASE UNCHANGED vars
  BY <1>1, <1>9 DEF vars
<1> QED
  BY <1>3, <1>4, <1>5, <1>6, <1>7, <1>8, <1>9
     DEF Next, ReorderTriggered, Update, Move, Receive

\* For every number of orders, lines, receipts, redeliveries, handlers and
\* crashes between two lines: what inventory-service has moved into stock of a
\* line is what purchasing-service has received of it, less the receipts on
\* their way (purchasing-sync.service.ts, applyPoReceived()).  It holds for as
\* long as requests that receive the same line do not overlap (others may), and
\* if none enters a line twice.
THEOREM ReceiptsCountOnce ==
    ASSUME LinesOnce
    PROVE  Spec /\ []Apart => []StockMatchesReceipts
<1> DEFINE Inv == Numbered /\ Summed /\ Delivered /\ Saving
<1>1. Init => Inv
  <2> SUFFICES ASSUME Init
               PROVE  Inv
    OBVIOUS
  <2>1. \A x, l : Entries(x, l) = {} /\ Booked(x, l) = {}
    BY DEF Init, Entries, Booked
  <2>2. Total({}) = 0
    BY SumOfNone DEF Total
  <2>3. Numbered
    BY <2>1, FS_EmptySet DEF Numbered, Init
  <2>4. Summed
    BY <2>1, <2>2 DEF Summed, Init
  <2>5. \A p \in Staff \cup Handler : ~At(p, "applying") /\ ~At(p, "saving")
    BY DEF Init, At, Idle
  <2> QED
    BY <2>3, <2>4, <2>5 DEF Delivered, Saving, Init
<1>2. Apart /\ TypeOK /\ TypeOK' /\ Applying /\ Inv /\ [Next]_vars => Inv'
  BY StepCounts, SumsPreserved, SavingPreserved, DeliveredPreserved
<1>3. TypeOK /\ Inv => StockMatchesReceipts
  <2> SUFFICES ASSUME TypeOK, Inv, NEW x \in Po, NEW l \in PoLine
               PROVE  /\ stocked[x][l] <= po[x].receivedQty[l]
                      /\ (\A e \in unacked : e.po # x) =>
                            stocked[x][l] = po[x].receivedQty[l]
    BY DEF StockMatchesReceipts
  <2>1. Entries(x, l) \in SUBSET Entry /\ IsFiniteSet(Entries(x, l))
    BY EntriesAreOfLine DEF Numbered
  <2>2. Booked(x, l) \in SUBSET Entries(x, l)
    BY DEF Booked
  <2>3. /\ po[x].receivedQty[l] = Total(Entries(x, l))
        /\ stocked[x][l] = Total(Booked(x, l))
    BY DEF Summed
  <2>4. Total(Booked(x, l)) <= Total(Entries(x, l))
    BY <2>1, <2>2, TotalType
  <2>5. ASSUME \A e \in unacked : e.po # x
        PROVE  Booked(x, l) = Entries(x, l)
    <3>1. \A n \in Entries(x, l) :
             \E e \in events \ unacked :
                e.po = x /\ \E i \in DOMAIN e.lines : n = e.lines[i]
      BY <2>5, EntriesAreOfLine
    <3>2. \A n \in Entries(x, l) : Ref(x, n) \in refs
      BY <3>1 DEF Delivered
    <3> QED
      BY <3>2 DEF Booked
  <2> QED
    BY <2>3, <2>4, <2>5
<1> HIDE DEF Inv
<1> QED
  BY <1>1, <1>2, <1>3, PurchasingTypeCorrect, PTL DEF Spec

-----------------------------------------------------------------------------
(* Shipping.  What it assumes of its constants is a hypothesis of each     *)
(* lemma.                                                                  *)

USE DEF Shp!ShippingAssumption

\* The library's operator is the same one in the instance.
LEMMA SameLibrary == \A A : Shp!IsFiniteSet(A) <=> IsFiniteSet(A)
BY DEF Shp!IsFiniteSet, IsFiniteSet

\* An open rollup is of a fulfillment that is not rolled up, and no other
\* execution has one of the same.
RollupsExclude ==
    /\ \A p \in Proc : Shp!At(p, "summed") => work[p].fulfillment \notin rolled
    /\ \A p, q \in Proc :
          (/\ Shp!At(p, "summed") /\ Shp!At(q, "summed")
           /\ work[p].fulfillment = work[q].fulfillment) => p = q

Suffices == \A l \in Line : fulfilled[l] >= Ordered[l]

\* Who shows the order as fulfilled, or is about to, has seen lines that are;
\* an open rollup has, counting its own fulfillment.
StatusSuffices ==
    /\ order = "fulfilled" => Suffices
    /\ \A p \in Proc :
          /\ Shp!At(p, "editing") /\ work[p].order = "fulfilled" => Suffices
          /\ Shp!At(p, "summed") /\ work[p].status = "fulfilled" =>
                \A l \in Line :
                   Shp!Increased(work[p].fulfillment)[l] >= Ordered[l]

-----------------------------------------------------------------------------
\* What an execution carries with it.
LEMMA ShippingFields ==
    ASSUME Shp!ShippingAssumption,
           work \in [Proc -> {Shp!Idle} \cup Shp!Work], NEW p \in Proc
    PROVE  /\ Shp!At(p, "transition") =>
                 /\ work[p].shipment \in Shipment
                 /\ work[p].target \in {"in_progress", "arrived", "canceled"}
                 /\ work[p].stamp \in Fulfillment \cup {Unlinked}
           /\ Shp!At(p, "delaying") => work[p].shipment \in Shipment
           /\ Shp!At(p, "summed") =>
                 /\ work[p].fulfillment \in Fulfillment
                 /\ work[p].status \in Shp!Status
           /\ Shp!At(p, "editing") => work[p].order \in Shp!Status
<1>1. work[p] \in {Shp!Idle} \cup Shp!Work
  OBVIOUS
<1> QED
  BY <1>1 DEF Shp!Idle, Shp!Work, Shp!At

LEMMA ShippingDoType ==
    ASSUME Shp!ShippingAssumption,
           work \in [Proc -> {Shp!Idle} \cup Shp!Work], NEW p \in Proc,
           NEW w \in {Shp!Idle} \cup Shp!Work, Shp!Do(p, w)
    PROVE  work' \in [Proc -> {Shp!Idle} \cup Shp!Work]
BY DEF Shp!Do

LEMMA ShippingDoOthers ==
    ASSUME Shp!ShippingAssumption,
           work \in [Proc -> {Shp!Idle} \cup Shp!Work],
           NEW p \in Proc, NEW w, Shp!Do(p, w)
    PROVE  work'[p] = w /\ \A q \in Proc : q # p => work'[q] = work[q]
BY DEF Shp!Do

\* Lines only grow by a fulfillment.
LEMMA IncreasedLines ==
    ASSUME Shp!ShippingAssumption,
           fulfilled \in [Line -> Nat], NEW f \in Fulfillment
    PROVE  /\ Shp!Increased(f) \in [Line -> Nat]
           /\ \A l \in Line :
                 /\ Shp!Increased(f)[l] = fulfilled[l] + f.qty[l]
                 /\ fulfilled[l] \in Nat /\ f.qty[l] \in Nat
                 /\ Ordered[l] \in Nat
BY DEF Shp!Increased

LEMMA InsertType ==
    ASSUME Shp!ShippingAssumption,
           Shp!TypeOK, NEW s \in Shipment, NEW eta \in BOOLEAN, Shp!Insert(s, eta)
    PROVE  /\ shipment' \in [Shipment -> Shp!ShipmentRow]
           /\ UNCHANGED <<created, armed, stamped>>
BY ZenonT(40) DEF Shp!Insert, Shp!TypeOK, Shp!ShipmentRow

LEMMA LoadType ==
    ASSUME Shp!ShippingAssumption,
           Shp!TypeOK, NEW p \in Proc, NEW s \in Shipment,
           NEW target \in {"in_progress", "arrived", "canceled"},
           NEW stamp \in Fulfillment \cup {Unlinked},
           Shp!Load(p, s, target, stamp)
    PROVE  Shp!TypeOK'
<1>1. shipment[s].eta \in BOOLEAN
  BY DEF Shp!TypeOK, Shp!ShipmentRow
<1>2. [pc |-> "transition", shipment |-> s, target |-> target,
       eta |-> shipment[s].eta, stamp |-> stamp] \in {Shp!Idle} \cup Shp!Work
  BY <1>1 DEF Shp!Work
<1>3. work' \in [Proc -> {Shp!Idle} \cup Shp!Work]
  BY <1>2, ShippingDoType DEF Shp!TypeOK, Shp!Load
<1> QED
  BY <1>3 DEF Shp!Load, Shp!TypeOK, Shp!shippingVars, Shp!orderVars

\* Type correctness of shipments and of the order's fulfillment
\* (shipments.service.ts, shipping-events.controller.ts).
THEOREM ShippingTypeCorrect ==
    ASSUME Shp!ShippingAssumption
    PROVE  Shp!Spec => []Shp!TypeOK
<1>1. Shp!Init => Shp!TypeOK
  BY DEF Shp!Init, Shp!TypeOK, Shp!ShipmentRow, Shp!Status
<1>2. Shp!TypeOK /\ [Shp!Next]_(Shp!vars) => Shp!TypeOK'
  <2> SUFFICES ASSUME Shp!TypeOK, [Shp!Next]_(Shp!vars)
               PROVE  Shp!TypeOK'
    OBVIOUS
  <2>0. /\ work \in [Proc -> {Shp!Idle} \cup Shp!Work]
        /\ Shp!Idle \in {Shp!Idle} \cup Shp!Work
    BY DEF Shp!TypeOK
  <2>1. ASSUME NEW p \in Proc, Shp!OrderPlaced(p)
        PROVE  Shp!TypeOK'
    <3>1. [pc |-> "drafting"] \in {Shp!Idle} \cup Shp!Work
      BY DEF Shp!Work
    <3>2. work' \in [Proc -> {Shp!Idle} \cup Shp!Work]
      BY <2>0, <2>1, <3>1, ShippingDoType DEF Shp!OrderPlaced
    <3> QED
      BY <2>1, <3>2
         DEF Shp!OrderPlaced, Shp!TypeOK, Shp!shippingVars, Shp!orderVars
  <2>2. ASSUME NEW p \in Proc, Shp!InsertDraft(p)
        PROVE  Shp!TypeOK'
    <3>1. work' \in [Proc -> {Shp!Idle} \cup Shp!Work]
      BY <2>0, <2>2, ShippingDoType DEF Shp!InsertDraft
    <3>2. /\ shipment' \in [Shipment -> Shp!ShipmentRow]
          /\ UNCHANGED <<created, armed, stamped>>
      <4>1. CASE \E s \in Shipment : Shp!Insert(s, FALSE)
        <5>1. PICK s \in Shipment : Shp!Insert(s, FALSE)
          BY <4>1
        <5> QED
          BY <5>1, InsertType
      <4>2. CASE UNCHANGED Shp!shippingVars
        BY <4>2 DEF Shp!shippingVars, Shp!TypeOK
      <4> QED
        BY <2>2, <4>1, <4>2 DEF Shp!InsertDraft
    <3> QED
      BY <2>2, <3>1, <3>2 DEF Shp!InsertDraft, Shp!TypeOK, Shp!orderVars
  <2>3. CASE Shp!CreateShipment
    <3>1. PICK s \in Shipment : Shp!Insert(s, TRUE)
      BY <2>3 DEF Shp!CreateShipment
    <3>2. /\ shipment' \in [Shipment -> Shp!ShipmentRow]
          /\ UNCHANGED <<created, armed, stamped>>
      BY <3>1, InsertType
    <3> QED
      BY <2>3, <3>2 DEF Shp!CreateShipment, Shp!TypeOK, Shp!orderVars
  <2>4. ASSUME NEW f \in Fulfillment, Shp!CreateFulfillment(f)
        PROVE  Shp!TypeOK'
    <3>1. shipment' \in [Shipment -> Shp!ShipmentRow]
      <4>1. CASE UNCHANGED shipment
        BY <4>1 DEF Shp!TypeOK
      <4>2. ASSUME NEW s \in Shipment,
                   shipment' = [shipment EXCEPT ![s].fulfillment = f]
            PROVE  shipment' \in [Shipment -> Shp!ShipmentRow]
        BY <4>2 DEF Shp!TypeOK, Shp!ShipmentRow
      <4> QED
        BY <2>4, <4>1, <4>2 DEF Shp!CreateFulfillment, Shp!Made
    <3> QED
      BY <2>4, <3>1 DEF Shp!CreateFulfillment, Shp!TypeOK, Shp!orderVars
  <2>5. ASSUME NEW p \in Proc, NEW s \in Shipment, Shp!Transition(p, s)
        PROVE  Shp!TypeOK'
    BY <2>5, LoadType DEF Shp!Transition
  <2>6. ASSUME NEW p \in Proc, NEW f \in Fulfillment, Shp!CarrierDelivers(p, f)
        PROVE  Shp!TypeOK'
    BY <2>6, LoadType DEF Shp!CarrierDelivers, Shp!Made
  <2>7. ASSUME NEW p \in Proc, Shp!Commit(p)
        PROVE  Shp!TypeOK'
    <3>1. /\ work[p].shipment \in Shipment
          /\ work[p].target \in {"in_progress", "arrived", "canceled"}
          /\ work[p].stamp \in Fulfillment \cup {Unlinked}
      BY <2>0, <2>7, ShippingFields DEF Shp!Commit
    <3>2. work' \in [Proc -> {Shp!Idle} \cup Shp!Work]
      BY <2>0, <2>7, ShippingDoType DEF Shp!Commit
    <3>3. /\ shipment' \in [Shipment -> Shp!ShipmentRow]
          /\ armed' \subseteq Shipment /\ stamped' \subseteq Fulfillment
          /\ UNCHANGED created
      <4>1. CASE UNCHANGED Shp!shippingVars
        BY <4>1 DEF Shp!shippingVars, Shp!TypeOK
      <4>2. CASE /\ shipment' = [shipment EXCEPT ![work[p].shipment].status =
                                    work[p].target]
                 /\ armed' = armed \cup (IF Shp!Arms(work[p])
                                         THEN {work[p].shipment} ELSE {})
                 /\ stamped' = stamped \cup ({work[p].stamp} \ {Unlinked})
                 /\ UNCHANGED created
        <5>1. shipment' \in [Shipment -> Shp!ShipmentRow]
          BY ZenonT(40), <3>1, <4>2 DEF Shp!TypeOK, Shp!ShipmentRow
        <5>2. armed' \subseteq Shipment /\ stamped' \subseteq Fulfillment
          BY <3>1, <4>2 DEF Shp!TypeOK
        <5> QED
          BY <4>2, <5>1, <5>2
      <4> QED
        BY <2>7, <4>1, <4>2 DEF Shp!Commit
    <3> QED
      BY <2>7, <3>2, <3>3 DEF Shp!Commit, Shp!TypeOK, Shp!orderVars
  <2>8. ASSUME NEW p \in Proc, NEW s \in Shipment, Shp!DelayLoad(p, s)
        PROVE  Shp!TypeOK'
    <3>1. [pc |-> "delaying", shipment |-> s] \in {Shp!Idle} \cup Shp!Work
      BY DEF Shp!Work
    <3>2. work' \in [Proc -> {Shp!Idle} \cup Shp!Work]
      BY <2>0, <2>8, <3>1, ShippingDoType DEF Shp!DelayLoad
    <3> QED
      BY <2>8, <3>2 DEF Shp!DelayLoad, Shp!TypeOK, Shp!shippingVars, Shp!orderVars
  <2>9. ASSUME NEW p \in Proc, Shp!MarkDelayed(p)
        PROVE  Shp!TypeOK'
    <3>1. work[p].shipment \in Shipment
      BY <2>0, <2>9, ShippingFields DEF Shp!MarkDelayed
    <3>2. shipment' \in [Shipment -> Shp!ShipmentRow]
      BY ZenonT(40), <2>9, <3>1 DEF Shp!MarkDelayed, Shp!TypeOK, Shp!ShipmentRow
    <3>3. work' \in [Proc -> {Shp!Idle} \cup Shp!Work]
      BY <2>0, <2>9, ShippingDoType DEF Shp!MarkDelayed
    <3> QED
      BY <2>9, <3>2, <3>3 DEF Shp!MarkDelayed, Shp!TypeOK, Shp!orderVars
  <2>10. ASSUME NEW p \in Proc, NEW f \in Fulfillment, Shp!RollupSum(p, f)
         PROVE  Shp!TypeOK'
    <3> DEFINE status == Shp!StatusOf(Shp!Increased(f))
    <3>1. status \in Shp!Status
      BY DEF Shp!StatusOf, Shp!Status
    <3>2. /\ Shp!Do(p, [pc |-> "summed", fulfillment |-> f, status |-> status,
                    changed |-> status # order])
          /\ UNCHANGED <<Shp!shippingVars, Shp!orderVars, crashes>>
      BY <2>10 DEF Shp!RollupSum
    <3> HIDE DEF status
    <3>3. [pc |-> "summed", fulfillment |-> f, status |-> status,
           changed |-> status # order] \in {Shp!Idle} \cup Shp!Work
      BY <3>1 DEF Shp!Work
    <3>4. work' \in [Proc -> {Shp!Idle} \cup Shp!Work]
      BY <2>0, <3>2, <3>3, ShippingDoType
    <3> QED
      BY <3>2, <3>4 DEF Shp!TypeOK, Shp!shippingVars, Shp!orderVars
  <2>11. ASSUME NEW p \in Proc, Shp!RollupCommit(p)
         PROVE  Shp!TypeOK'
    <3>1. work[p].fulfillment \in Fulfillment /\ work[p].status \in Shp!Status
      BY <2>0, <2>11, ShippingFields DEF Shp!RollupCommit
    <3>2. work' \in [Proc -> {Shp!Idle} \cup Shp!Work]
      BY <2>0, <2>11, ShippingDoType DEF Shp!RollupCommit
    <3>3. fulfilled' \in [Line -> Nat]
      BY <2>11, <3>1, IncreasedLines DEF Shp!RollupCommit, Shp!TypeOK
    <3> QED
      BY <2>11, <3>1, <3>2, <3>3 DEF Shp!RollupCommit, Shp!TypeOK, Shp!shippingVars
  <2>12. ASSUME NEW p \in Proc, Shp!EditLoad(p)
         PROVE  Shp!TypeOK'
    <3>1. [pc |-> "editing", order |-> order] \in {Shp!Idle} \cup Shp!Work
      BY DEF Shp!TypeOK, Shp!Work
    <3>2. work' \in [Proc -> {Shp!Idle} \cup Shp!Work]
      BY <2>0, <2>12, <3>1, ShippingDoType DEF Shp!EditLoad
    <3> QED
      BY <2>12, <3>2 DEF Shp!EditLoad, Shp!TypeOK, Shp!shippingVars, Shp!orderVars
  <2>13. ASSUME NEW p \in Proc, Shp!EditSave(p)
         PROVE  Shp!TypeOK'
    <3>1. work[p].order \in Shp!Status
      BY <2>0, <2>13, ShippingFields DEF Shp!EditSave
    <3>2. work' \in [Proc -> {Shp!Idle} \cup Shp!Work]
      BY <2>0, <2>13, ShippingDoType DEF Shp!EditSave
    <3> QED
      BY <2>13, <3>1, <3>2 DEF Shp!EditSave, Shp!TypeOK, Shp!shippingVars
  <2>14. ASSUME NEW p \in Proc, Shp!Crash(p)
         PROVE  Shp!TypeOK'
    <3>1. work' \in [Proc -> {Shp!Idle} \cup Shp!Work]
      BY <2>0, <2>14, ShippingDoType DEF Shp!Crash
    <3> QED
      BY <2>14, <3>1 DEF Shp!Crash, Shp!TypeOK, Shp!shippingVars, Shp!orderVars
  <2>15. CASE UNCHANGED Shp!vars
    BY <2>15 DEF Shp!vars, Shp!TypeOK
  <2>16. ASSUME NEW p \in Proc, NEW s \in Shipment, Shp!DelayCheck(p, s)
         PROVE  Shp!TypeOK'
    BY <2>8, <2>16 DEF Shp!DelayCheck
  <2>17. ASSUME NEW p \in Proc, Shp!Proceed(p)
         PROVE  Shp!TypeOK'
    BY <2>2, <2>7, <2>9, <2>11, <2>13, <2>17 DEF Shp!Proceed
  <2> QED
    BY <2>1, <2>3, <2>4, <2>5, <2>6, <2>8, <2>10, <2>12, <2>14, <2>15, <2>16,
       <2>17 DEF Shp!Next
<1> QED
  BY <1>1, <1>2, PTL DEF Shp!Spec

-----------------------------------------------------------------------------
\* The steps that neither roll up nor write the order.
Elsewhere(p) ==
    \/ Shp!OrderPlaced(p) \/ Shp!InsertDraft(p) \/ Shp!Commit(p)
    \/ Shp!MarkDelayed(p) \/ Shp!Crash(p)
    \/ \E s \in Shipment : \/ Shp!Transition(p, s)
                           \/ Shp!DelayLoad(p, s) \/ Shp!DelayCheck(p, s)
    \/ \E f \in Fulfillment : Shp!CarrierDelivers(p, f)

LEMMA ElsewhereUnrolled ==
    ASSUME Shp!ShippingAssumption,
           Shp!TypeOK, NEW p \in Proc, Elsewhere(p)
    PROVE  /\ UNCHANGED Shp!orderVars
           /\ work'[p].pc \notin {"summed", "editing"}
           /\ \A q \in Proc : q # p => work'[q] = work[q]
<1>0. work \in [Proc -> {Shp!Idle} \cup Shp!Work]
  BY DEF Shp!TypeOK
<1>1. UNCHANGED Shp!orderVars
  BY DEF Elsewhere, Shp!OrderPlaced, Shp!InsertDraft, Shp!Commit,
     Shp!MarkDelayed, Shp!Crash, Shp!Transition, Shp!Load, Shp!DelayLoad, Shp!DelayCheck, Shp!CarrierDelivers
<1>2. ASSUME NEW w, Shp!Do(p, w), w.pc \notin {"summed", "editing"}
      PROVE  /\ work'[p].pc \notin {"summed", "editing"}
             /\ \A q \in Proc : q # p => work'[q] = work[q]
  BY <1>0, <1>2, ShippingDoOthers
<1>3. CASE Shp!OrderPlaced(p)
  BY <1>1, <1>2, <1>3 DEF Shp!OrderPlaced
<1>4. CASE \/ Shp!InsertDraft(p) \/ Shp!Commit(p)
           \/ Shp!MarkDelayed(p) \/ Shp!Crash(p)
  <2>1. Shp!Do(p, Shp!Idle)
    BY <1>4 DEF Shp!InsertDraft, Shp!Commit, Shp!MarkDelayed, Shp!Crash
  <2>2. Shp!Idle.pc = "idle"
    BY DEF Shp!Idle
  <2> QED
    BY <1>1, <1>2, <2>1, <2>2
<1>5. CASE \E s \in Shipment : Shp!DelayLoad(p, s) \/ Shp!DelayCheck(p, s)
  BY <1>1, <1>2, <1>5 DEF Shp!DelayLoad, Shp!DelayCheck
<1>6. CASE \E s, target, stamp : Shp!Load(p, s, target, stamp)
  BY <1>1, <1>2, <1>6 DEF Shp!Load
<1> QED
  BY <1>3, <1>4, <1>5, <1>6 DEF Elsewhere, Shp!Transition, Shp!CarrierDelivers

\* Rollups of one fulfillment exclude each other, and a rollup that is open
\* was not yet applied (shipping-events.controller.ts, onFulfillmentCreated()).
LEMMA RollupsAlwaysExclude ==
    ASSUME Shp!ShippingAssumption
    PROVE  Shp!Spec => []RollupsExclude
<1>1. Shp!Init => RollupsExclude
  BY DEF Shp!Init, RollupsExclude, Shp!At, Shp!Idle
<1>2. Shp!TypeOK /\ RollupsExclude /\ [Shp!Next]_(Shp!vars) => RollupsExclude'
  <2> SUFFICES ASSUME Shp!TypeOK, RollupsExclude, [Shp!Next]_(Shp!vars)
               PROVE  RollupsExclude'
    OBVIOUS
  <2>0. work \in [Proc -> {Shp!Idle} \cup Shp!Work]
    BY DEF Shp!TypeOK
  <2>1. ASSUME UNCHANGED rolled,
               \A q \in Proc : Shp!At(q, "summed")' => work'[q] = work[q]
        PROVE  RollupsExclude'
    BY <2>1 DEF RollupsExclude, Shp!At
  <2>2. ASSUME NEW p \in Proc, Elsewhere(p)
        PROVE  RollupsExclude'
    BY <2>1, <2>2, ElsewhereUnrolled DEF Shp!At, Shp!orderVars
  <2>3. ASSUME NEW p \in Proc, Shp!EditLoad(p) \/ Shp!EditSave(p)
        PROVE  RollupsExclude'
    <3>1. /\ work'[p].pc # "summed"
          /\ \A q \in Proc : q # p => work'[q] = work[q]
      BY <2>0, <2>3, ShippingDoOthers DEF Shp!EditLoad, Shp!EditSave, Shp!Idle
    <3> QED
      BY <2>1, <2>3, <3>1 DEF Shp!EditLoad, Shp!EditSave, Shp!At, Shp!orderVars
  <2>4. ASSUME NEW p \in Proc, NEW f \in Fulfillment, Shp!RollupSum(p, f)
        PROVE  RollupsExclude'
    <3>1. /\ work'[p].fulfillment = f
          /\ \A q \in Proc : q # p => work'[q] = work[q]
      BY <2>0, <2>4, ShippingDoOthers DEF Shp!RollupSum
    <3>2. /\ f \notin rolled /\ UNCHANGED rolled
          /\ \A q \in Proc : Shp!At(q, "summed") => work[q].fulfillment # f
      BY <2>4 DEF Shp!RollupSum, Shp!orderVars
    <3> QED
      BY <3>1, <3>2 DEF RollupsExclude, Shp!At
  <2>5. ASSUME NEW p \in Proc, Shp!RollupCommit(p)
        PROVE  RollupsExclude'
    <3>1. /\ work'[p] = Shp!Idle
          /\ \A q \in Proc : q # p => work'[q] = work[q]
      BY <2>0, <2>5, ShippingDoOthers DEF Shp!RollupCommit
    <3>2. Shp!At(p, "summed") /\ rolled' = rolled \cup {work[p].fulfillment}
      BY <2>5 DEF Shp!RollupCommit
    <3> QED
      BY <3>1, <3>2 DEF RollupsExclude, Shp!At, Shp!Idle
  <2>6. ASSUME UNCHANGED <<rolled, work>>
        PROVE  RollupsExclude'
    BY <2>1, <2>6 DEF Shp!At
  <2>7. Shp!CreateShipment \/ (\E f \in Fulfillment : Shp!CreateFulfillment(f))
            \/ UNCHANGED Shp!vars => UNCHANGED <<rolled, work>>
    BY DEF Shp!CreateShipment, Shp!CreateFulfillment, Shp!vars, Shp!orderVars
  <2> QED
    BY <2>2, <2>3, <2>4, <2>5, <2>6, <2>7 DEF Shp!Next, Shp!Proceed, Elsewhere
<1> QED
  BY <1>1, <1>2, ShippingTypeCorrect, PTL DEF Shp!Spec

\* The order shows as fulfilled only when its lines are, although rollups and
\* edits of stale rows overwrite each other.
THEOREM FulfilledSuffices ==
    ASSUME Shp!ShippingAssumption
    PROVE  Shp!Spec => []StatusSuffices
<1>1. Shp!Init => StatusSuffices
  BY DEF Shp!Init, StatusSuffices, Shp!At, Shp!Idle
<1>2. Shp!TypeOK /\ StatusSuffices /\ [Shp!Next]_(Shp!vars) => StatusSuffices'
  <2> SUFFICES ASSUME Shp!TypeOK, StatusSuffices, [Shp!Next]_(Shp!vars)
               PROVE  StatusSuffices'
    OBVIOUS
  <2>0. /\ work \in [Proc -> {Shp!Idle} \cup Shp!Work]
        /\ fulfilled \in [Line -> Nat]
    BY DEF Shp!TypeOK
  <2>1. ASSUME UNCHANGED <<order, fulfilled>>,
               \A q \in Proc : Shp!At(q, "summed")' \/ Shp!At(q, "editing")' =>
                   work'[q] = work[q]
        PROVE  StatusSuffices'
    <3>1. Suffices' = Suffices /\ \A f : Shp!Increased(f)' = Shp!Increased(f)
      BY <2>1 DEF Suffices, Shp!Increased
    <3> QED
      BY <2>1, <3>1 DEF StatusSuffices, Shp!At
  <2>2. ASSUME NEW p \in Proc, Elsewhere(p)
        PROVE  StatusSuffices'
    BY <2>1, <2>2, ElsewhereUnrolled DEF Shp!At, Shp!orderVars
  <2>3. ASSUME NEW p \in Proc, Shp!EditLoad(p)
        PROVE  StatusSuffices'
    <3>1. /\ work'[p] = [pc |-> "editing", order |-> order]
          /\ \A q \in Proc : q # p => work'[q] = work[q]
      BY <2>0, <2>3, ShippingDoOthers DEF Shp!EditLoad
    <3>2. UNCHANGED <<order, fulfilled>>
      BY <2>3 DEF Shp!EditLoad, Shp!orderVars
    <3>3. Suffices' = Suffices /\ \A f : Shp!Increased(f)' = Shp!Increased(f)
      BY <3>2 DEF Suffices, Shp!Increased
    <3> QED
      BY <3>1, <3>2, <3>3 DEF StatusSuffices, Shp!At
  <2>4. ASSUME NEW p \in Proc, Shp!EditSave(p)
        PROVE  StatusSuffices'
    <3>1. /\ work'[p] = Shp!Idle
          /\ \A q \in Proc : q # p => work'[q] = work[q]
      BY <2>0, <2>4, ShippingDoOthers DEF Shp!EditSave
    <3>2. order' = work[p].order /\ Shp!At(p, "editing") /\ UNCHANGED fulfilled
      BY <2>4 DEF Shp!EditSave
    <3>3. Suffices' = Suffices /\ \A f : Shp!Increased(f)' = Shp!Increased(f)
      BY <3>2 DEF Suffices, Shp!Increased
    <3> QED
      BY <3>1, <3>2, <3>3 DEF StatusSuffices, Shp!At, Shp!Idle
  <2>5. ASSUME NEW p \in Proc, NEW f \in Fulfillment, Shp!RollupSum(p, f)
        PROVE  StatusSuffices'
    <3> DEFINE status == Shp!StatusOf(Shp!Increased(f))
    <3>1. status = "fulfilled" =>
             \A l \in Line : Shp!Increased(f)[l] >= Ordered[l]
      BY DEF Shp!StatusOf
    <3>2. /\ Shp!Do(p, [pc |-> "summed", fulfillment |-> f, status |-> status,
                    changed |-> status # order])
          /\ UNCHANGED <<order, fulfilled>>
      BY <2>5 DEF Shp!RollupSum, Shp!orderVars
    <3> HIDE DEF status
    <3>3. /\ work'[p].fulfillment = f /\ work'[p].status = status
          /\ work'[p].pc = "summed"
          /\ \A q \in Proc : q # p => work'[q] = work[q]
      BY <2>0, <3>2, ShippingDoOthers
    <3>4. Suffices' = Suffices /\ \A g : Shp!Increased(g)' = Shp!Increased(g)
      BY <3>2 DEF Suffices, Shp!Increased
    <3> QED
      BY <3>1, <3>2, <3>3, <3>4 DEF StatusSuffices, Shp!At
  <2>6. ASSUME NEW p \in Proc, Shp!RollupCommit(p)
        PROVE  StatusSuffices'
    <3> DEFINE f == work[p].fulfillment
    <3>1. /\ Shp!At(p, "summed") /\ f \in Fulfillment
          /\ fulfilled' = Shp!Increased(f)
          /\ order' = work[p].status \/ order' = order
      BY <2>0, <2>6, ShippingFields DEF Shp!RollupCommit
    <3>2. work'[p] = Shp!Idle /\ \A q \in Proc : q # p => work'[q] = work[q]
      BY <2>0, <2>6, ShippingDoOthers DEF Shp!RollupCommit
    <3> HIDE DEF f
    <3>3. \A l \in Line : /\ fulfilled'[l] = fulfilled[l] + f.qty[l]
                          /\ fulfilled[l] \in Nat /\ f.qty[l] \in Nat
                          /\ Ordered[l] \in Nat
      BY <2>0, <3>1, IncreasedLines
    <3>4. Suffices => Suffices'
      BY <3>3 DEF Suffices
    <3>5. order' = "fulfilled" => Suffices'
      <4>1. CASE order' = order
        BY <3>4, <4>1 DEF StatusSuffices
      <4>2. CASE order' = work[p].status
        BY <3>1, <4>2 DEF StatusSuffices, Suffices, f
      <4> QED
        BY <3>1, <4>1, <4>2
    <3>6. ASSUME NEW q \in Proc
          PROVE  /\ Shp!At(q, "editing")' /\ work'[q].order = "fulfilled" => Suffices'
                 /\ Shp!At(q, "summed")' /\ work'[q].status = "fulfilled" =>
                       \A l \in Line :
                          Shp!Increased(work[q].fulfillment)'[l] >= Ordered[l]
      <4>1. CASE q = p
        BY <3>2, <4>1 DEF Shp!At, Shp!Idle
      <4>2. CASE q # p
        <5> DEFINE g == work[q].fulfillment
        <5>1. work'[q] = work[q]
          BY <3>2, <4>2
        <5>2. Shp!At(q, "editing")' /\ work'[q].order = "fulfilled" => Suffices'
          BY <3>4, <5>1 DEF StatusSuffices, Shp!At
        <5>3. ASSUME Shp!At(q, "summed"), work[q].status = "fulfilled",
                     NEW l \in Line
              PROVE  fulfilled'[l] + g.qty[l] >= Ordered[l]
          <6>1. g \in Fulfillment /\ Shp!Increased(g)[l] >= Ordered[l]
            BY <2>0, <5>3, ShippingFields DEF StatusSuffices
          <6> HIDE DEF g
          <6>2. Shp!Increased(g)[l] = fulfilled[l] + g.qty[l] /\ g.qty[l] \in Nat
            BY <2>0, <6>1, IncreasedLines
          <6>3. fulfilled[l] + g.qty[l] >= Ordered[l]
            BY <6>1, <6>2
          <6>4. /\ fulfilled'[l] = fulfilled[l] + f.qty[l]
                /\ fulfilled[l] \in Nat /\ f.qty[l] \in Nat /\ Ordered[l] \in Nat
            BY <3>3
          <6> QED
            BY <6>2, <6>3, <6>4
        <5>4. \A l \in Line : Shp!Increased(work[q].fulfillment)'[l]
                                 = fulfilled'[l] + g.qty[l]
          BY <5>1 DEF Shp!Increased
        <5> QED
          BY <5>1, <5>2, <5>3, <5>4 DEF Shp!At
      <4> QED
        BY <4>1, <4>2
    <3> QED
      BY <3>5, <3>6 DEF StatusSuffices
  <2>7. ASSUME UNCHANGED <<Shp!orderVars, work>>
        PROVE  StatusSuffices'
    BY <2>1, <2>7 DEF Shp!orderVars
  <2>8. Shp!CreateShipment \/ (\E f \in Fulfillment : Shp!CreateFulfillment(f))
            \/ UNCHANGED Shp!vars => UNCHANGED <<Shp!orderVars, work>>
    BY DEF Shp!CreateShipment, Shp!CreateFulfillment, Shp!vars, Shp!orderVars
  <2> QED
    BY <2>2, <2>3, <2>4, <2>5, <2>6, <2>7, <2>8
       DEF Shp!Next, Shp!Proceed, Elsewhere
<1> QED
  BY <1>1, <1>2, ShippingTypeCorrect, PTL DEF Shp!Spec

\* The units of a line grow by those of a fulfillment that was not counted.
LEMMA CountedGrows ==
    ASSUME Shp!ShippingAssumption,
           NEW l \in Line
    PROVE  /\ Counted(l, {}) = 0
           /\ \A S \in SUBSET Fulfillment : \A f \in Fulfillment \ S :
                 Counted(l, S \cup {f}) = Counted(l, S) + f.qty[l]
<1> DEFINE qty == [f \in Fulfillment |-> f.qty[l]]
<1>1. \A f \in Fulfillment : qty[f] = f.qty[l] /\ qty[f] \in Int
  OBVIOUS
<1>2. Counted(l, {}) = 0
  BY SumOfNone DEF Counted
<1>3. ASSUME NEW S \in SUBSET Fulfillment, NEW f \in Fulfillment \ S
      PROVE  Counted(l, S \cup {f}) = Counted(l, S) + f.qty[l]
  <2> HIDE DEF qty
  <2>1. Summable(qty, S) /\ f \notin S /\ qty[f] \in Int
    BY <1>1, FS_Subset, SameLibrary DEF Summable
  <2>2. SumFunctionOnSet(qty, S \cup {f}) = SumFunctionOnSet(qty, S) + qty[f]
    BY <2>1, SumWith
  <2> QED
    BY <1>1, <2>2 DEF Counted, qty
<1> QED
  BY <1>2, <1>3

\* Each fulfillment counts once in the order's lines, however often its event
\* is delivered, and a fulfilled order has the lines to show for it.
THEOREM LinesAlwaysCount ==
    ASSUME Shp!ShippingAssumption
    PROVE  Shp!Spec => []LinesCountFulfillments
<1> DEFINE Counts == \A l \in Line : fulfilled[l] = Counted(l, rolled)
<1>1. Shp!Init => Counts
  BY CountedGrows DEF Shp!Init
<1>2. Shp!TypeOK /\ RollupsExclude /\ Counts /\ [Shp!Next]_(Shp!vars) => Counts'
  <2> SUFFICES ASSUME Shp!TypeOK, RollupsExclude, Counts, [Shp!Next]_(Shp!vars)
               PROVE  Counts'
    OBVIOUS
  <2>1. ASSUME NEW p \in Proc, Shp!RollupCommit(p)
        PROVE  Counts'
    <3> DEFINE f == work[p].fulfillment
    <3>1. /\ f \in Fulfillment \ rolled
          /\ fulfilled' = Shp!Increased(f) /\ rolled' = rolled \cup {f}
      BY <2>1, ShippingFields DEF Shp!RollupCommit, RollupsExclude, Shp!TypeOK
    <3> HIDE DEF f
    <3>2. rolled \in SUBSET Fulfillment
      BY DEF Shp!TypeOK
    <3>3. ASSUME NEW l \in Line
          PROVE  fulfilled'[l] = Counted(l, rolled')
      <4>1. Counted(l, rolled \cup {f}) = Counted(l, rolled) + f.qty[l]
        BY <3>1, <3>2, CountedGrows
      <4>2. fulfilled'[l] = fulfilled[l] + f.qty[l]
        BY <3>1, IncreasedLines DEF Shp!TypeOK
      <4> QED
        BY <3>1, <4>1, <4>2
    <3> QED
      BY <3>3
  <2>2. ASSUME UNCHANGED <<fulfilled, rolled>>
        PROVE  Counts'
    BY <2>2
  <2>3. ASSUME NEW p \in Proc, Elsewhere(p)
        PROVE  UNCHANGED <<fulfilled, rolled>>
    BY <2>3, ElsewhereUnrolled DEF Shp!orderVars
  <2>4. ASSUME NEW p \in Proc,
               \/ Shp!EditLoad(p) \/ Shp!EditSave(p)
               \/ \E f \in Fulfillment : Shp!RollupSum(p, f)
        PROVE  UNCHANGED <<fulfilled, rolled>>
    BY <2>4 DEF Shp!EditLoad, Shp!EditSave, Shp!RollupSum, Shp!orderVars
  <2>5. Shp!CreateShipment \/ (\E f \in Fulfillment : Shp!CreateFulfillment(f))
            \/ UNCHANGED Shp!vars => UNCHANGED <<fulfilled, rolled>>
    BY DEF Shp!CreateShipment, Shp!CreateFulfillment, Shp!vars, Shp!orderVars
  <2> HIDE DEF Counts
  <2> QED
    BY <2>1, <2>2, <2>3, <2>4, <2>5 DEF Shp!Next, Shp!Proceed, Elsewhere
<1>3. Counts /\ StatusSuffices => LinesCountFulfillments
  BY DEF StatusSuffices, Suffices, LinesCountFulfillments
<1> HIDE DEF Counts
<1> QED
  BY <1>1, <1>2, <1>3, ShippingTypeCorrect, RollupsAlwaysExclude,
     FulfilledSuffices, PTL DEF Shp!Spec
==============================================================================
