---------------------------- MODULE Procurement -----------------------------
(***************************************************************************)
(* purchasing-service: purchase orders, drafted by the merchant or by a    *)
(* reorder rule, and the receipts of their lines; with the handler of      *)
(* purchasing.po.received in inventory-service, which moves what a receipt *)
(* says into stock, one line and one transaction at a time.                *)
(*                                                                         *)
(* A request loads the order with its lines, checks them, and saves them   *)
(* later in a transaction: one action each.  The stock levels received     *)
(* into exist: receipts that have to create one are in Inventory.  Left    *)
(* out: the lines of a draft are not edited, and every line is of a known  *)
(* variant and location.                                                   *)
(*                                                                         *)
(* Bounds: the orders are the members of Po, what a request receives is a  *)
(* member of Receipt, and at most MaxCrash executions die.                 *)
(***************************************************************************)
EXTENDS Integers, Sequences, FiniteSetsExt

CONSTANTS
    Po,        \* possible purchase orders
    PoLine,    \* lines of each of them
    OrderedQty, \* ordered qty of each line
    Receipt,   \* sequences of [line, qty] a request may receive
    Rule,      \* reorder rules
    NoRule,    \* of an order the merchant drafted
    Staff,     \* requests in execution
    Handler,   \* handlers of purchasing.po.received in execution
    MaxCrash

ASSUME ProcurementAssumption ==
    /\ OrderedQty \in Nat \ {0}
    /\ Receipt \subseteq Seq([line : PoLine, qty : Nat \ {0}])
    /\ NoRule \notin Rule
    /\ Staff \cap Handler = {}
    /\ MaxCrash \in Nat

VARIABLES
    po,       \* po[x]: the purchase_order row with its lines' received_qty
    events,   \* purchasing.po.received events
    unacked,  \* those that were not yet handled to their end
    refs,     \* refs of the purchase receipts in the stock ledger
    stocked,  \* stocked[x][l]: units of the line that were moved into stock
    work,     \* work[p]: where execution p is
    crashes

vars == <<po, events, unacked, refs, stocked, work, crashes>>

Status == {"none", "draft", "sent", "confirmed", "partially_received",
           "received", "canceled"}
Row    == [status : Status, rule : Rule \cup {NoRule},
           receivedQty : [PoLine -> 0..OrderedQty]]
Entry  == [line : PoLine, qty : Nat, receivedQty : 0..OrderedQty]
Event  == [po : Po, lines : Seq(Entry)]
Idle   == [pc |-> "idle"]
Work   == [pc : {"saving"}, po : Po, row : Row, lines : Seq(Entry)]
          \cup [pc : {"applying"}, event : Event, next : Nat]

TypeOK ==
    /\ po \in [Po -> Row]
    /\ events \subseteq Event
    /\ unacked \subseteq events
    /\ refs \subseteq Po \X PoLine \X (0..OrderedQty)
    /\ stocked \in [Po -> [PoLine -> Nat]]
    /\ work \in [Staff \cup Handler -> {Idle} \cup Work]
    /\ crashes \in 0..MaxCrash

Init ==
    /\ po = [x \in Po |-> [status |-> "none", rule |-> NoRule,
                           receivedQty |-> [l \in PoLine |-> 0]]]
    /\ events = {} /\ unacked = {} /\ refs = {}
    /\ stocked = [x \in Po |-> [l \in PoLine |-> 0]]
    /\ work = [p \in Staff \cup Handler |-> Idle]
    /\ crashes = 0

At(p, pc) == work[p].pc = pc
Do(p, w)  == work' = [work EXCEPT ![p] = w]

-----------------------------------------------------------------------------
\* PO_STATUS_TRANSITIONS.
Transitions(from) ==
    CASE from = "draft"              -> {"sent", "canceled"}
      [] from = "sent"               -> {"confirmed", "partially_received",
                                         "received", "canceled"}
      [] from = "confirmed"          -> {"partially_received", "received",
                                         "canceled"}
      [] from = "partially_received" -> {"received", "canceled"}
      [] OTHER                       -> {}

\* purchase_order_open_auto_draft_idx: one open order per reorder rule.
Open(row) == row.rule # NoRule /\ row.status \notin {"none", "received", "canceled"}

Indexed(rows) ==
    \A x, y \in Po : Open(rows[x]) /\ Open(rows[y]) /\ x # y =>
        rows[x].rule # rows[y].rule

\* create, by the merchant (NoRule) or for a reorder rule.
Create(x, r) ==
    /\ po[x].status = "none"
    /\ LET rows == [po EXCEPT ![x].status = "draft", ![x].rule = r]
       IN  Indexed(rows) /\ po' = rows
    /\ UNCHANGED <<events, unacked, refs, stocked, work, crashes>>

\* The handler of inventory.reorder.triggered takes the index's violation for
\* a draft that is open already.
ReorderTriggered(x, r) == r \in Rule /\ Create(x, r)

\* A request that passed its checks is to save row, and an event of lines.
Load(p, x, row, lines) ==
    /\ At(p, "idle")
    /\ Do(p, [pc |-> "saving", po |-> x, row |-> row, lines |-> lines])
    /\ UNCHANGED <<po, events, unacked, refs, stocked, crashes>>

Update(p, x) == po[x].status = "draft" /\ Load(p, x, po[x], <<>>)

\* send, confirm and cancel.
Move(p, x, to) ==
    /\ to \in Transitions(po[x].status)
    /\ Load(p, x, [po[x] EXCEPT !.status = to], <<>>)

\* applyReceipt: the entries of one line accumulate.
ReceivedNow(entries, l) ==
    SumFunctionOnSet([i \in DOMAIN entries |-> entries[i].qty],
                     {i \in DOMAIN entries : entries[i].line = l})

Receive(p, x, entries) ==
    LET total  == [l \in PoLine |-> po[x].receivedQty[l] + ReceivedNow(entries, l)]
        status == IF \A l \in PoLine : total[l] >= OrderedQty
                  THEN "received" ELSE "partially_received"
    IN  /\ \A l \in PoLine : total[l] <= OrderedQty
        /\ status \in Transitions(po[x].status)
        /\ Load(p, x, [po[x] EXCEPT !.status = status, !.receivedQty = total],
                [i \in DOMAIN entries |->
                    [line |-> entries[i].line, qty |-> entries[i].qty,
                     receivedQty |-> total[entries[i].line]]])

\* The transaction of a request.  Only the lines received are saved; an order
\* of a rule that cannot be open again throws.
Save(p) ==
    /\ At(p, "saving")
    /\ LET w    == work[p]
           x    == w.po
           mine == {w.lines[i].line : i \in DOMAIN w.lines}
           rows == [po EXCEPT ![x] = [w.row EXCEPT !.receivedQty =
                       [l \in PoLine |-> IF l \in mine THEN w.row.receivedQty[l]
                                       ELSE po[x].receivedQty[l]]]]
           new  == IF w.lines = <<>> THEN {} ELSE {[po |-> x, lines |-> w.lines]}
       IN  IF Indexed(rows)
           THEN /\ po' = rows
                /\ events' = events \cup new
                /\ unacked' = unacked \cup new
           ELSE UNCHANGED <<po, events, unacked>>
    /\ Do(p, Idle)
    /\ UNCHANGED <<refs, stocked, crashes>>

-----------------------------------------------------------------------------
\* applyPoReceived: the event may come for the first time or again.
Deliver(p, e) ==
    /\ At(p, "idle")
    /\ e \in events
    /\ Do(p, [pc |-> "applying", event |-> e, next |-> 1])
    /\ UNCHANGED <<po, events, unacked, refs, stocked, crashes>>

\* Mutant: the key is made of the receipt's own quantity.
RefOfDelta(x, entry) == <<x, entry.line, entry.qty>>

\* The idempotency key poId:lineId:receivedQty.
Ref(x, entry) == <<x, entry.line, entry.receivedQty>>

\* The movement of one line, unless its key is in the ledger.
Record(x, entry) ==
    IF Ref(x, entry) \in refs
    THEN UNCHANGED <<refs, stocked>>
    ELSE /\ refs' = refs \cup {Ref(x, entry)}
         /\ stocked' = [stocked EXCEPT ![x][entry.line] = @ + entry.qty]

\* Mutant: a line that was already processed ends the event.
ApplyLineOrStop(p) ==
    /\ At(p, "applying")
    /\ LET e     == work[p].event
           entry == e.lines[work[p].next]
       IN  /\ Record(e.po, entry)
           /\ IF work[p].next = Len(e.lines) \/ Ref(e.po, entry) \in refs
              THEN Do(p, Idle) /\ unacked' = unacked \ {e}
              ELSE Do(p, [work[p] EXCEPT !.next = @ + 1]) /\ UNCHANGED unacked
    /\ UNCHANGED <<po, events, crashes>>

\* One line after the other; the last one acknowledges the event.
ApplyLine(p) ==
    /\ At(p, "applying")
    /\ LET e     == work[p].event
           entry == e.lines[work[p].next]
       IN  /\ Record(e.po, entry)
           /\ IF work[p].next = Len(e.lines)
              THEN Do(p, Idle) /\ unacked' = unacked \ {e}
              ELSE Do(p, [work[p] EXCEPT !.next = @ + 1]) /\ UNCHANGED unacked
    /\ UNCHANGED <<po, events, crashes>>

Crash(p) ==
    /\ ~At(p, "idle")
    /\ crashes < MaxCrash
    /\ crashes' = crashes + 1
    /\ Do(p, Idle)
    /\ UNCHANGED <<po, events, unacked, refs, stocked>>

Next ==
    \/ \E x \in Po : Create(x, NoRule) \/ \E r \in Rule : ReorderTriggered(x, r)
    \/ \E p \in Staff, x \in Po :
          \/ Update(p, x)
          \/ \E to \in {"sent", "confirmed", "canceled"} : Move(p, x, to)
          \/ \E entries \in Receipt : Receive(p, x, entries)
    \/ \E p \in Staff : Save(p)
    \/ \E p \in Handler : ApplyLine(p) \/ \E e \in events : Deliver(p, e)
    \/ \E p \in Staff \cup Handler : Crash(p)

Spec == Init /\ [][Next]_vars

\* Executions go on, and the broker delivers what is not acknowledged.
Redeliver(x) == \E e \in unacked, p \in Handler : e.po = x /\ Deliver(p, e)

FairSpec ==
    /\ Spec
    /\ \A p \in Staff : WF_vars(Save(p))
    /\ \A p \in Handler : WF_vars(ApplyLine(p))
    /\ \A x \in Po : SF_vars(Redeliver(x))

-----------------------------------------------------------------------------
(* Properties. *)

\* What purchasing-service has received of a line is what inventory-service
\* has moved into stock, less the receipts still on their way: none of them is
\* counted twice or lost, whichever is repeated, overtaken or cut off between
\* two lines.  (Requests of one order that overlap are not covered: both add to
\* the quantity they loaded.)
StockMatchesReceipts ==
    \A x \in Po, l \in PoLine :
        /\ stocked[x][l] <= po[x].receivedQty[l]
        /\ (\A e \in unacked : e.po # x) => stocked[x][l] = po[x].receivedQty[l]

\* Every receipt reaches the stock, though its handler may die between two
\* lines.
ReceiptsReachStock ==
    []<>(\A x \in Po : stocked[x] = po[x].receivedQty)
=============================================================================
