--------------------------- MODULE RefundsProofs ---------------------------
(***************************************************************************)
(* What holds of Refunds for every set of refunds and returns, total, set  *)
(* of requests and handlers, and number of crashes.                        *)
(***************************************************************************)
EXTENDS Refunds, Sums, TLAPS

USE RefundsAssumption

\* A return that may be called resolved.
Refunded(m, row) == row.status = "resolved" =>
                        /\ row.inspected
                        /\ m \in waived \/ \E r \in Succeeded : r.rma = m

\* What an execution carries from one step to the next was settled by
\* payment-service when it was read, and a settled refund stays settled.
LinkedWork(w) ==
    /\ w.pc = "saving_refund" => w.row.status # "refunded"
    /\ w.pc \in {"loaded", "summed"} => w.refund \in Succeeded
    /\ w.pc = "linking" => \E r \in Succeeded : r.rma = w.rma
    /\ w.pc = "resolving" => w.row.status = "resolved" /\ w.row.inspected
    /\ w.pc = "saving_rma" => Refunded(w.rma, w.row)

Linked ==
    /\ \A r \in Refund : refund[r].status = "refunded" => r \in Succeeded
    /\ \A m \in Rma : Refunded(m, rma[m])
    /\ \A p \in Proc : LinkedWork(work[p])

\* A payment status that settled refunds account for.
Backed(o) == /\ o = "refunded" => Sum(Succeeded) >= Total
             /\ o = "partially_refunded" => Succeeded # {}

\* So is every order row that an execution has loaded or is to save.
BackedWork(w) == w.pc \in {"loaded", "summed", "saving_order"} => Backed(w.order)
OrdersBacked  == Backed(order) /\ \A p \in Proc : BackedWork(work[p])

-----------------------------------------------------------------------------
\* What an execution carries with it.
LEMMA WorkFields ==
    ASSUME work \in [Proc -> {Idle} \cup Work], NEW p \in Proc
    PROVE  /\ At(p, "checked") => work[p].refund \in Refund
           /\ At(p, "saving_refund") =>
                 work[p].refund \in Refund /\ work[p].row \in RefundRow
           /\ At(p, "loaded") \/ At(p, "summed") =>
                 /\ work[p] \in [pc : {"loaded", "summed"}, refund : Refund,
                                 order : OrderRow]
                 /\ work[p].refund \in Refund /\ work[p].order \in OrderRow
           /\ At(p, "linking") => work[p].rma \in Rma
           /\ At(p, "saving_order") => work[p].order \in OrderRow
           /\ At(p, "resolving") \/ At(p, "saving_rma") =>
                 /\ work[p] \in [pc : {"resolving", "saving_rma"}, rma : Rma,
                                 row : RmaRow]
                 /\ work[p].rma \in Rma /\ work[p].row \in RmaRow
<1>1. work[p] \in {Idle} \cup Work
  OBVIOUS
<1> QED
  BY <1>1 DEF Idle, Work, At

LEMMA DoType ==
    ASSUME work \in [Proc -> {Idle} \cup Work], NEW p \in Proc,
           NEW w \in {Idle} \cup Work, Do(p, w)
    PROVE  work' \in [Proc -> {Idle} \cup Work]
BY DEF Do

LEMMA DoOthers ==
    ASSUME work \in [Proc -> {Idle} \cup Work], NEW p \in Proc, NEW w, Do(p, w)
    PROVE  work'[p] = w /\ \A q \in Proc : q # p => work'[q] = work[q]
BY DEF Do

\* The rows that an operation on a return saves.
LEMMA RmaRows ==
    ASSUME TypeOK, NEW m \in Rma
    PROVE  /\ rma[m] \in RmaRow
           /\ \A st \in {"approved", "rejected", "expired", "resolved"} :
                 [rma[m] EXCEPT !.status = st] \in RmaRow
           /\ [rma[m] EXCEPT !.inspected = TRUE] \in RmaRow
BY DEF TypeOK, RmaRow

LEMMA SaveNextType ==
    ASSUME TypeOK, NEW p \in Proc, NEW m \in Rma, NEW row \in RmaRow,
           SaveNext(p, m, row)
    PROVE  work' \in [Proc -> {Idle} \cup Work]
<1>1. [pc |-> "saving_rma", rma |-> m, row |-> row] \in {Idle} \cup Work
  BY DEF Work
<1> QED
  BY <1>1, DoType DEF TypeOK, SaveNext

\* Every operation of the returns only plans what it saves later.
ReturnStep(p, m) == \/ Decide(p, m) \/ Expire(p, m) \/ Inspect(p, m)
                    \/ AdvanceShipping(p, m) \/ Resolve(p, m)

LEMMA ReturnStepType ==
    ASSUME TypeOK, NEW p \in Proc, NEW m \in Rma, ReturnStep(p, m)
    PROVE  TypeOK'
<1>0. /\ rma[m] \in RmaRow
      /\ \A st \in {"approved", "rejected", "expired", "resolved"} :
            [rma[m] EXCEPT !.status = st] \in RmaRow
      /\ [rma[m] EXCEPT !.inspected = TRUE] \in RmaRow
  BY RmaRows
<1>1. CASE Decide(p, m)
  <2>1. work' \in [Proc -> {Idle} \cup Work]
    BY <1>0, <1>1, SaveNextType DEF Decide
  <2> QED
    BY <1>1, <2>1 DEF Decide, TypeOK
<1>2. CASE Expire(p, m)
  <2>1. work' \in [Proc -> {Idle} \cup Work]
    BY <1>0, <1>2, SaveNextType DEF Expire
  <2> QED
    BY <1>2, <2>1 DEF Expire, TypeOK
<1>3. CASE Inspect(p, m)
  <2>1. work' \in [Proc -> {Idle} \cup Work]
    BY <1>0, <1>3, SaveNextType DEF Inspect
  <2> QED
    BY <1>3, <2>1 DEF Inspect, TypeOK
<1>4. CASE AdvanceShipping(p, m)
  <2>1. work' \in [Proc -> {Idle} \cup Work]
    BY <1>0, <1>4, SaveNextType DEF AdvanceShipping
  <2> QED
    BY <1>4, <2>1 DEF AdvanceShipping, TypeOK
<1>5. CASE Resolve(p, m)
  <2> DEFINE row == [rma[m] EXCEPT !.status = "resolved"]
  <2>1. row \in RmaRow
    BY <1>0
  <2>2. /\ \/ SaveNext(p, m, row) /\ waived' = waived \cup {m}
           \/ /\ Do(p, [pc |-> "resolving", rma |-> m, row |-> row])
              /\ UNCHANGED waived
        /\ UNCHANGED <<refund, order, rma, commanded, result, crashes>>
    BY <1>5 DEF Resolve
  <2> HIDE DEF row
  <2>3. [pc |-> "resolving", rma |-> m, row |-> row] \in {Idle} \cup Work
    BY <2>1 DEF Work
  <2>4. work' \in [Proc -> {Idle} \cup Work]
    <3>1. CASE SaveNext(p, m, row)
      BY <2>1, <3>1, SaveNextType
    <3>2. CASE Do(p, [pc |-> "resolving", rma |-> m, row |-> row])
      BY <2>3, <3>2, DoType DEF TypeOK
    <3> QED
      BY <2>2, <3>1, <3>2
  <2> QED
    BY <2>2, <2>4 DEF TypeOK
<1> QED
  BY <1>1, <1>2, <1>3, <1>4, <1>5 DEF ReturnStep

\* Type correctness of the refunds, the order's payment status and the
\* returns (refunds.service.ts, returns.service.ts).
THEOREM TypeCorrect == Spec => []TypeOK
<1>1. Init => TypeOK
  BY DEF Init, TypeOK, RefundRow, OrderRow, RmaRow
<1>2. TypeOK /\ [Next]_vars => TypeOK'
  <2> SUFFICES ASSUME TypeOK, [Next]_vars
               PROVE  TypeOK'
    OBVIOUS
  <2>0. work \in [Proc -> {Idle} \cup Work] /\ Idle \in {Idle} \cup Work
    BY DEF TypeOK
  <2>1. ASSUME NEW p \in Proc, NEW r \in Refund, Request(p, r)
        PROVE  TypeOK'
    <3>1. [pc |-> "checked", refund |-> r] \in {Idle} \cup Work
      BY DEF Work
    <3>2. work' \in [Proc -> {Idle} \cup Work]
      BY <2>0, <2>1, <3>1, DoType DEF Request
    <3> QED
      BY <2>1, <3>2 DEF Request, TypeOK
  <2>2. ASSUME NEW p \in Proc, InsertRequest(p)
        PROVE  TypeOK'
    <3>1. work[p].refund \in Refund
      BY <2>0, <2>2, WorkFields DEF InsertRequest
    <3>2. refund' \in [Refund -> RefundRow]
      BY <2>2, <3>1 DEF InsertRequest, TypeOK, RefundRow
    <3>3. work' \in [Proc -> {Idle} \cup Work]
      BY <2>0, <2>2, DoType DEF InsertRequest
    <3> QED
      BY <2>2, <3>2, <3>3 DEF InsertRequest, TypeOK
  <2>3. ASSUME NEW p \in Proc, NEW r \in Refund, Review(p, r)
        PROVE  TypeOK'
    <3>1. PICK approve \in BOOLEAN :
             Do(p, [pc |-> "saving_refund", refund |-> r, commands |-> approve,
                    row |-> [refund[r] EXCEPT !.status =
                                IF approve THEN "processing" ELSE "declined"]])
      BY <2>3 DEF Review
    <3>2. [refund[r] EXCEPT !.status =
              IF approve THEN "processing" ELSE "declined"] \in RefundRow
      BY DEF TypeOK, RefundRow
    <3>3. [pc |-> "saving_refund", refund |-> r, commands |-> approve,
           row |-> [refund[r] EXCEPT !.status =
                       IF approve THEN "processing" ELSE "declined"]]
             \in {Idle} \cup Work
      BY <3>2 DEF Work
    <3>4. work' \in [Proc -> {Idle} \cup Work]
      BY <2>0, <3>1, <3>3, DoType
    <3> QED
      BY <2>3, <3>4 DEF Review, TypeOK
  <2>4. ASSUME NEW p \in Proc, NEW r \in Refund, FailLoad(p, r)
        PROVE  TypeOK'
    <3>1. [refund[r] EXCEPT !.failed = TRUE] \in RefundRow
      BY DEF TypeOK, RefundRow
    <3>2. [pc |-> "saving_refund", refund |-> r, commands |-> FALSE,
           row |-> [refund[r] EXCEPT !.failed = TRUE]] \in {Idle} \cup Work
      BY <3>1 DEF Work
    <3>3. work' \in [Proc -> {Idle} \cup Work]
      BY <2>0, <2>4, <3>2, DoType DEF FailLoad
    <3> QED
      BY <2>4, <3>3 DEF FailLoad, TypeOK
  <2>5. ASSUME NEW p \in Proc, SaveRefund(p)
        PROVE  TypeOK'
    <3>1. work[p].refund \in Refund /\ work[p].row \in RefundRow
      BY <2>0, <2>5, WorkFields DEF SaveRefund
    <3>2. work' \in [Proc -> {Idle} \cup Work]
      BY <2>0, <2>5, DoType DEF SaveRefund
    <3> QED
      BY <2>5, <3>1, <3>2 DEF SaveRefund, TypeOK
  <2>6. ASSUME NEW p \in Proc, NEW r \in Refund, SettleLoad(p, r)
        PROVE  TypeOK'
    <3>1. [pc |-> "loaded", refund |-> r, order |-> order] \in {Idle} \cup Work
      BY DEF TypeOK, Work
    <3>2. work' \in [Proc -> {Idle} \cup Work]
      BY <2>0, <2>6, <3>1, DoType DEF SettleLoad
    <3> QED
      BY <2>6, <3>2 DEF SettleLoad, TypeOK
  <2>7. ASSUME NEW p \in Proc, SettleSum(p)
        PROVE  TypeOK'
    <3>1. work[p] \in [pc : {"loaded", "summed"}, refund : Refund,
                       order : OrderRow]
      BY <2>0, <2>7, WorkFields DEF SettleSum
    <3>2. Shown(work[p].refund) \in OrderRow
      BY DEF Shown, OrderRow
    <3>3. [work[p] EXCEPT !.pc = "summed", !.order = Shown(work[p].refund)]
             \in {Idle} \cup Work
      BY <3>1, <3>2 DEF Work
    <3>4. work' \in [Proc -> {Idle} \cup Work]
      BY <2>0, <2>7, <3>3, DoType DEF SettleSum
    <3> QED
      BY <2>7, <3>4 DEF SettleSum, TypeOK
  <2>8. ASSUME NEW p \in Proc, SettleCommit(p)
        PROVE  TypeOK'
    <3>1. work[p].refund \in Refund /\ work[p].order \in OrderRow
      BY <2>0, <2>8, WorkFields DEF SettleCommit
    <3>2. refund' \in [Refund -> RefundRow]
      BY <2>8, <3>1 DEF SettleCommit, TypeOK, RefundRow
    <3>3. work[p].refund.rma \in Rma =>
             [pc |-> "linking", rma |-> work[p].refund.rma] \in {Idle} \cup Work
      BY DEF Work
    <3>4. work' \in [Proc -> {Idle} \cup Work]
      BY <2>0, <2>8, <3>3, DoType DEF SettleCommit
    <3> QED
      BY <2>8, <3>1, <3>2, <3>4 DEF SettleCommit, TypeOK
  <2>9. ASSUME NEW r \in Refund, ExecuteRefund(r)
        PROVE  TypeOK'
    BY <2>9 DEF ExecuteRefund, Payments!Settle, TypeOK
  <2>10. ASSUME NEW p \in Proc, EditLoad(p)
         PROVE  TypeOK'
    <3>1. [pc |-> "saving_order", order |-> order] \in {Idle} \cup Work
      BY DEF TypeOK, Work
    <3>2. work' \in [Proc -> {Idle} \cup Work]
      BY <2>0, <2>10, <3>1, DoType DEF EditLoad
    <3> QED
      BY <2>10, <3>2 DEF EditLoad, TypeOK
  <2>11. ASSUME NEW p \in Proc, EditSave(p)
         PROVE  TypeOK'
    <3>1. work[p].order \in OrderRow
      BY <2>0, <2>11, WorkFields DEF EditSave
    <3>2. work' \in [Proc -> {Idle} \cup Work]
      BY <2>0, <2>11, DoType DEF EditSave
    <3> QED
      BY <2>11, <3>1, <3>2 DEF EditSave, TypeOK
  <2>12. ASSUME NEW m \in Rma, CreateRma(m)
         PROVE  TypeOK'
    BY <2>12 DEF CreateRma, TypeOK, RmaRow
  <2>13. ASSUME NEW p \in Proc, NEW m \in Rma, ReturnStep(p, m)
         PROVE  TypeOK'
    BY <2>13, ReturnStepType
  <2>14. ASSUME NEW p \in Proc, ResolveCheck(p)
         PROVE  TypeOK'
    <3>1. work[p] \in [pc : {"resolving", "saving_rma"}, rma : Rma, row : RmaRow]
      BY <2>0, <2>14, WorkFields DEF ResolveCheck
    <3>2. [work[p] EXCEPT !.pc = "saving_rma"] \in {Idle} \cup Work
      BY <3>1 DEF Work
    <3>3. work' \in [Proc -> {Idle} \cup Work]
      BY <2>0, <2>14, <3>2, DoType DEF ResolveCheck
    <3> QED
      BY <2>14, <3>3 DEF ResolveCheck, TypeOK
  <2>15. ASSUME NEW p \in Proc, SettleFromRefund(p)
         PROVE  TypeOK'
    <3> DEFINE m == work[p].rma
    <3>1. m \in Rma
      BY <2>0, <2>15, WorkFields DEF SettleFromRefund
    <3>2. /\ \/ SaveNext(p, m, [rma[m] EXCEPT !.status = "resolved"])
             \/ Do(p, Idle)
          /\ UNCHANGED <<refund, order, rma, waived, commanded, result, crashes>>
      BY <2>15 DEF SettleFromRefund
    <3> HIDE DEF m
    <3>3. [rma[m] EXCEPT !.status = "resolved"] \in RmaRow
      BY <3>1, RmaRows
    <3>4. work' \in [Proc -> {Idle} \cup Work]
      BY <2>0, <3>1, <3>2, <3>3, DoType, SaveNextType
    <3> QED
      BY <3>2, <3>4 DEF TypeOK
  <2>16. ASSUME NEW p \in Proc, SaveRma(p)
         PROVE  TypeOK'
    <3>1. work[p].rma \in Rma /\ work[p].row \in RmaRow
      BY <2>0, <2>16, WorkFields DEF SaveRma
    <3>2. work' \in [Proc -> {Idle} \cup Work]
      BY <2>0, <2>16, DoType DEF SaveRma
    <3> QED
      BY <2>16, <3>1, <3>2 DEF SaveRma, TypeOK
  <2>17. ASSUME NEW p \in Proc, Crash(p)
         PROVE  TypeOK'
    <3>1. work' \in [Proc -> {Idle} \cup Work]
      BY <2>0, <2>17, DoType DEF Crash
    <3> QED
      BY <2>17, <3>1 DEF Crash, TypeOK
  <2>18. CASE UNCHANGED vars
    BY <2>18 DEF vars, TypeOK
  <2> QED
    BY <2>1, <2>2, <2>3, <2>4, <2>5, <2>6, <2>7, <2>8, <2>9, <2>10, <2>11,
       <2>12, <2>13, <2>14, <2>15, <2>16, <2>17, <2>18
       DEF Next, Proceed, Ask, Hear, Proc, ReturnStep
<1> QED
  BY <1>1, <1>2, PTL DEF Spec

-----------------------------------------------------------------------------
(* A resolved return has a settled refund. *)

\* What payment-service settled, and what the merchant waived, stays so.
LEMMA SettledStays ==
    ASSUME TypeOK, [Next]_vars
    PROVE  Succeeded \subseteq Succeeded' /\ waived \subseteq waived'
<1>1. CASE UNCHANGED <<result, waived>>
  BY <1>1 DEF Succeeded
<1>2. ASSUME NEW r \in Refund, ExecuteRefund(r)
      PROVE  Succeeded \subseteq Succeeded' /\ UNCHANGED waived
  BY <1>2 DEF ExecuteRefund, Payments!Settle, Succeeded, TypeOK
<1>3. ASSUME NEW p \in Proc, NEW m \in Rma, Resolve(p, m)
      PROVE  Succeeded \subseteq Succeeded' /\ waived \subseteq waived'
  BY <1>3 DEF Resolve, Succeeded
<1>4. ASSUME NEW p \in Proc, Proceed(p) \/ Crash(p)
      PROVE  UNCHANGED <<result, waived>>
  BY <1>4 DEF Proceed, InsertRequest, SaveRefund, EditSave, SettleSum,
     SettleCommit, SettleFromRefund, ResolveCheck, SaveRma, Crash
<1>5. ASSUME NEW p \in Proc, Ask(p), ~(\E m \in Rma : Resolve(p, m))
      PROVE  UNCHANGED <<result, waived>>
  BY <1>5 DEF Ask, EditLoad, Request, Review, Decide, Inspect, AdvanceShipping
<1>6. ASSUME NEW p \in Proc, NEW r \in Refund, Hear(p, r)
      PROVE  UNCHANGED <<result, waived>>
  BY <1>6 DEF Hear, FailLoad, SettleLoad
<1>7. ASSUME NEW p \in Proc, NEW m \in Rma, Expire(p, m)
      PROVE  UNCHANGED <<result, waived>>
  BY <1>7 DEF Expire
<1>8. ASSUME NEW m \in Rma, CreateRma(m)
      PROVE  UNCHANGED <<result, waived>>
  BY <1>8 DEF CreateRma
<1>9. UNCHANGED vars => UNCHANGED <<result, waived>>
  BY DEF vars
<1> QED
  BY <1>1, <1>2, <1>3, <1>4, <1>5, <1>6, <1>7, <1>8, <1>9 DEF Next, Proc

\* A step keeps Linked if what it writes and carries on is linked.
LEMMA LinkedStep ==
    ASSUME Linked, Succeeded \subseteq Succeeded', waived \subseteq waived',
           \A r \in Refund : refund'[r].status = "refunded" => r \in Succeeded,
           \A m \in Rma : Refunded(m, rma'[m]),
           \A q \in Proc : work'[q] = work[q] \/ LinkedWork(work'[q])
    PROVE  Linked'
<1>1. \A m \in Rma : Refunded(m, rma[m])'
  BY DEF Refunded
<1>2. ASSUME NEW q \in Proc
      PROVE  LinkedWork(work[q])'
  <2>1. LinkedWork(work'[q])
    BY DEF Linked
  <2> QED
    BY <2>1 DEF LinkedWork, Refunded
<1> QED
  BY <1>1, <1>2 DEF Linked

\* Whatever staff and handlers have loaded before, what they act on was
\* settled (refunds.service.ts, handleRefundSucceeded()).
THEOREM AlwaysLinked == Spec => []Linked
<1>1. Init => Linked
  BY DEF Init, Linked, LinkedWork, Refunded, Idle
<1>2. TypeOK /\ Linked /\ [Next]_vars => Linked'
  <2> SUFFICES ASSUME TypeOK, Linked, [Next]_vars
               PROVE  Linked'
    OBVIOUS
  <2>0. /\ work \in [Proc -> {Idle} \cup Work]
        /\ Succeeded \subseteq Succeeded' /\ waived \subseteq waived'
        /\ \A r \in Refund : refund[r].status = "refunded" => r \in Succeeded
        /\ \A m \in Rma : Refunded(m, rma[m])
        /\ \A q \in Proc : LinkedWork(work[q])
        /\ LinkedWork(Idle)
    BY SettledStays DEF TypeOK, Linked, LinkedWork, Idle
  <2>1. ASSUME NEW p \in Proc, NEW w, Do(p, w), LinkedWork(w),
               UNCHANGED <<refund, rma>>
        PROVE  Linked'
    <3>1. work'[p] = w /\ \A q \in Proc : q # p => work'[q] = work[q]
      BY <2>0, <2>1, DoOthers
    <3> QED
      BY <2>0, <2>1, <3>1, LinkedStep
  <2>2. ASSUME UNCHANGED <<refund, rma, work>>
        PROVE  Linked'
    BY <2>0, <2>2, LinkedStep
  <2>3. ASSUME NEW p \in Proc, NEW m \in Rma, NEW row,
               SaveNext(p, m, row), Refunded(m, row), UNCHANGED <<refund, rma>>
        PROVE  Linked'
    BY <2>1, <2>3 DEF SaveNext, LinkedWork
  <2>4. ASSUME NEW p \in Proc, NEW r \in Refund, Request(p, r)
        PROVE  Linked'
    BY <2>1, <2>4 DEF Request, LinkedWork
  <2>5. ASSUME NEW p \in Proc, InsertRequest(p)
        PROVE  Linked'
    <3>1. work[p].refund \in Refund
      BY <2>0, <2>5, WorkFields DEF InsertRequest
    <3>2. \A r \in Refund : refund'[r].status = "refunded" => r \in Succeeded
      BY <2>0, <2>5, <3>1 DEF InsertRequest, TypeOK, RefundRow
    <3>3. work'[p] = Idle /\ \A q \in Proc : q # p => work'[q] = work[q]
      BY <2>0, <2>5, DoOthers DEF InsertRequest
    <3> QED
      BY <2>0, <2>5, <3>2, <3>3, LinkedStep DEF InsertRequest
  <2>6. ASSUME NEW p \in Proc, NEW r \in Refund, Review(p, r)
        PROVE  Linked'
    <3>1. PICK approve \in BOOLEAN :
             Do(p, [pc |-> "saving_refund", refund |-> r, commands |-> approve,
                    row |-> [refund[r] EXCEPT !.status =
                                IF approve THEN "processing" ELSE "declined"]])
      BY <2>6 DEF Review
    <3>2. [refund[r] EXCEPT !.status =
              IF approve THEN "processing" ELSE "declined"].status # "refunded"
      BY DEF TypeOK, RefundRow
    <3>3. UNCHANGED <<refund, rma>>
      BY <2>6 DEF Review
    <3> QED
      BY <2>1, <3>1, <3>2, <3>3 DEF LinkedWork
  <2>7. ASSUME NEW p \in Proc, NEW r \in Refund, FailLoad(p, r)
        PROVE  Linked'
    <3>1. [refund[r] EXCEPT !.failed = TRUE].status # "refunded"
      BY <2>7 DEF FailLoad, TypeOK, RefundRow
    <3> QED
      BY <2>1, <2>7, <3>1 DEF FailLoad, LinkedWork
  <2>8. ASSUME NEW p \in Proc, SaveRefund(p)
        PROVE  Linked'
    <3>1. /\ work[p].refund \in Refund
          /\ work[p].row.status # "refunded"
      BY <2>0, <2>8, WorkFields DEF SaveRefund, LinkedWork, At
    <3>2. \A r \in Refund : refund'[r].status = "refunded" => r \in Succeeded
      BY <2>0, <2>8, <3>1 DEF SaveRefund, TypeOK
    <3>3. work'[p] = Idle /\ \A q \in Proc : q # p => work'[q] = work[q]
      BY <2>0, <2>8, DoOthers DEF SaveRefund
    <3> QED
      BY <2>0, <2>8, <3>2, <3>3, LinkedStep DEF SaveRefund
  <2>9. ASSUME NEW p \in Proc, NEW r \in Refund, SettleLoad(p, r)
        PROVE  Linked'
    BY <2>1, <2>9 DEF SettleLoad, LinkedWork, Succeeded
  <2>10. ASSUME NEW p \in Proc, SettleSum(p)
         PROVE  Linked'
    <3> DEFINE w == [work[p] EXCEPT !.pc = "summed",
                                    !.order = Shown(work[p].refund)]
    <3>1. w.pc = "summed" /\ w.refund \in Succeeded
      <4>1. work[p] \in [pc : {"loaded", "summed"}, refund : Refund,
                         order : OrderRow]
        BY <2>0, <2>10, WorkFields DEF SettleSum
      <4>2. work[p].refund \in Succeeded
        BY <2>0, <2>10 DEF SettleSum, LinkedWork, At
      <4> QED
        BY <4>1, <4>2
    <3>2. Do(p, w) /\ UNCHANGED <<refund, rma>>
      BY <2>10 DEF SettleSum
    <3> HIDE DEF w
    <3> QED
      BY <2>1, <3>1, <3>2 DEF LinkedWork
  <2>11. ASSUME NEW p \in Proc, SettleCommit(p)
         PROVE  Linked'
    <3> DEFINE r == work[p].refund
               w == IF r.rma \in Rma THEN [pc |-> "linking", rma |-> r.rma]
                                     ELSE Idle
    <3>1. r \in Refund /\ r \in Succeeded
      BY <2>0, <2>11, WorkFields DEF SettleCommit, LinkedWork, At
    <3>2. /\ refund' = [refund EXCEPT ![r].status = "refunded"]
          /\ Do(p, w) /\ UNCHANGED rma
      BY <2>11 DEF SettleCommit
    <3>3. LinkedWork(w)
      BY <2>0, <3>1 DEF LinkedWork
    <3> HIDE DEF r, w
    <3>4. \A x \in Refund : refund'[x].status = "refunded" => x \in Succeeded
      BY <2>0, <3>1, <3>2 DEF TypeOK, RefundRow
    <3>5. work'[p] = w /\ \A q \in Proc : q # p => work'[q] = work[q]
      BY <2>0, <3>2, DoOthers
    <3> QED
      BY <2>0, <3>2, <3>3, <3>4, <3>5, LinkedStep
  <2>12. ASSUME NEW r \in Refund, ExecuteRefund(r)
         PROVE  Linked'
    BY <2>2, <2>12 DEF ExecuteRefund
  <2>13. ASSUME NEW p \in Proc, EditLoad(p) \/ EditSave(p) \/ Crash(p)
         PROVE  Linked'
    BY <2>0, <2>1, <2>13 DEF EditLoad, EditSave, Crash, LinkedWork
  <2>14. ASSUME NEW m \in Rma, CreateRma(m)
         PROVE  Linked'
    <3>1. \A n \in Rma : Refunded(n, rma'[n])
      BY <2>0, <2>14 DEF CreateRma, TypeOK, RmaRow, Refunded
    <3> QED
      BY <2>0, <2>14, <3>1, LinkedStep DEF CreateRma
  <2>15. ASSUME NEW p \in Proc, NEW m \in Rma, Decide(p, m) \/ Expire(p, m)
         PROVE  Linked'
    <3>1. PICK st \in {"approved", "rejected", "expired"} :
             SaveNext(p, m, [rma[m] EXCEPT !.status = st])
      BY <2>15 DEF Decide, Expire
    <3>2. [rma[m] EXCEPT !.status = st].status # "resolved"
      BY DEF TypeOK, RmaRow
    <3>3. UNCHANGED <<refund, rma>>
      BY <2>15 DEF Decide, Expire
    <3> QED
      BY <2>3, <3>1, <3>2, <3>3 DEF Refunded
  <2>16. ASSUME NEW p \in Proc, NEW m \in Rma, Inspect(p, m)
         PROVE  Linked'
    <3>1. [rma[m] EXCEPT !.inspected = TRUE].status # "resolved"
      BY <2>16 DEF Inspect, TypeOK, RmaRow
    <3>2. /\ SaveNext(p, m, [rma[m] EXCEPT !.inspected = TRUE])
          /\ UNCHANGED <<refund, rma>>
      BY <2>16 DEF Inspect
    <3> QED
      BY <2>3, <3>1, <3>2 DEF Refunded
  <2>17. ASSUME NEW p \in Proc, NEW m \in Rma, AdvanceShipping(p, m)
         PROVE  Linked'
    BY <2>0, <2>3, <2>17 DEF AdvanceShipping
  <2>18. ASSUME NEW p \in Proc, NEW m \in Rma, Resolve(p, m)
         PROVE  Linked'
    <3> DEFINE row == [rma[m] EXCEPT !.status = "resolved"]
    <3>1. row.status = "resolved" /\ row.inspected
      BY <2>18 DEF Resolve, Resolvable, TypeOK, RmaRow
    <3>2. /\ \/ SaveNext(p, m, row) /\ waived' = waived \cup {m}
             \/ Do(p, [pc |-> "resolving", rma |-> m, row |-> row])
          /\ UNCHANGED <<refund, rma>>
      BY <2>18 DEF Resolve
    <3> HIDE DEF row
    <3>3. CASE SaveNext(p, m, row) /\ waived' = waived \cup {m}
      <4>1. work'[p] = [pc |-> "saving_rma", rma |-> m, row |-> row]
        BY <2>0, <3>3, DoOthers DEF SaveNext
      <4>2. /\ work'[p].pc = "saving_rma"
            /\ work'[p].rma = m /\ work'[p].row = row
        BY <4>1
      <4>3. \A q \in Proc : q # p => work'[q] = work[q]
        BY <2>0, <3>3, DoOthers DEF SaveNext
      <4>4. \A q \in Proc \ {p} : LinkedWork(work[q])'
        <5>1. ASSUME NEW q \in Proc \ {p}
              PROVE  LinkedWork(work[q])'
          <6>1. work'[q] = work[q] /\ LinkedWork(work[q])
            BY <2>0, <4>3
          <6> QED
            BY <2>0, <6>1 DEF LinkedWork, Refunded
        <5> QED
          BY <5>1
      <4>5. LinkedWork(work[p])'
        BY <3>1, <3>3, <4>2 DEF LinkedWork, Refunded
      <4>6. /\ \A r \in Refund : refund'[r].status = "refunded" => r \in Succeeded'
            /\ \A n \in Rma : Refunded(n, rma[n])'
        BY <2>0, <3>2 DEF Refunded
      <4> QED
        BY <4>4, <4>5, <4>6 DEF Linked
    <3>4. CASE Do(p, [pc |-> "resolving", rma |-> m, row |-> row])
      BY <2>1, <3>1, <3>2, <3>4 DEF LinkedWork
    <3> QED
      BY <3>2, <3>3, <3>4
  <2>19. ASSUME NEW p \in Proc, ResolveCheck(p)
         PROVE  Linked'
    <3> DEFINE w == [work[p] EXCEPT !.pc = "saving_rma"]
    <3>1. /\ work[p] \in [pc : {"resolving", "saving_rma"}, rma : Rma, row : RmaRow]
          /\ work[p].row.status = "resolved" /\ work[p].row.inspected
      BY <2>0, <2>19, WorkFields DEF ResolveCheck, LinkedWork, At
    <3>2. w.pc = "saving_rma" /\ w.rma = work[p].rma /\ w.row = work[p].row
      BY <3>1
    <3>3. /\ \/ Do(p, Idle)
             \/ Do(p, w) /\ \E r \in Having("refunded") : r.rma = work[p].rma
          /\ UNCHANGED <<refund, rma>>
      BY <2>19 DEF ResolveCheck
    <3> HIDE DEF w
    <3>4. CASE Do(p, w) /\ \E r \in Having("refunded") : r.rma = work[p].rma
      <4>1. LinkedWork(w)
        BY <2>0, <3>1, <3>2, <3>4 DEF LinkedWork, Refunded, Having
      <4> QED
        BY <2>1, <3>3, <3>4, <4>1
    <3> QED
      BY <2>0, <2>1, <3>3, <3>4
  <2>20. ASSUME NEW p \in Proc, SettleFromRefund(p)
         PROVE  Linked'
    <3> DEFINE m == work[p].rma
               row == [rma[m] EXCEPT !.status = "resolved"]
    <3>1. m \in Rma /\ \E r \in Succeeded : r.rma = m
      BY <2>0, <2>20, WorkFields DEF SettleFromRefund, LinkedWork, At
    <3>2. /\ (Resolvable(m) /\ SaveNext(p, m, row)) \/ Do(p, Idle)
          /\ UNCHANGED <<refund, rma>>
      BY <2>20 DEF SettleFromRefund
    <3> HIDE DEF m
    <3>3. Resolvable(m) => row.inspected
      BY <3>1 DEF Resolvable, TypeOK, RmaRow
    <3> HIDE DEF row
    <3> QED
      BY <2>0, <2>1, <2>3, <3>1, <3>2, <3>3 DEF Refunded
  <2>21. ASSUME NEW p \in Proc, SaveRma(p)
         PROVE  Linked'
    <3>1. work[p].rma \in Rma /\ Refunded(work[p].rma, work[p].row)
      BY <2>0, <2>21, WorkFields DEF SaveRma, LinkedWork, At
    <3>2. \A m \in Rma : Refunded(m, rma'[m])
      BY <2>0, <2>21, <3>1 DEF SaveRma, TypeOK
    <3>3. work'[p] = Idle /\ \A q \in Proc : q # p => work'[q] = work[q]
      BY <2>0, <2>21, DoOthers DEF SaveRma
    <3> QED
      BY <2>0, <2>21, <3>2, <3>3, LinkedStep DEF SaveRma
  <2>22. CASE UNCHANGED vars
    BY <2>2, <2>22 DEF vars
  <2> QED
    BY <2>4, <2>5, <2>6, <2>7, <2>8, <2>9, <2>10, <2>11, <2>12, <2>13, <2>14,
       <2>15, <2>16, <2>17, <2>18, <2>19, <2>20, <2>21, <2>22
       DEF Next, Proceed, Ask, Hear, Proc
<1> QED
  BY <1>1, <1>2, TypeCorrect, PTL DEF Spec

\* A return is called resolved only when it was inspected and its refund was
\* waived or settled by payment-service, whatever rows staff and handlers
\* have loaded before (returns.service.ts, resolve(), settleFromRefund()).
THEOREM ResolvedAlwaysRefunded == Spec => []ResolvedIsRefunded
<1>1. Linked => ResolvedIsRefunded
  BY DEF Linked, Refunded, ResolvedIsRefunded
<1> QED
  BY <1>1, AlwaysLinked, PTL

-----------------------------------------------------------------------------
(* The payment status of the order. *)

\* Sums of refunds: natural numbers that grow with the set, by the amount of
\* each refund added.
LEMMA SumsOfRefunds ==
    /\ \A S \in SUBSET Refund : Sum(S) \in Nat
    /\ \A S, T \in SUBSET Refund : S \subseteq T => Sum(S) <= Sum(T)
    /\ \A S \in SUBSET Refund : \A r \in Refund \ S :
          Sum(S \cup {r}) = Sum(S) + r.amount
    /\ Sum({}) = 0
<1> DEFINE amount == [r \in Refund |-> r.amount]
<1>1. \A r \in Refund : amount[r] = r.amount /\ amount[r] \in Nat /\ amount[r] \in Int
  OBVIOUS
<1>2. \A S : Sum(S) = SumFunctionOnSet(amount, S)
  BY DEF Sum
<1> HIDE DEF amount
<1>3. ASSUME NEW S \in SUBSET Refund
      PROVE  IsFiniteSet(S) /\ Summable(amount, S)
  BY <1>1, FS_Subset DEF Summable
<1>4. ASSUME NEW S \in SUBSET Refund
      PROVE  /\ Sum(S) \in Nat
             /\ \A T \in SUBSET S : Sum(T) <= Sum(S)
  <2>1. ASSUME NEW T \in SUBSET S
        PROVE  /\ SumFunctionOnSet(amount, T) \in Nat
               /\ SumFunctionOnSet(amount, T) <= SumFunctionOnSet(amount, S)
    <3>1. IsFiniteSet(S) /\ \A r \in S : amount[r] \in Nat
      BY <1>1, <1>3
    <3> QED
      BY <3>1, SumOfPart
  <2> QED
    BY <1>2, <2>1
<1>5. ASSUME NEW S \in SUBSET Refund, NEW r \in Refund \ S
      PROVE  Sum(S \cup {r}) = Sum(S) + r.amount
  <2>1. Summable(amount, S) /\ r \notin S /\ amount[r] \in Int
    BY <1>1, <1>3
  <2>2. SumFunctionOnSet(amount, S \cup {r}) = SumFunctionOnSet(amount, S) + amount[r]
    BY <2>1, SumWith
  <2> QED
    BY <1>1, <1>2, <2>2
<1>6. Sum({}) = 0
  BY <1>2, SumOfNone
<1>7. \A S, T \in SUBSET Refund : S \subseteq T => Sum(S) <= Sum(T)
  BY <1>4
<1> QED
  BY <1>4, <1>5, <1>6, <1>7

\* More refunds that were settled sum up to no less.
LEMMA SettledSumUpToMore ==
    \A S, T \in SUBSET Refund : S \subseteq T /\ Sum(S) >= Total => Sum(T) >= Total
BY SumsOfRefunds

\* A step keeps OrdersBacked if what it writes and carries on is backed.
LEMMA BackedStep ==
    ASSUME OrdersBacked, Succeeded \subseteq Succeeded', Backed(order'),
           \A q \in Proc : work'[q] = work[q] \/ BackedWork(work'[q])
    PROVE  OrdersBacked'
<1>1. Succeeded \in SUBSET Refund /\ Succeeded' \in SUBSET Refund
  BY DEF Succeeded
<1>2. ASSUME NEW o, Backed(o)
      PROVE  Backed(o)'
  BY <1>1, <1>2, SettledSumUpToMore DEF Backed
<1>3. Backed(order)'
  BY <1>1, SettledSumUpToMore DEF Backed
<1>4. ASSUME NEW q \in Proc
      PROVE  BackedWork(work[q])'
  <2>1. BackedWork(work'[q])
    BY DEF OrdersBacked
  <2> QED
    BY <1>1, <2>1, SettledSumUpToMore DEF BackedWork, Backed
<1> QED
  BY <1>3, <1>4 DEF OrdersBacked

\* The order shows as refunded, or as partially refunded, only on the
\* strength of refunds that payment-service settled, although settlements and
\* edits overwrite each other (payment-status-rollup.util.ts).
THEOREM ShownAlwaysSettled == Spec => []ShownIsSettled
<1>1. Init => OrdersBacked
  BY DEF Init, OrdersBacked, Backed, BackedWork, Idle
<1>2. TypeOK /\ Linked /\ OrdersBacked /\ [Next]_vars => OrdersBacked'
  <2> SUFFICES ASSUME TypeOK, Linked, OrdersBacked, [Next]_vars
               PROVE  OrdersBacked'
    OBVIOUS
  <2>0. /\ work \in [Proc -> {Idle} \cup Work]
        /\ Succeeded \subseteq Succeeded'
        /\ Succeeded \in SUBSET Refund
        /\ Backed(order) /\ \A q \in Proc : BackedWork(work[q])
        /\ BackedWork(Idle)
    BY SettledStays DEF TypeOK, OrdersBacked, BackedWork, Idle, Succeeded
  <2>1. ASSUME NEW p \in Proc, NEW w, Do(p, w), BackedWork(w),
               order' = order \/ Backed(order')
        PROVE  OrdersBacked'
    <3>1. work'[p] = w /\ \A q \in Proc : q # p => work'[q] = work[q]
      BY <2>0, <2>1, DoOthers
    <3> QED
      BY <2>0, <2>1, <3>1, BackedStep
  <2>2. ASSUME UNCHANGED <<order, work>>
        PROVE  OrdersBacked'
    BY <2>0, <2>2, BackedStep
  <2>3. ASSUME NEW p \in Proc, NEW w, Do(p, w), UNCHANGED order,
               w.pc \notin {"loaded", "summed", "saving_order"}
        PROVE  OrdersBacked'
    BY <2>1, <2>3 DEF BackedWork
  <2>4. ASSUME NEW p \in Proc, NEW r \in Refund,
               Request(p, r) \/ Review(p, r) \/ FailLoad(p, r)
        PROVE  OrdersBacked'
    BY <2>3, <2>4 DEF Request, Review, FailLoad
  <2>5. ASSUME NEW p \in Proc,
               \/ InsertRequest(p) \/ SaveRefund(p) \/ SettleFromRefund(p)
               \/ SaveRma(p) \/ Crash(p)
        PROVE  OrdersBacked'
    BY <2>3, <2>5 DEF InsertRequest, SaveRefund, SettleFromRefund, SaveNext,
       SaveRma, Crash, Idle
  <2>6. ASSUME NEW p \in Proc, NEW m \in Rma, ReturnStep(p, m)
        PROVE  OrdersBacked'
    BY <2>3, <2>6 DEF ReturnStep, Decide, Expire, Inspect, AdvanceShipping,
       Resolve, SaveNext
  <2>7. ASSUME NEW p \in Proc, ResolveCheck(p)
        PROVE  OrdersBacked'
    <3> DEFINE w == [work[p] EXCEPT !.pc = "saving_rma"]
    <3>1. w.pc = "saving_rma"
      BY <2>0, <2>7, WorkFields DEF ResolveCheck
    <3>2. Do(p, w) \/ Do(p, Idle)
      BY <2>7 DEF ResolveCheck
    <3> HIDE DEF w
    <3> QED
      BY <2>3, <2>7, <3>1, <3>2 DEF ResolveCheck, Idle
  <2>8. ASSUME NEW p \in Proc, NEW r \in Refund, SettleLoad(p, r)
        PROVE  OrdersBacked'
    BY <2>0, <2>1, <2>8 DEF SettleLoad, BackedWork
  <2>9. ASSUME NEW p \in Proc, SettleSum(p)
        PROVE  OrdersBacked'
    <3> DEFINE r == work[p].refund
               w == [work[p] EXCEPT !.pc = "summed", !.order = Shown(r)]
    <3>1. r \in Succeeded /\ r \in Refund
      BY <2>9, WorkFields DEF SettleSum, Linked, LinkedWork, TypeOK, At
    <3>2. Having("refunded") \cup {r} \subseteq Succeeded
      BY <3>1 DEF Linked, Having
    <3>3. Backed(Shown(r))
      <4>1. Having("refunded") \cup {r} \in SUBSET Refund
        BY <3>1 DEF Having
      <4>2. Sum(Having("refunded") \cup {r}) >= Total => Sum(Succeeded) >= Total
        BY <2>0, <3>2, <4>1, SettledSumUpToMore
      <4> QED
        BY <3>1, <4>2 DEF Shown, Backed
    <3>4. w.order = Shown(r)
      BY <2>0, <2>9, WorkFields DEF SettleSum
    <3>5. Do(p, w) /\ UNCHANGED order
      BY <2>9 DEF SettleSum
    <3> HIDE DEF w, r
    <3> QED
      BY <2>1, <3>3, <3>4, <3>5 DEF BackedWork
  <2>10. ASSUME NEW p \in Proc, SettleCommit(p)
         PROVE  OrdersBacked'
    <3> DEFINE r == work[p].refund
               w == IF r.rma \in Rma THEN [pc |-> "linking", rma |-> r.rma]
                                     ELSE Idle
    <3>1. Backed(order')
      BY <2>0, <2>10 DEF SettleCommit, BackedWork, At
    <3>2. BackedWork(w)
      BY DEF BackedWork, Idle
    <3>3. Do(p, w)
      BY <2>10 DEF SettleCommit
    <3> HIDE DEF w
    <3> QED
      BY <2>1, <3>1, <3>2, <3>3
  <2>11. ASSUME NEW p \in Proc, EditLoad(p)
         PROVE  OrdersBacked'
    BY <2>0, <2>1, <2>11 DEF EditLoad, BackedWork
  <2>12. ASSUME NEW p \in Proc, EditSave(p)
         PROVE  OrdersBacked'
    BY <2>0, <2>1, <2>12 DEF EditSave, BackedWork, At
  <2>13. ASSUME NEW r \in Refund, ExecuteRefund(r)
         PROVE  OrdersBacked'
    BY <2>2, <2>13 DEF ExecuteRefund
  <2>14. ASSUME NEW m \in Rma, CreateRma(m)
         PROVE  OrdersBacked'
    BY <2>2, <2>14 DEF CreateRma
  <2>15. CASE UNCHANGED vars
    BY <2>2, <2>15 DEF vars
  <2> QED
    BY <2>4, <2>5, <2>6, <2>7, <2>8, <2>9, <2>10, <2>11, <2>12, <2>13, <2>14,
       <2>15 DEF Next, Proceed, Ask, Hear, Proc, ReturnStep
<1>3. OrdersBacked => ShownIsSettled
  BY DEF OrdersBacked, Backed, ShownIsSettled
<1> QED
  BY <1>1, <1>2, <1>3, TypeCorrect, AlwaysLinked, PTL DEF Spec
=============================================================================
