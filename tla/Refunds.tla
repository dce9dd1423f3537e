------------------------------ MODULE Refunds ------------------------------
(***************************************************************************)
(* order-service: the refunds of one paid order and its return requests    *)
(* (RMAs).  payment-service is the abstract RefundLifecycle that Payment   *)
(* implements: an approved refund is its command, its result an event that *)
(* is delivered any number of times.                                       *)
(*                                                                         *)
(* One action is one unlocked read, with the checks made on it, or one     *)
(* transaction; the settlement's transaction is two, for it sums up before *)
(* it commits.  save() writes the row as it was loaded, with the changes.  *)
(*                                                                         *)
(* Bounds: the refunds asked for are the members of Refund, and at most    *)
(* MaxCrash executions die.                                                *)
(***************************************************************************)
EXTENDS Integers, FiniteSetsExt

CONSTANTS
    Refund,    \* possible refunds: [id, amount, rma]
    Rma,       \* return requests of the order
    NoRma,     \* a refund without one
    Total,     \* totalMinor of the order
    Staff,     \* requests of the merchant in execution
    Handler,   \* message handlers in execution
    MaxCrash

ASSUME RefundsAssumption ==
    /\ IsFiniteSet(Refund)
    /\ \A r \in Refund : r.amount \in Nat /\ r.rma \in Rma \cup {NoRma}
    /\ NoRma \notin Rma
    /\ Total \in Nat \ {0}
    /\ Staff \cap Handler = {}
    /\ MaxCrash \in Nat

VARIABLES
    refund,    \* refund[r]: the refund row
    order,     \* payment_status of the order row
    rma,       \* rma[m]: the return_request row
    waived,    \* returns resolved with refundType none
    commanded, \* refunds with a payments.refund.execute command
    result,    \* result[r]: the payments.refund.* event of payment-service
    work,      \* work[p]: where execution p is
    crashes

vars == <<refund, order, rma, waived, commanded, result, work, crashes>>

Proc == Staff \cup Handler

RefundRow == [status : {"none", "requested", "processing", "refunded",
                        "declined"}, failed : BOOLEAN]
OrderRow  == {"paid", "partially_refunded", "refunded"}
RmaRow    == [status : {"none", "pending_approval", "approved", "rejected",
                        "expired", "resolved"},
              inspected : BOOLEAN]

Idle == [pc |-> "idle"]
Work == [pc : {"checked"}, refund : Refund]
        \cup [pc : {"saving_refund"}, refund : Refund, row : RefundRow,
              commands : BOOLEAN]
        \cup [pc : {"loaded", "summed"}, refund : Refund, order : OrderRow]
        \cup [pc : {"linking"}, rma : Rma]
        \cup [pc : {"saving_order"}, order : OrderRow]
        \cup [pc : {"resolving", "saving_rma"}, rma : Rma, row : RmaRow]

TypeOK ==
    /\ refund \in [Refund -> RefundRow]
    /\ order \in OrderRow
    /\ rma \in [Rma -> RmaRow]
    /\ waived \subseteq Rma
    /\ commanded \subseteq Refund
    /\ result \in [Refund -> {"none", "succeeded", "failed"}]
    /\ work \in [Proc -> {Idle} \cup Work]
    /\ crashes \in 0..MaxCrash

Init ==
    /\ refund = [r \in Refund |-> [status |-> "none", failed |-> FALSE]]
    /\ order = "paid"
    /\ rma = [m \in Rma |-> [status |-> "none", inspected |-> FALSE]]
    /\ waived = {}
    /\ commanded = {}
    /\ result = [r \in Refund |-> "none"]
    /\ work = [p \in Proc |-> Idle]
    /\ crashes = 0

At(p, pc) == work[p].pc = pc
Do(p, w)  == work' = [work EXCEPT ![p] = w]

-----------------------------------------------------------------------------
(* RefundsService. *)

Sum(S)     == SumFunctionOnSet([r \in Refund |-> r.amount], S)
Having(st) == {r \in Refund : refund[r].status = st}
Prior      == Refund \ (Having("none") \cup Having("declined"))

\* assertRefundAmount on sumPriorRefunds: every refund that is not declined.
Fits(r) == r.amount <= Total - Sum(Prior)

\* create: the sum of the prior refunds is read ...
Request(p, r) ==
    /\ At(p, "idle")
    /\ refund[r].status = "none"
    /\ r.rma \in Rma => rma[r.rma].status # "none"
    /\ r.amount = 0 \/ Fits(r)
    /\ Do(p, [pc |-> "checked", refund |-> r])
    /\ UNCHANGED <<refund, order, rma, waived, commanded, result, crashes>>

\* ... and the row is inserted.
InsertRequest(p) ==
    /\ At(p, "checked")
    /\ refund' = [refund EXCEPT ![work[p].refund].status = "requested"]
    /\ Do(p, Idle)
    /\ UNCHANGED <<order, rma, waived, commanded, result, crashes>>

\* approve and decline, which load a requested refund.
Review(p, r) ==
    /\ At(p, "idle")
    /\ refund[r].status = "requested"
    /\ \E approve \in BOOLEAN :
          Do(p, [pc |-> "saving_refund", refund |-> r, commands |-> approve,
                 row |-> [refund[r] EXCEPT !.status =
                             IF approve THEN "processing" ELSE "declined"]])
    /\ UNCHANGED <<refund, order, rma, waived, commanded, result, crashes>>

\* handleRefundFailed: the refund stays processing, with the reason.
FailLoad(p, r) ==
    /\ At(p, "idle")
    /\ result[r] = "failed"
    /\ refund[r].status = "processing"
    /\ Do(p, [pc |-> "saving_refund", refund |-> r, commands |-> FALSE,
              row |-> [refund[r] EXCEPT !.failed = TRUE]])
    /\ UNCHANGED <<refund, order, rma, waived, commanded, result, crashes>>

\* A settlement that has saved its refund keeps the row locked until it
\* commits.
Locked(r) == \E p \in Proc : At(p, "summed") /\ work[p].refund = r

\* Mutant: the command is not recorded with the approval.
SaveRefundSilently(p) ==
    /\ At(p, "saving_refund")
    /\ ~Locked(work[p].refund)
    /\ refund' = [refund EXCEPT ![work[p].refund] = work[p].row]
    /\ Do(p, Idle)
    /\ UNCHANGED <<order, rma, waived, commanded, result, crashes>>

\* The refund is saved; an approval records the command with it.
SaveRefund(p) ==
    /\ At(p, "saving_refund")
    /\ ~Locked(work[p].refund)
    /\ refund' = [refund EXCEPT ![work[p].refund] = work[p].row]
    /\ commanded' = commanded \cup (IF work[p].commands THEN {work[p].refund}
                                                         ELSE {})
    /\ Do(p, Idle)
    /\ UNCHANGED <<order, rma, waived, result, crashes>>

\* handleRefundSucceeded loads the refund with its order, ...
SettleLoad(p, r) ==
    /\ At(p, "idle")
    /\ result[r] = "succeeded"
    /\ refund[r].status = "processing"
    /\ Do(p, [pc |-> "loaded", refund |-> r, order |-> order])
    /\ UNCHANGED <<refund, order, rma, waived, commanded, result, crashes>>

\* Mutant: refunds that are still processing are summed up as well.
ShownAllPrior(r) ==
    IF Sum(Having("processing") \cup Having("refunded") \cup {r}) >= Total
    THEN "refunded" ELSE "partially_refunded"

\* computePaymentStatusRollup over the settled refunds the transaction sees.
Shown(r) == IF Sum(Having("refunded") \cup {r}) >= Total
            THEN "refunded" ELSE "partially_refunded"

\* ... saves the refund and sums up, ...
SettleSum(p) ==
    /\ At(p, "loaded")
    /\ ~Locked(work[p].refund)
    /\ Do(p, [work[p] EXCEPT !.pc = "summed", !.order = Shown(work[p].refund)])
    /\ UNCHANGED <<refund, order, rma, waived, commanded, result, crashes>>

\* ... saves the order and commits, and goes on to the return, if any.
SettleCommit(p) ==
    /\ At(p, "summed")
    /\ LET r == work[p].refund
       IN  /\ refund' = [refund EXCEPT ![r].status = "refunded"]
           /\ Do(p, IF r.rma \in Rma THEN [pc |-> "linking", rma |-> r.rma]
                                     ELSE Idle)
    /\ order' = work[p].order
    /\ UNCHANGED <<rma, waived, commanded, result, crashes>>

\* payment-service.
Payments == INSTANCE RefundLifecycle
ExecuteRefund(r) ==
    /\ Payments!Settle(r)
    /\ UNCHANGED <<refund, order, rma, waived, work, crashes>>

-----------------------------------------------------------------------------
(* OrdersService.update and cancel save the whole row they loaded; what they *)
(* change in it is left out.                                                *)

EditLoad(p) ==
    /\ At(p, "idle")
    /\ Do(p, [pc |-> "saving_order", order |-> order])
    /\ UNCHANGED <<refund, order, rma, waived, commanded, result, crashes>>

EditSave(p) ==
    /\ At(p, "saving_order")
    /\ order' = work[p].order
    /\ Do(p, Idle)
    /\ UNCHANGED <<refund, rma, waived, commanded, result, crashes>>

-----------------------------------------------------------------------------
(* ReturnsService.  Each operation loads the row, checks and saves it. *)

CreateRma(m) ==
    /\ rma[m].status = "none"
    /\ rma' = [rma EXCEPT ![m].status = "pending_approval"]
    /\ UNCHANGED <<refund, order, waived, commanded, result, work, crashes>>

SaveNext(p, m, row) == Do(p, [pc |-> "saving_rma", rma |-> m, row |-> row])

\* approve, reject.
Decide(p, m) ==
    /\ At(p, "idle")
    /\ rma[m].status = "pending_approval"
    /\ \E st \in {"approved", "rejected"} :
          SaveNext(p, m, [rma[m] EXCEPT !.status = st])
    /\ UNCHANGED <<refund, order, rma, waived, commanded, result, crashes>>

\* expire, from its delayed message.
Expire(p, m) ==
    /\ At(p, "idle")
    /\ rma[m].status = "pending_approval"
    /\ SaveNext(p, m, [rma[m] EXCEPT !.status = "expired"])
    /\ UNCHANGED <<refund, order, rma, waived, commanded, result, crashes>>

Inspect(p, m) ==
    /\ At(p, "idle")
    /\ rma[m].status = "approved"
    /\ ~rma[m].inspected
    /\ SaveNext(p, m, [rma[m] EXCEPT !.inspected = TRUE])
    /\ UNCHANGED <<refund, order, rma, waived, commanded, result, crashes>>

\* advanceShippingStatus, in any status; the chip itself is left out, not the
\* columns saved along with it.
AdvanceShipping(p, m) ==
    /\ At(p, "idle")
    /\ rma[m].status # "none"
    /\ SaveNext(p, m, rma[m])
    /\ UNCHANGED <<refund, order, rma, waived, commanded, result, crashes>>

Resolvable(m) == rma[m].status = "approved" /\ rma[m].inspected

\* resolve: at once with refundType none, or after another look at its refunds.
Resolve(p, m) ==
    /\ At(p, "idle")
    /\ Resolvable(m)
    /\ LET row == [rma[m] EXCEPT !.status = "resolved"]
       IN  \/ /\ SaveNext(p, m, row)
              /\ waived' = waived \cup {m}
           \/ /\ Do(p, [pc |-> "resolving", rma |-> m, row |-> row])
              /\ UNCHANGED waived
    /\ UNCHANGED <<refund, order, rma, commanded, result, crashes>>

\* Mutant: an approved refund is taken for a settled one.
ResolveCheckProcessing(p) ==
    /\ At(p, "resolving")
    /\ Do(p, IF \E r \in Having("processing") \cup Having("refunded") :
                   r.rma = work[p].rma
             THEN [work[p] EXCEPT !.pc = "saving_rma"] ELSE Idle)
    /\ UNCHANGED <<refund, order, rma, waived, commanded, result, crashes>>

ResolveCheck(p) ==
    /\ At(p, "resolving")
    /\ Do(p, IF \E r \in Having("refunded") : r.rma = work[p].rma
             THEN [work[p] EXCEPT !.pc = "saving_rma"] ELSE Idle)
    /\ UNCHANGED <<refund, order, rma, waived, commanded, result, crashes>>

\* settleFromRefund, after the settlement's transaction.
SettleFromRefund(p) ==
    /\ At(p, "linking")
    /\ LET m == work[p].rma
       IN  IF Resolvable(m)
           THEN SaveNext(p, m, [rma[m] EXCEPT !.status = "resolved"])
           ELSE Do(p, Idle)
    /\ UNCHANGED <<refund, order, rma, waived, commanded, result, crashes>>

\* persistTransition.
SaveRma(p) ==
    /\ At(p, "saving_rma")
    /\ rma' = [rma EXCEPT ![work[p].rma] = work[p].row]
    /\ Do(p, Idle)
    /\ UNCHANGED <<refund, order, waived, commanded, result, crashes>>

-----------------------------------------------------------------------------
Crash(p) ==
    /\ ~At(p, "idle")
    /\ crashes < MaxCrash
    /\ crashes' = crashes + 1
    /\ Do(p, Idle)
    /\ UNCHANGED <<refund, order, rma, waived, commanded, result>>

Proceed(p) == \/ InsertRequest(p) \/ SaveRefund(p) \/ EditSave(p)
              \/ SettleSum(p) \/ SettleCommit(p) \/ SettleFromRefund(p)
              \/ ResolveCheck(p) \/ SaveRma(p)

Ask(p)     == \/ EditLoad(p)
              \/ \E r \in Refund : Request(p, r) \/ Review(p, r)
              \/ \E m \in Rma : \/ Decide(p, m) \/ Inspect(p, m)
                                \/ AdvanceShipping(p, m) \/ Resolve(p, m)
Hear(p, r) == FailLoad(p, r) \/ SettleLoad(p, r)

Next == \/ \E p \in Staff : Ask(p)
        \/ \E p \in Handler, r \in Refund : Hear(p, r)
        \/ \E p \in Handler, m \in Rma : Expire(p, m)
        \/ \E p \in Proc : Proceed(p) \/ Crash(p)
        \/ \E m \in Rma : CreateRma(m)
        \/ \E r \in Refund : ExecuteRefund(r)

Spec == Init /\ [][Next]_vars

\* Executions go on, payment-service settles what it is commanded (Payment's
\* RefundsSettle), and its events are delivered until they are acknowledged.
FairSpec ==
    /\ Spec
    /\ \A p \in Proc : WF_vars(Proceed(p))
    /\ \A r \in Refund : /\ WF_vars(ExecuteRefund(r))
                         /\ SF_vars(\E p \in Handler : Hear(p, r))

-----------------------------------------------------------------------------
(* Properties. *)

Succeeded == {r \in Refund : result[r] = "succeeded"}

\* "Cumulative refunds must never exceed the order's total": neither what is
\* asked for and not declined, nor what payment-service pays out.
RefundsWithinTotal ==
    Sum(Prior) <= Total /\ Sum(Succeeded) <= Total

\* The order shows as refunded only if refunds that payment-service settled
\* cover it, and as partially refunded only if there is one: whatever stale
\* order an edit or another settlement saved.
ShownIsSettled ==
    /\ order = "refunded" => Sum(Succeeded) >= Total
    /\ order = "partially_refunded" => Succeeded # {}

\* A return is resolved only once inspected, and unless the merchant waived
\* its refund, only with one of its refunds settled by payment-service.
ResolvedIsRefunded ==
    \A m \in Rma : rma[m].status = "resolved" =>
        /\ rma[m].inspected
        /\ m \in waived \/ \E r \in Succeeded : r.rma = m

\* No approved refund stays unanswered: each becomes refunded, or its failure
\* is noted for the staff, so that again and again none is left.
Unanswered == {r \in Having("processing") : ~refund[r].failed}
ProcessingAnswered == []<>(Unanswered = {})
=============================================================================
