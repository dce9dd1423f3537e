------------------------------ MODULE Payment ------------------------------
(***************************************************************************)
(* payment-service: the payment row of one order, the webhook inbox and    *)
(* the refund executions.  One action is one transaction, one unlocked     *)
(* read, or one call of the provider; a Proc is one request, webhook       *)
(* delivery or refund command in execution.                                *)
(*                                                                         *)
(* The provider is external: it raises each webhook event once, delivers   *)
(* it any number of times and in any order, and answers a refund with ok   *)
(* or not.  Its cancelIntent always answers ok, as the mock provider does. *)
(*                                                                         *)
(* Bounds: the events and refunds are the members of Event and Refund; at  *)
(* most MaxCrash executions fail half way.                                 *)
(***************************************************************************)
EXTENDS Integers, FiniteSetsExt

CONSTANTS
    Event,     \* webhook events of the intent: [id, kind]
    Refund,    \* refunds order-service approved: [id, amount]
    Total,     \* amountMinor of the payment
    Proc,
    MaxCrash

ASSUME PaymentAssumption ==
    /\ \A e \in Event : e.kind \in {"succeeded", "failed"}
    /\ IsFiniteSet(Refund) /\ \A r \in Refund : r.amount \in Nat
    /\ Total \in Nat \ {0}
    /\ MaxCrash \in Nat

VARIABLES
    status,    \* payment.status ("none": no row for the key yet)
    published, \* kinds of payment.* events in the outbox
    raised,    \* events the provider has raised
    inbox,     \* inbox[e]: the webhook_inbox row
    refund,    \* refund[r]: the refund_execution row
    paidOut,   \* paidOut[r]: how often the provider paid r out
    work,      \* work[p]: where execution p is
    crashes

vars == <<status, published, raised, inbox, refund, paidOut, work, crashes>>

Status == {"none", "pending", "paid", "failed", "canceled",
           "partially_refunded", "refunded"}
Idle   == [pc |-> "idle"]
Work   == [pc : {"creating"}]
          \cup [pc : {"claimed", "applied"}, event : Event]
          \cup [pc : {"refunding"}, refund : Refund]
          \cup [pc : {"answered"}, refund : Refund, ok : BOOLEAN]
          \cup [pc : {"inserted"}, refund : Refund, ok : BOOLEAN,
                rollup : {"partially_refunded", "refunded"}]

TypeOK ==
    /\ status \in Status
    /\ published \subseteq {"succeeded", "failed", "canceled"}
    /\ raised \subseteq Event
    /\ inbox \in [Event -> {"none", "claimed", "processed"}]
    /\ refund \in [Refund -> {"none", "succeeded", "failed"}]
    /\ paidOut \in [Refund -> Nat]
    /\ work \in [Proc -> {Idle} \cup Work]
    /\ crashes \in 0..MaxCrash

Init ==
    /\ status = "none"
    /\ published = {}
    /\ raised = {}
    /\ inbox = [e \in Event |-> "none"]
    /\ refund = [r \in Refund |-> "none"]
    /\ paidOut = [r \in Refund |-> 0]
    /\ work = [p \in Proc |-> Idle]
    /\ crashes = 0

At(p, pc) == work[p].pc = pc
Do(p, w)  == work' = [work EXCEPT ![p] = w]

-----------------------------------------------------------------------------
(* PaymentsService. *)

\* createIntent asks the provider first ...
CreateIntent(p) ==
    /\ At(p, "idle")
    /\ status = "none"
    /\ Do(p, [pc |-> "creating"])
    /\ UNCHANGED <<status, published, raised, inbox, refund, paidOut, crashes>>

\* ... and inserts the row; a caller that loses on the unique idempotency key
\* is answered with the winner's.
InsertPayment(p) ==
    /\ At(p, "creating")
    /\ status' = IF status = "none" THEN "pending" ELSE status
    /\ Do(p, Idle)
    /\ UNCHANGED <<published, raised, inbox, refund, paidOut, crashes>>

\* The insert of a refund execution holds a key-share lock on the payment
\* row until it commits; SELECT ... FOR UPDATE waits for it.
Lockable == \A p \in Proc : ~At(p, "inserted")

\* Mutant: any payment can be canceled.
CancelAnyIntent ==
    /\ Lockable
    /\ status # "none"
    /\ status' = "canceled"
    /\ published' = published \cup {"canceled"}
    /\ UNCHANGED <<raised, inbox, refund, paidOut, work, crashes>>

\* cancelIntent: under the lock, only a pending payment.
CancelIntent ==
    /\ Lockable
    /\ status = "pending"
    /\ status' = "canceled"
    /\ published' = published \cup {"canceled"}
    /\ UNCHANGED <<raised, inbox, refund, paidOut, work, crashes>>

-----------------------------------------------------------------------------
(* WebhookDispatchService. *)

\* The customer confirms, or a payment attempt fails.
Raise(e) ==
    /\ status # "none"
    /\ e \notin raised
    /\ raised' = raised \cup {e}
    /\ UNCHANGED <<status, published, inbox, refund, paidOut, work, crashes>>

\* Mutant: the row is inserted as processed.
ReceiveProcessed(p, e) ==
    /\ At(p, "idle")
    /\ e \in raised
    /\ inbox[e] # "processed"
    /\ inbox' = [inbox EXCEPT ![e] = "processed"]
    /\ Do(p, [pc |-> "claimed", event |-> e])
    /\ UNCHANGED <<status, published, raised, refund, paidOut, crashes>>

\* Mutant: every row that exists is taken for processed.
ReceiveNew(p, e) ==
    /\ At(p, "idle")
    /\ e \in raised
    /\ inbox[e] = "none"
    /\ inbox' = [inbox EXCEPT ![e] = "claimed"]
    /\ Do(p, [pc |-> "claimed", event |-> e])
    /\ UNCHANGED <<status, published, raised, refund, paidOut, crashes>>

\* claimInboxRow: a new row, or one that was not processed; a processed one
\* is answered at once.  Nothing keeps two deliveries from claiming a row.
Receive(p, e) ==
    /\ At(p, "idle")
    /\ e \in raised
    /\ inbox[e] # "processed"
    /\ inbox' = [inbox EXCEPT ![e] = "claimed"]
    /\ Do(p, [pc |-> "claimed", event |-> e])
    /\ UNCHANGED <<status, published, raised, refund, paidOut, crashes>>

Outcome(kind) == IF kind = "succeeded" THEN "paid" ELSE "failed"

\* applyIntentSucceeded, applyIntentFailed: under the lock, unless the
\* payment has that very status.
Apply(p) ==
    /\ At(p, "claimed")
    /\ Lockable
    /\ LET kind == work[p].event.kind
       IN  IF status = Outcome(kind)
           THEN UNCHANGED <<status, published>>
           ELSE /\ status' = Outcome(kind)
                /\ published' = published \cup {kind}
    /\ Do(p, [work[p] EXCEPT !.pc = "applied"])
    /\ UNCHANGED <<raised, inbox, refund, paidOut, crashes>>

MarkProcessed(p) ==
    /\ At(p, "applied")
    /\ inbox' = [inbox EXCEPT ![work[p].event] = "processed"]
    /\ Do(p, Idle)
    /\ UNCHANGED <<status, published, raised, refund, paidOut, crashes>>

\* The transition throws: the row is saved as it was claimed, unprocessed,
\* with the error.
DispatchFails(p) ==
    /\ At(p, "claimed")
    /\ crashes < MaxCrash
    /\ crashes' = crashes + 1
    /\ inbox' = [inbox EXCEPT ![work[p].event] = "claimed"]
    /\ Do(p, Idle)
    /\ UNCHANGED <<status, published, raised, refund, paidOut>>

-----------------------------------------------------------------------------
(* RefundsService. *)

\* payments.refund.execute: order-service approves refunds only of an order
\* it has seen paid.  A command with an execution is a replay.
ExecuteRefund(p, r) ==
    /\ At(p, "idle")
    /\ "succeeded" \in published
    /\ refund[r] = "none"
    /\ Do(p, [pc |-> "refunding", refund |-> r])
    /\ UNCHANGED <<status, published, raised, inbox, refund, paidOut, crashes>>

ProviderRefunds(p) ==
    /\ At(p, "refunding")
    /\ LET r == work[p].refund
       IN  \E ok \in BOOLEAN :
              /\ paidOut' = [paidOut EXCEPT ![r] = IF ok THEN @ + 1 ELSE @]
              /\ Do(p, [pc |-> "answered", refund |-> r, ok |-> ok])
    /\ UNCHANGED <<status, published, raised, inbox, refund, crashes>>

\* rollupPaymentStatus: from the succeeded executions the transaction sees.
Covered(S) == SumFunctionOnSet([r \in Refund |-> r.amount], S) >= Total
Succeeded  == {r \in Refund : refund[r] = "succeeded"}
Rollup(S)  == IF Covered(S) THEN "refunded" ELSE "partially_refunded"

\* Mutant: a refused refund leaves no execution.
InsertSucceededExecution(p) ==
    /\ At(p, "answered")
    /\ LET r == work[p].refund
       IN  IF refund[r] # "none" \/ ~work[p].ok
           THEN Do(p, Idle)
           ELSE Do(p, [pc |-> "inserted", refund |-> r, ok |-> TRUE,
                       rollup |-> Rollup(Succeeded \cup {r})])
    /\ UNCHANGED <<status, published, raised, inbox, refund, paidOut, crashes>>

\* Insert the execution and sum up.  The unique key makes a concurrent
\* execution of the same command wait, then lose.
InsertExecution(p) ==
    /\ At(p, "answered")
    /\ LET r == work[p].refund
       IN  /\ \A q \in Proc : At(q, "inserted") => work[q].refund # r
           /\ IF refund[r] # "none"
              THEN Do(p, Idle)
              ELSE Do(p, [pc |-> "inserted", refund |-> r, ok |-> work[p].ok,
                          rollup |-> Rollup(Succeeded \cup {r})])
    /\ UNCHANGED <<status, published, raised, inbox, refund, paidOut, crashes>>

\* Mutant: a refused refund is rolled up too.
CommitExecutionRolledUp(p) ==
    /\ At(p, "inserted")
    /\ refund' = [refund EXCEPT ![work[p].refund] =
                    IF work[p].ok THEN "succeeded" ELSE "failed"]
    /\ status' = work[p].rollup
    /\ Do(p, Idle)
    /\ UNCHANGED <<published, raised, inbox, paidOut, crashes>>

CommitExecution(p) ==
    /\ At(p, "inserted")
    /\ refund' = [refund EXCEPT ![work[p].refund] =
                    IF work[p].ok THEN "succeeded" ELSE "failed"]
    /\ status' = IF work[p].ok THEN work[p].rollup ELSE status
    /\ Do(p, Idle)
    /\ UNCHANGED <<published, raised, inbox, paidOut, crashes>>

-----------------------------------------------------------------------------
\* The process dies, or an open transaction is rolled back.
Crash(p) ==
    /\ ~At(p, "idle")
    /\ crashes < MaxCrash
    /\ crashes' = crashes + 1
    /\ Do(p, Idle)
    /\ UNCHANGED <<status, published, raised, inbox, refund, paidOut>>

Proceed(p) == \/ InsertPayment(p) \/ Apply(p) \/ MarkProcessed(p)
              \/ ProviderRefunds(p) \/ InsertExecution(p) \/ CommitExecution(p)

Next ==
    \/ \E p \in Proc : \/ CreateIntent(p) \/ Proceed(p)
                       \/ DispatchFails(p) \/ Crash(p)
                       \/ \E e \in Event : Receive(p, e)
                       \/ \E r \in Refund : ExecuteRefund(p, r)
    \/ CancelIntent
    \/ \E e \in Event : Raise(e)

Spec == Init /\ [][Next]_vars

\* Executions go on; the provider retries an event that was not answered with
\* success, and the broker a command, though other requests keep coming.
FairSpec ==
    /\ Spec
    /\ \A p \in Proc : WF_vars(Proceed(p))
    /\ \A e \in Event : SF_vars(\E p \in Proc : Receive(p, e))
    /\ \A r \in Refund : SF_vars(\E p \in Proc : ExecuteRefund(p, r))

-----------------------------------------------------------------------------
(* Properties. *)

\* A webhook is marked processed only once its transition has been applied
\* and its event recorded, whatever fails or crashes in between.
ProcessedWasApplied ==
    \A e \in Event : inbox[e] = "processed" => e.kind \in published

\* A refund counts as succeeded only if the provider paid it out, and a
\* payment shows as refunded only if such refunds cover it, as partially
\* refunded only if there is one.
RefundsAreReal ==
    /\ \A r \in Succeeded : paidOut[r] > 0
    /\ status = "partially_refunded" => Succeeded # {}
    /\ status = "refunded" => Covered(Succeeded)

\* The payment is what the checkout assumes of it, and a refund execution what
\* order-service assumes of its command.
Settled   == {"paid", "partially_refunded", "refunded"}
Lifecycle == INSTANCE PaymentLifecycle
                 WITH payment <- IF status \in Settled THEN "paid" ELSE status,
                      events <- published
Commands  == INSTANCE RefundLifecycle
                 WITH commanded <- IF "succeeded" \in published THEN Refund
                                                                ELSE {},
                      result <- refund
ImplementsLifecycle == Lifecycle!Spec /\ Commands!Spec

\* A webhook that failed once is applied all the same, because the provider
\* keeps retrying and a claimed row does not count as processed.
WebhooksProcessed ==
    \A e \in Event : e \in raised ~> inbox[e] = "processed"

\* An approved refund is settled one way or the other.
RefundsSettle ==
    \A r \in Refund : "succeeded" \in published ~> refund[r] # "none"
=============================================================================
