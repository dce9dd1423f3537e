----------------------------- MODULE Shipping ------------------------------
(***************************************************************************)
(* shipping-service: the shipments and fulfillments of one order, driven   *)
(* by staff, by the order's placement, by carrier webhooks and by the      *)
(* delayed arrival check; and the consumer of shipping.fulfillment.created *)
(* in order-service, which rolls fulfillments up into the order.           *)
(*                                                                         *)
(* One action is one unlocked read, with the checks made on it, or one     *)
(* transaction; the rollup of a fulfillment is two, since it holds its     *)
(* order lines locked while it reads the others.  Events and webhooks come *)
(* any number of times, in any order.  The timeline and the progress bar   *)
(* of a shipment are left out, and the stage of the order, which is in     *)
(* Checkout.                                                               *)
(*                                                                         *)
(* Bounds: the shipments and fulfillments that are made are the members of *)
(* Shipment and Fulfillment; at most MaxCrash executions die.              *)
(***************************************************************************)
EXTENDS OrderFulfillment

CONSTANTS
    Shipment,
    Unlinked,  \* no fulfillment
    Proc,
    MaxCrash

ASSUME ShippingAssumption ==
    /\ Ordered \in [Line -> Nat]
    /\ IsFiniteSet(Fulfillment)
    /\ \A f \in Fulfillment : f.qty \in [Line -> Nat]
    /\ Unlinked \notin Fulfillment
    /\ MaxCrash \in Nat

VARIABLES
    shipment,  \* shipment[s]: status, is_delayed, expected_arrival_at set?,
               \*   fulfillment_id
    created,   \* fulfillments, each with its shipping.fulfillment.created
    armed,     \* shipments with a delayed shipping.shipment.delay_check
    stamped,   \* fulfillments whose delivery a carrier event has stamped
    work,      \* work[p]: where execution p is
    crashes

vars == <<shipment, created, armed, stamped, order, fulfilled, rolled, work,
          crashes>>
shippingVars == <<shipment, created, armed, stamped>>
orderVars    == <<order, fulfilled, rolled>>

ShipmentRow == [status : {"none", "draft", "in_progress", "arrived",
                          "canceled"},
                delayed : BOOLEAN, eta : BOOLEAN,
                fulfillment : Fulfillment \cup {Unlinked}]

Status == {"unfulfilled", "partially_fulfilled", "fulfilled"}

Idle == [pc |-> "idle"]
Work == [pc : {"drafting"}]
        \cup [pc : {"transition"}, shipment : Shipment, target :
              {"in_progress", "arrived", "canceled"}, eta : BOOLEAN,
              stamp : Fulfillment \cup {Unlinked}]
        \cup [pc : {"delaying"}, shipment : Shipment]
        \cup [pc : {"summed"}, fulfillment : Fulfillment, status : Status,
              changed : BOOLEAN]
        \cup [pc : {"editing"}, order : Status]

TypeOK ==
    /\ shipment \in [Shipment -> ShipmentRow]
    /\ created \subseteq Fulfillment /\ stamped \subseteq Fulfillment
    /\ armed \subseteq Shipment
    /\ order \in Status
    /\ fulfilled \in [Line -> Nat]
    /\ rolled \subseteq Fulfillment
    /\ work \in [Proc -> {Idle} \cup Work]
    /\ crashes \in 0..MaxCrash

Init ==
    /\ shipment = [s \in Shipment |-> [status |-> "none", delayed |-> FALSE,
                                       eta |-> FALSE, fulfillment |-> Unlinked]]
    /\ created = {} /\ armed = {} /\ stamped = {}
    /\ order = "unfulfilled"
    /\ fulfilled = [l \in Line |-> 0]
    /\ rolled = {}
    /\ work = [p \in Proc |-> Idle]
    /\ crashes = 0

At(p, pc) == work[p].pc = pc
Do(p, w)  == work' = [work EXCEPT ![p] = w]
Made      == {s \in Shipment : shipment[s].status # "none"}

-----------------------------------------------------------------------------
(* shipping-service. *)

\* orders.order.placed: an order without a shipment gets a draft ...
OrderPlaced(p) ==
    /\ At(p, "idle")
    /\ Made = {}
    /\ Do(p, [pc |-> "drafting"])
    /\ UNCHANGED <<shippingVars, orderVars, crashes>>

Insert(s, eta) ==
    /\ shipment[s].status = "none"
    /\ shipment' = [shipment EXCEPT ![s].status = "draft", ![s].eta = eta]
    /\ UNCHANGED <<created, armed, stamped>>

\* ... without an expected arrival (or none, with the bound's used up).
InsertDraft(p) ==
    /\ At(p, "drafting")
    /\ \/ \E s \in Shipment : Insert(s, FALSE)
       \/ Made = Shipment /\ UNCHANGED shippingVars
    /\ Do(p, Idle)
    /\ UNCHANGED <<orderVars, crashes>>

\* POST /shipments with an expected arrival; without one it is a draft.
CreateShipment ==
    /\ \E s \in Shipment : Insert(s, TRUE)
    /\ UNCHANGED <<orderVars, work, crashes>>

\* FulfillmentsService.create links a shipment of the order, if there is one.
CreateFulfillment(f) ==
    /\ f \notin created
    /\ created' = created \cup {f}
    /\ \/ Made = {} /\ UNCHANGED shipment
       \/ \E s \in Made : shipment' = [shipment EXCEPT ![s].fulfillment = f]
    /\ UNCHANGED <<armed, stamped, orderVars, work, crashes>>

CanTransition(from, to) ==
    \/ from = "draft" /\ to \in {"in_progress", "canceled"}
    \/ from = "in_progress" /\ to \in {"arrived", "canceled"}

\* transition and cancel load the shipment and check it ...
Load(p, s, target, stamp) ==
    /\ At(p, "idle")
    /\ CanTransition(shipment[s].status, target)
    /\ Do(p, [pc |-> "transition", shipment |-> s, target |-> target,
              eta |-> shipment[s].eta, stamp |-> stamp])
    /\ UNCHANGED <<shippingVars, orderVars, crashes>>

\* POST /shipments/:id/transition, /cancel.
Transition(p, s) == \E target \in {"in_progress", "arrived", "canceled"} :
                        Load(p, s, target, Unlinked)

\* TrackingWebhookService.handle for a delivery: the event's tracking number
\* leads to the shipment linked to its fulfillment.
CarrierDelivers(p, f) ==
    /\ f \in created \ stamped
    /\ \E s \in Made : shipment[s].fulfillment = f /\ Load(p, s, "arrived", f)

\* Mutant: the arrival check is armed for every shipment but those that have
\* an expected arrival.
ArmsUndated(w) == w.target = "in_progress" /\ ~w.eta

Arms(w) == w.target = "in_progress" /\ w.eta

\* ... and update it, with the timeline entry (unique by carrier event), the
\* event, and on the way out the delayed check of its arrival.
Commit(p) ==
    /\ At(p, "transition")
    /\ LET w == work[p]
       IN  IF w.stamp \in stamped
           THEN UNCHANGED shippingVars
           ELSE /\ shipment' = [shipment EXCEPT ![w.shipment].status = w.target]
                /\ armed' = armed \cup (IF Arms(w) THEN {w.shipment} ELSE {})
                /\ stamped' = stamped \cup ({w.stamp} \ {Unlinked})
                /\ UNCHANGED created
    /\ Do(p, Idle)
    /\ UNCHANGED <<orderVars, crashes>>

\* delay, and handleDelayCheck of the delayed message: any shipment that is
\* neither over nor delayed ...
DelayLoad(p, s) ==
    /\ At(p, "idle")
    /\ shipment[s].status \in {"draft", "in_progress"}
    /\ ~shipment[s].delayed
    /\ Do(p, [pc |-> "delaying", shipment |-> s])
    /\ UNCHANGED <<shippingVars, orderVars, crashes>>

DelayCheck(p, s) == s \in armed /\ DelayLoad(p, s)

\* ... is marked.
MarkDelayed(p) ==
    /\ At(p, "delaying")
    /\ shipment' = [shipment EXCEPT ![work[p].shipment].delayed = TRUE]
    /\ Do(p, Idle)
    /\ UNCHANGED <<created, armed, stamped, orderVars, crashes>>

-----------------------------------------------------------------------------
(* order-service: ShippingEventsController. *)

\* computeFulfillmentStatus: units beyond the ordered ones do not count.
StatusOf(qty) ==
    CASE \A l \in Line : qty[l] = 0 \/ Ordered[l] = 0 -> "unfulfilled"
      [] \A l \in Line : qty[l] >= Ordered[l] -> "fulfilled"
      [] OTHER -> "partially_fulfilled"

Increased(f) == [l \in Line |-> fulfilled[l] + f.qty[l]]
Touches(f)   == {l \in Line : f.qty[l] > 0}

\* Mutant: a rollup that was applied before is applied again.
RollupSumAgain(p, f) ==
    /\ At(p, "idle")
    /\ f \in created
    /\ \A q \in Proc :
          At(q, "summed") => Touches(work[q].fulfillment) \cap Touches(f) = {}
    /\ LET status == StatusOf(Increased(f))
       IN  Do(p, [pc |-> "summed", fulfillment |-> f, status |-> status,
                  changed |-> status # order])
    /\ UNCHANGED <<shippingVars, orderVars, crashes>>

\* Mutant: the rollup is looked up by its order, not by its fulfillment.
RollupSumByOrder(p, f) ==
    /\ At(p, "idle")
    /\ f \in created
    /\ rolled = {}
    /\ \A q \in Proc : ~At(q, "summed")
    /\ LET status == StatusOf(Increased(f))
       IN  Do(p, [pc |-> "summed", fulfillment |-> f, status |-> status,
                  changed |-> status # order])
    /\ UNCHANGED <<shippingVars, orderVars, crashes>>

\* onFulfillmentCreated, unless it is rolled up: increments the lines, which
\* it holds locked from then on, and reads them all, ...
RollupSum(p, f) ==
    /\ At(p, "idle")
    /\ f \in created \ rolled
    /\ \A q \in Proc :
          At(q, "summed") => /\ Touches(work[q].fulfillment) \cap Touches(f) = {}
                             /\ work[q].fulfillment # f
    /\ LET status == StatusOf(Increased(f))
       IN  Do(p, [pc |-> "summed", fulfillment |-> f, status |-> status,
                  changed |-> status # order])
    /\ UNCHANGED <<shippingVars, orderVars, crashes>>

\* ... updates a status that has changed, and commits.
RollupCommit(p) ==
    /\ At(p, "summed")
    /\ LET w == work[p]
       IN  /\ fulfilled' = Increased(w.fulfillment)
           /\ rolled' = rolled \cup {w.fulfillment}
           /\ order' = IF w.changed THEN w.status ELSE order
    /\ Do(p, Idle)
    /\ UNCHANGED <<shippingVars, crashes>>

\* Every edit of the order saves the whole row it loaded; what it changes in
\* it is left out.
EditLoad(p) ==
    /\ At(p, "idle")
    /\ Do(p, [pc |-> "editing", order |-> order])
    /\ UNCHANGED <<shippingVars, orderVars, crashes>>

EditSave(p) ==
    /\ At(p, "editing")
    /\ order' = work[p].order
    /\ Do(p, Idle)
    /\ UNCHANGED <<shippingVars, fulfilled, rolled, crashes>>

-----------------------------------------------------------------------------
Crash(p) ==
    /\ ~At(p, "idle")
    /\ crashes < MaxCrash
    /\ crashes' = crashes + 1
    /\ Do(p, Idle)
    /\ UNCHANGED <<shippingVars, orderVars>>

Proceed(p) == \/ InsertDraft(p) \/ Commit(p) \/ MarkDelayed(p)
              \/ RollupCommit(p) \/ EditSave(p)

Next ==
    \/ \E p \in Proc :
          \/ OrderPlaced(p) \/ EditLoad(p)
          \/ Proceed(p) \/ Crash(p)
          \/ \E s \in Shipment :
                Transition(p, s) \/ DelayLoad(p, s) \/ DelayCheck(p, s)
          \/ \E f \in Fulfillment : CarrierDelivers(p, f) \/ RollupSum(p, f)
    \/ CreateShipment
    \/ \E f \in Fulfillment : CreateFulfillment(f)

Spec == Init /\ [][Next]_vars

\* Executions go on; the broker delivers an event until it is acknowledged,
\* though other requests keep coming.
FairSpec ==
    /\ Spec
    /\ \A p \in Proc : WF_vars(Proceed(p))
    /\ \A s \in Shipment : SF_vars(\E p \in Proc : DelayCheck(p, s))
    /\ \A f \in Fulfillment : SF_vars(\E p \in Proc : RollupSum(p, f))

-----------------------------------------------------------------------------
(* Properties: the promise of OrderFulfillment, and what happens in the end. *)

\* A shipment on its way whose expected arrival is known is noticed when it
\* does not arrive, because its check is recorded in the transition itself.
Overdue == {s \in Shipment : shipment[s].status = "in_progress"
                                /\ shipment[s].eta /\ ~shipment[s].delayed}
OverdueIsNoticed == []<>(Overdue = {})

\* Every fulfillment gets into the order's lines, although its rollup may wait
\* for the lines of another one, or die.
RollupsComplete == []<>(created \subseteq rolled)
=============================================================================
