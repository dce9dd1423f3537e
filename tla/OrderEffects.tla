---------------------------- MODULE OrderEffects ----------------------------
(***************************************************************************)
(* What crm-service and marketing-service do with orders.order.placed and  *)
(* orders.order.canceled: the customer's rollups, loyalty points and the   *)
(* referral that a first order completes, and the usages of a discount.    *)
(*                                                                         *)
(* The orders are of one customer, who is known to crm-service and was     *)
(* referred by another one; those of Discounted carry one discount.  An    *)
(* order earns one point and a completed referral Reward points; the tier, *)
(* a function of the points it is saved with, the manual adjustments and   *)
(* the edits of the discount are left out.                                 *)
(* A message is <<service, order>>; it is delivered any number of times,   *)
(* concurrently, and has to be delivered again until it was handled to     *)
(* its end.                                                                *)
(*                                                                         *)
(* Bounds: at most MaxCrash executions die, and at most MaxRows usages are *)
(* recorded of one order.                                                  *)
(***************************************************************************)
EXTENDS Integers, FiniteSets

CONSTANTS
    Order,
    Discounted,  \* orders that carry the discount
    Proc,
    Reward,      \* CRM_REFERRAL_REWARD_POINTS
    MaxCrash,
    MaxRows

ASSUME OrderEffectsAssumption ==
    /\ {Reward, MaxRows} \subseteq Nat \ {0}
    /\ MaxCrash \in Nat
    /\ Discounted \subseteq Order /\ IsFiniteSet(Order)

VARIABLES
    unacked,     \* messages that were not yet handled to their end
    recorded,    \* messages recorded by order-service
    claimed,     \* processed_event: orders whose rollup is claimed
    totalOrders, \* of the customer
    txns,        \* loyalty_txn, by their (reason, ref_id)
    points,      \* points[a]: of the account of a; NoAccount before there is one
    referral,    \* the customer's referral; known: its referrer is resolved
    usage,       \* usage[o]: the last discount_usage row of o
    usageCount,  \* of the discount
    work,        \* work[p]: where execution p is
    crashes

crm       == <<claimed, totalOrders, txns, points, referral>>
marketing == <<usage, usageCount>>
vars      == <<unacked, recorded, crm, marketing, work, crashes>>

Account   == {"customer", "referrer"}
NoAccount == -1
Message   == {"placed-crm", "placed-marketing", "canceled"} \X Order
Txn       == {<<"order", o>> : o \in Order} \cup {<<"referral">>}
Referral  == [status : {"pending", "completed"}, known : BOOLEAN]
Usage     == [row : 0..MaxRows, live : BOOLEAN]
Idle      == [pc |-> "idle"]
Work      == [pc : {"claiming"}, order : Order, total : Nat]
             \cup [pc : {"accrue", "awarding", "refer", "reward", "rewarding"},
                   order : Order, first : BOOLEAN, points : Int]
             \cup [pc : {"completing"}, order : Order, row : Referral]
             \cup [pc : {"releasing"}, order : Order, id : Nat]

TypeOK ==
    /\ recorded \subseteq Message
    /\ unacked \subseteq recorded
    /\ claimed \subseteq Order
    /\ totalOrders \in 0..Cardinality(claimed)
    /\ txns \subseteq Txn
    /\ points \in [Account -> Int]
    /\ referral \in Referral
    /\ usage \in [Order -> Usage]
    /\ usageCount \in Int
    /\ work \in [Proc -> {Idle} \cup Work]
    /\ crashes \in 0..MaxCrash

Init ==
    /\ recorded = {} /\ unacked = {}
    /\ claimed = {} /\ totalOrders = 0
    /\ txns = {}
    /\ points = [a \in Account |-> NoAccount]
    /\ referral \in [status : {"pending"}, known : BOOLEAN]
    /\ usage = [o \in Order |-> [row |-> 0, live |-> FALSE]]
    /\ usageCount = 0
    /\ work = [p \in Proc |-> Idle]
    /\ crashes = 0

At(p, pc) == work[p].pc = pc
Do(p, w)  == work' = [work EXCEPT ![p] = w]
Goto(p, pc) == Do(p, [work[p] EXCEPT !.pc = pc])

\* The handler of message m returns: the message is acknowledged.
Ack(m) == unacked' = unacked \ {m}

-----------------------------------------------------------------------------
\* order-service places an order, or cancels one, placed or not.
PlaceOrder(o) ==
    LET placed == {<<"placed-crm", o>>} \cup
                  {<<"placed-marketing", d>> : d \in Discounted \cap {o}}
    IN  /\ ~ placed \subseteq recorded
        /\ recorded' = recorded \cup placed
        /\ unacked' = unacked \cup placed
        /\ UNCHANGED <<crm, marketing, work, crashes>>

CancelOrder(o) ==
    /\ o \in Discounted
    /\ <<"canceled", o>> \notin recorded
    /\ recorded' = recorded \cup {<<"canceled", o>>}
    /\ unacked' = unacked \cup {<<"canceled", o>>}
    /\ UNCHANGED <<crm, marketing, work, crashes>>

-----------------------------------------------------------------------------
\* Mutant: a replay of a claimed event is over.
RollupOnce(p, o) ==
    /\ At(p, "idle")
    /\ <<"placed-crm", o>> \in recorded
    /\ \/ /\ o \in claimed
          /\ Ack(<<"placed-crm", o>>)
          /\ UNCHANGED work
       \/ /\ o \notin claimed
          /\ \A q \in Proc : At(q, "claiming") => work[q].order # o
          /\ Do(p, [pc |-> "claiming", order |-> o, total |-> totalOrders])
          /\ UNCHANGED unacked
    /\ UNCHANGED <<recorded, crm, marketing, crashes>>

\* applyOrderRollup.  The insert of the claim waits for a transaction that
\* has inserted the same one; a claim that is there skips the rollup.
Rollup(p, o) ==
    /\ At(p, "idle")
    /\ <<"placed-crm", o>> \in recorded
    /\ \/ /\ o \in claimed
          /\ Do(p, [pc |-> "accrue", order |-> o, first |-> FALSE,
                    points |-> NoAccount])
       \/ /\ o \notin claimed
          /\ \A q \in Proc : At(q, "claiming") => work[q].order # o
          /\ Do(p, [pc |-> "claiming", order |-> o, total |-> totalOrders])
    /\ UNCHANGED <<recorded, unacked, crm, marketing, crashes>>

\* The claim and the customer, incremented as it was loaded, are committed.
CommitRollup(p) ==
    /\ At(p, "claiming")
    /\ claimed' = claimed \cup {work[p].order}
    /\ totalOrders' = work[p].total + 1
    /\ Do(p, [pc |-> "accrue", order |-> work[p].order,
              first |-> work[p].total + 1 = 1, points |-> NoAccount])
    /\ UNCHANGED <<recorded, unacked, txns, points, referral, marketing, crashes>>

\* awardWithRefId loads the account before it knows whether the award is new.
AccrueLoad(p) ==
    /\ At(p, "accrue")
    /\ Do(p, [work[p] EXCEPT !.pc = "awarding", !.points = points["customer"]])
    /\ UNCHANGED <<recorded, unacked, crm, marketing, crashes>>

RewardLoad(p) ==
    /\ At(p, "reward")
    /\ Do(p, [work[p] EXCEPT !.pc = "rewarding", !.points = points["referrer"]])
    /\ UNCHANGED <<recorded, unacked, crm, marketing, crashes>>

\* The insert of a second account of one customer throws.
AccountTaken(p, a) == work[p].points = NoAccount /\ points[a] # NoAccount

\* Mutant: the award is credited whether or not its transaction is new.
AwardAgain(p, a, t, award) ==
    /\ ~AccountTaken(p, a)
    /\ txns' = txns \cup {t}
    /\ points' = [points EXCEPT ![a] =
                     (IF work[p].points = NoAccount THEN 0 ELSE work[p].points)
                         + award]

\* The transaction row is inserted unless it is there; only then is the
\* account saved, as it was loaded, with the award.
Award(p, a, t, award) ==
    /\ ~AccountTaken(p, a)
    /\ txns' = txns \cup {t}
    /\ points' = [points EXCEPT ![a] =
                     IF t \in txns THEN @
                     ELSE (IF work[p].points = NoAccount THEN 0
                           ELSE work[p].points) + award]

Thrown(p, a) ==
    /\ AccountTaken(p, a)
    /\ Do(p, Idle)
    /\ UNCHANGED <<recorded, unacked, crm, marketing, crashes>>

\* The handler goes on to the referral only with the customer that its own
\* rollup returned, on the customer's first order.
CommitAccrual(p) ==
    /\ At(p, "awarding")
    /\ \/ Thrown(p, "customer")
       \/ /\ Award(p, "customer", <<"order", work[p].order>>, 1)
          /\ IF work[p].first
             THEN Goto(p, "refer") /\ UNCHANGED unacked
             ELSE Do(p, Idle) /\ Ack(<<"placed-crm", work[p].order>>)
          /\ UNCHANGED <<recorded, claimed, totalOrders, referral, marketing,
                         crashes>>

\* completeIfEligible: a referral that is not pending is left alone.
ReferLoad(p) ==
    /\ At(p, "refer")
    /\ IF referral.status = "pending"
       THEN /\ Do(p, [pc |-> "completing", order |-> work[p].order,
                      row |-> [referral EXCEPT !.status = "completed"]])
            /\ UNCHANGED unacked
       ELSE Do(p, Idle) /\ Ack(<<"placed-crm", work[p].order>>)
    /\ UNCHANGED <<recorded, crm, marketing, crashes>>

\* Without a resolved referrer there is nobody to reward.
CompleteReferral(p) ==
    /\ At(p, "completing")
    /\ referral' = work[p].row
    /\ IF work[p].row.known
       THEN /\ Do(p, [pc |-> "reward", order |-> work[p].order, first |-> TRUE,
                      points |-> NoAccount])
            /\ UNCHANGED unacked
       ELSE Do(p, Idle) /\ Ack(<<"placed-crm", work[p].order>>)
    /\ UNCHANGED <<recorded, claimed, totalOrders, txns, points, marketing,
                   crashes>>

CommitReward(p) ==
    /\ At(p, "rewarding")
    /\ \/ Thrown(p, "referrer")
       \/ /\ Award(p, "referrer", <<"referral">>, Reward)
          /\ Do(p, Idle)
          /\ Ack(<<"placed-crm", work[p].order>>)
          /\ UNCHANGED <<recorded, claimed, totalOrders, referral, marketing,
                         crashes>>

\* getOrCreateCode of the referrer resolves the pending referral.
ResolveReferrer ==
    /\ referral.status = "pending"
    /\ ~referral.known
    /\ referral' = [referral EXCEPT !.known = TRUE]
    /\ UNCHANGED <<recorded, unacked, claimed, totalOrders, txns, points,
                   marketing, work, crashes>>

-----------------------------------------------------------------------------
\* Mutant: the count is incremented for a usage that is already recorded.
RecordUsageAgain(o) ==
    /\ <<"placed-marketing", o>> \in recorded
    /\ usage[o].row < MaxRows \/ usage[o].live
    /\ usage' = [usage EXCEPT ![o] =
                    IF @.live THEN @ ELSE [row |-> @.row + 1, live |-> TRUE]]
    /\ usageCount' = usageCount + 1
    /\ Ack(<<"placed-marketing", o>>)
    /\ UNCHANGED <<recorded, crm, work, crashes>>

\* recordUsage: the row and the increment are one transaction, which the
\* second row of an order undoes.
RecordUsage(o) ==
    /\ <<"placed-marketing", o>> \in recorded
    /\ usage[o].row < MaxRows \/ usage[o].live
    /\ usage' = [usage EXCEPT ![o] =
                    IF @.live THEN @ ELSE [row |-> @.row + 1, live |-> TRUE]]
    /\ usageCount' = IF usage[o].live THEN usageCount ELSE usageCount + 1
    /\ Ack(<<"placed-marketing", o>>)
    /\ UNCHANGED <<recorded, crm, work, crashes>>

\* releaseUsage finds the row without a lock.
ReleaseLoad(p, o) ==
    /\ At(p, "idle")
    /\ <<"canceled", o>> \in recorded
    /\ IF usage[o].live
       THEN /\ Do(p, [pc |-> "releasing", order |-> o, id |-> usage[o].row])
            /\ UNCHANGED unacked
       ELSE Ack(<<"canceled", o>>) /\ UNCHANGED work
    /\ UNCHANGED <<recorded, crm, marketing, crashes>>

\* The row is deleted by its id, if it is still there, and the count
\* decremented.
CommitRelease(p) ==
    /\ At(p, "releasing")
    /\ LET o == work[p].order
       IN  /\ usage' = [usage EXCEPT ![o].live =
                           @ /\ usage[o].row # work[p].id]
           /\ usageCount' = usageCount - 1
           /\ Ack(<<"canceled", o>>)
    /\ Do(p, Idle)
    /\ UNCHANGED <<recorded, crm, crashes>>

-----------------------------------------------------------------------------
Crash(p) ==
    /\ ~At(p, "idle")
    /\ crashes < MaxCrash
    /\ crashes' = crashes + 1
    /\ Do(p, Idle)
    /\ UNCHANGED <<recorded, unacked, crm, marketing>>

Proceed(p) ==
    \/ CommitRollup(p) \/ AccrueLoad(p) \/ CommitAccrual(p) \/ ReferLoad(p)
    \/ CompleteReferral(p) \/ RewardLoad(p) \/ CommitReward(p)
    \/ CommitRelease(p)

Next ==
    \/ \E o \in Order : \/ PlaceOrder(o) \/ CancelOrder(o) \/ RecordUsage(o)
                        \/ \E p \in Proc : Rollup(p, o) \/ ReleaseLoad(p, o)
    \/ \E p \in Proc : Proceed(p) \/ Crash(p)
    \/ ResolveReferrer

Spec == Init /\ [][Next]_vars

\* Executions go on, and the broker delivers what is not acknowledged.
Redeliver(o) ==
    \/ /\ <<"placed-crm", o>> \in unacked
       /\ \E p \in Proc : Rollup(p, o)
    \/ /\ <<"canceled", o>> \in unacked
       /\ \E p \in Proc : ReleaseLoad(p, o)

FairSpec ==
    /\ Spec
    /\ \A p \in Proc : WF_vars(Proceed(p))
    /\ \A o \in Order : /\ SF_vars(Redeliver(o))
                        /\ WF_vars(<<"placed-marketing", o>> \in unacked
                                   /\ RecordUsage(o))

-----------------------------------------------------------------------------
(* Properties. *)

\* No account holds more points than its transactions account for, however
\* often orders.order.placed is delivered, awards overlap and executions die:
\* neither an order nor a referral is credited twice, two first orders that
\* complete the referral at once included.
CreditedOnce ==
    /\ points["customer"] <= Cardinality({o \in Order : <<"order", o>> \in txns})
    /\ points["referrer"] <= IF <<"referral">> \in txns THEN Reward ELSE 0

\* A discount never counts as used more often than usages of it are recorded,
\* whatever placed and canceled events are repeated or overtake each other: no
\* customer is refused a code that is still to be had.
UsageNotOvercounted ==
    usageCount <= Cardinality({o \in Order : usage[o].live})

\* Every order that was placed is counted in its customer's rollup, earns its
\* points and is recorded as a usage of its discount, though an execution may
\* die between the first two.
PlacedTakesEffect ==
    \A o \in Order : <<"placed-crm", o>> \in recorded ~>
        /\ o \in claimed
        /\ <<"order", o>> \in txns
        /\ o \in Discounted => usage[o].row > 0
=============================================================================
