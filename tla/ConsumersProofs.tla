--------------------------- MODULE ConsumersProofs --------------------------
(***************************************************************************)
(* What holds of the services that only consume messages: of OrderEffects  *)
(* for every finite set of orders, every set of executions, reward and     *)
(* number of crashes; and of Dispatch for every set of messages and        *)
(* executions, every number of attempts and any number of crashes.         *)
(*                                                                         *)
(* The two share no state.  Of Dispatch, the send log and its promise are  *)
(* extended and the rest is instantiated: Proc, MaxCrash, recorded, work   *)
(* and crashes, which both modules declare, are the ones of OrderEffects   *)
(* here, and no theorem is about both.                                     *)
(***************************************************************************)
EXTENDS OrderEffects, SendLog, FiniteSetTheorems, TLAPS

D == INSTANCE Dispatch

USE OrderEffectsAssumption

\* Two claims of one order are never open at once, and an open one increments
\* a total that the claims account for.
ClaimsExclude ==
    /\ \A p \in Proc : At(p, "claiming") =>
          work[p].order \notin claimed /\ work[p].total <= Cardinality(claimed)
    /\ \A p, q \in Proc :
          (/\ At(p, "claiming") /\ At(q, "claiming")
           /\ work[p].order = work[q].order) => p = q

Credited == {o \in Order : <<"order", o>> \in txns}
Due      == IF <<"referral">> \in txns THEN Reward ELSE 0

\* A loaded account, too, holds no more than the transactions account for.
LoadedIsDue ==
    /\ CreditedOnce
    /\ \A p \in Proc :
          /\ At(p, "awarding")  => work[p].points <= Cardinality(Credited)
          /\ At(p, "rewarding") => work[p].points <= Due

-----------------------------------------------------------------------------
\* What an execution carries with it.
LEMMA WorkFields ==
    ASSUME work \in [Proc -> {Idle} \cup Work], NEW p \in Proc
    PROVE  /\ At(p, "claiming") =>
                 work[p].order \in Order /\ work[p].total \in Nat
           /\ (\/ At(p, "accrue") \/ At(p, "awarding") \/ At(p, "refer")
               \/ At(p, "reward") \/ At(p, "rewarding")) =>
                 /\ work[p] \in
                       [pc : {"accrue", "awarding", "refer", "reward", "rewarding"},
                        order : Order, first : BOOLEAN, points : Int]
                 /\ work[p].order \in Order /\ work[p].points \in Int
           /\ At(p, "completing") =>
                 work[p].order \in Order /\ work[p].row \in Referral
           /\ At(p, "releasing") => work[p].order \in Order
<1>1. work[p] \in {Idle} \cup Work
  OBVIOUS
<1> QED
  BY <1>1 DEF Idle, Work, At

LEMMA DoType ==
    ASSUME work \in [Proc -> {Idle} \cup Work], NEW p \in Proc,
           NEW w \in {Idle} \cup Work, Do(p, w)
    PROVE  work' \in [Proc -> {Idle} \cup Work]
BY DEF Do

LEMMA DoOthers ==
    ASSUME work \in [Proc -> {Idle} \cup Work], NEW p \in Proc, NEW w, Do(p, w)
    PROVE  work'[p] = w /\ \A q \in Proc : q # p => work'[q] = work[q]
BY DEF Do

LEMMA ClaimedFinite ==
    ASSUME TypeOK
    PROVE  /\ IsFiniteSet(claimed) /\ Cardinality(claimed) \in Nat
           /\ \A o \in Order \ claimed :
                 Cardinality(claimed \cup {o}) = Cardinality(claimed) + 1
<1>1. IsFiniteSet(claimed)
  BY FS_Subset DEF TypeOK
<1> QED
  BY <1>1, FS_CardinalityType, FS_AddElement

\* An award leaves transactions and accounts typed.
LEMMA AwardType ==
    ASSUME TypeOK, NEW p \in Proc, NEW a \in Account, NEW t \in Txn,
           NEW award \in Int, work[p].points \in Int, Award(p, a, t, award)
    PROVE  txns' \subseteq Txn /\ points' \in [Account -> Int]
BY DEF Award, TypeOK

\* Type correctness; for totalOrders it says that a customer is never credited
\* with more orders than were claimed, whatever is redelivered or overlaps
\* (orders-sync, applyOrderRollup()).
THEOREM TypeCorrect == Spec => [](TypeOK /\ ClaimsExclude)
<1>1. Init => TypeOK
  <2> SUFFICES ASSUME Init
               PROVE  TypeOK
    OBVIOUS
  <2>1. 0 \in 0..Cardinality(claimed)
    BY FS_EmptySet DEF Init
  <2>2. usage \in [Order -> Usage] /\ referral \in Referral
    BY DEF Init, Usage, Referral
  <2> QED
    BY <2>1, <2>2 DEF Init, TypeOK, NoAccount
<1>2. Init => ClaimsExclude
  BY DEF Init, ClaimsExclude, At, Idle
<1>3. TypeOK /\ ClaimsExclude /\ [Next]_vars => TypeOK'
  <2> SUFFICES ASSUME TypeOK, ClaimsExclude, [Next]_vars
               PROVE  TypeOK'
    OBVIOUS
  <2>0. work \in [Proc -> {Idle} \cup Work] /\ Idle \in {Idle} \cup Work
    BY DEF TypeOK
  <2>1. ASSUME NEW o \in Order, PlaceOrder(o)
        PROVE  TypeOK'
    BY <2>1 DEF PlaceOrder, TypeOK, Message, crm, marketing
  <2>2. ASSUME NEW o \in Order, CancelOrder(o)
        PROVE  TypeOK'
    BY <2>2 DEF CancelOrder, TypeOK, Message, crm, marketing
  <2>3. ASSUME NEW p \in Proc, NEW o \in Order, Rollup(p, o)
        PROVE  TypeOK'
    <3>1. /\ [pc |-> "accrue", order |-> o, first |-> FALSE,
              points |-> NoAccount] \in {Idle} \cup Work
          /\ [pc |-> "claiming", order |-> o, total |-> totalOrders]
                \in {Idle} \cup Work
      BY ClaimedFinite DEF Work, NoAccount, TypeOK
    <3>2. work' \in [Proc -> {Idle} \cup Work]
      BY <2>0, <2>3, <3>1, DoType DEF Rollup
    <3> QED
      BY <2>3, <3>2 DEF Rollup, TypeOK, crm, marketing
  <2>4. ASSUME NEW p \in Proc, CommitRollup(p)
        PROVE  TypeOK'
    <3>1. /\ work[p].order \in Order \ claimed
          /\ work[p].total \in Nat /\ work[p].total <= Cardinality(claimed)
      BY <2>0, <2>4, WorkFields DEF CommitRollup, ClaimsExclude
    <3>2. /\ Cardinality(claimed') = Cardinality(claimed) + 1
          /\ Cardinality(claimed) \in Nat
      BY <2>4, <3>1, ClaimedFinite DEF CommitRollup
    <3>3. totalOrders' \in 0..Cardinality(claimed')
      BY <2>4, <3>1, <3>2 DEF CommitRollup
    <3>4. [pc |-> "accrue", order |-> work[p].order,
           first |-> work[p].total + 1 = 1, points |-> NoAccount]
             \in {Idle} \cup Work
      BY <3>1 DEF Work, NoAccount
    <3>5. work' \in [Proc -> {Idle} \cup Work]
      BY <2>0, <2>4, <3>4, DoType DEF CommitRollup
    <3> QED
      BY <2>4, <3>1, <3>3, <3>5 DEF CommitRollup, TypeOK, marketing
  <2>5. ASSUME NEW p \in Proc, AccrueLoad(p) \/ RewardLoad(p)
        PROVE  TypeOK'
    <3>1. work[p] \in
             [pc : {"accrue", "awarding", "refer", "reward", "rewarding"},
              order : Order, first : BOOLEAN, points : Int]
      BY <2>0, <2>5, WorkFields DEF AccrueLoad, RewardLoad
    <3>2. points["customer"] \in Int /\ points["referrer"] \in Int
      BY DEF TypeOK, Account
    <3>3. /\ [work[p] EXCEPT !.pc = "awarding", !.points = points["customer"]]
                \in {Idle} \cup Work
          /\ [work[p] EXCEPT !.pc = "rewarding", !.points = points["referrer"]]
                \in {Idle} \cup Work
      BY <3>1, <3>2 DEF Work
    <3>4. work' \in [Proc -> {Idle} \cup Work]
      BY <2>0, <2>5, <3>3, DoType DEF AccrueLoad, RewardLoad
    <3> QED
      BY <2>5, <3>4 DEF AccrueLoad, RewardLoad, TypeOK, crm, marketing
  <2>6. ASSUME NEW p \in Proc, CommitAccrual(p)
        PROVE  TypeOK'
    <3>1. /\ work[p] \in
                [pc : {"accrue", "awarding", "refer", "reward", "rewarding"},
                 order : Order, first : BOOLEAN, points : Int]
          /\ work[p].order \in Order /\ work[p].points \in Int
      BY <2>0, <2>6, WorkFields DEF CommitAccrual
    <3>2. CASE Thrown(p, "customer")
      <4>1. work' \in [Proc -> {Idle} \cup Work]
        BY <2>0, <3>2, DoType DEF Thrown
      <4> QED
        BY <3>2, <4>1 DEF Thrown, TypeOK, crm, marketing
    <3>3. CASE ~Thrown(p, "customer")
      <4>1. Award(p, "customer", <<"order", work[p].order>>, 1)
        BY <2>6, <3>3 DEF CommitAccrual
      <4>2. <<"order", work[p].order>> \in Txn /\ "customer" \in Account
        BY <3>1 DEF Txn, Account
      <4>3. txns' \subseteq Txn /\ points' \in [Account -> Int]
        BY <3>1, <4>1, <4>2, AwardType
      <4>4. [work[p] EXCEPT !.pc = "refer"] \in {Idle} \cup Work
        BY <3>1 DEF Work
      <4>5. work' \in [Proc -> {Idle} \cup Work]
        BY <2>0, <2>6, <3>3, <4>4, DoType DEF CommitAccrual, Goto
      <4> QED
        BY <2>6, <3>3, <4>3, <4>5 DEF CommitAccrual, Ack, TypeOK, marketing
    <3> QED
      BY <3>2, <3>3
  <2>7. ASSUME NEW p \in Proc, ReferLoad(p)
        PROVE  TypeOK'
    <3>1. work[p].order \in Order
      BY <2>0, <2>7, WorkFields DEF ReferLoad
    <3>2. [referral EXCEPT !.status = "completed"] \in Referral
      BY DEF TypeOK, Referral
    <3>3. [pc |-> "completing", order |-> work[p].order,
           row |-> [referral EXCEPT !.status = "completed"]] \in {Idle} \cup Work
      BY <3>1, <3>2 DEF Work
    <3>4. work' \in [Proc -> {Idle} \cup Work]
      BY <2>0, <2>7, <3>3, DoType DEF ReferLoad
    <3> QED
      BY <2>7, <3>4 DEF ReferLoad, Ack, TypeOK, crm, marketing
  <2>8. ASSUME NEW p \in Proc, CompleteReferral(p)
        PROVE  TypeOK'
    <3>1. work[p].order \in Order /\ work[p].row \in Referral
      BY <2>0, <2>8, WorkFields DEF CompleteReferral
    <3>2. [pc |-> "reward", order |-> work[p].order, first |-> TRUE,
           points |-> NoAccount] \in {Idle} \cup Work
      BY <3>1 DEF Work, NoAccount
    <3>3. work' \in [Proc -> {Idle} \cup Work]
      BY <2>0, <2>8, <3>2, DoType DEF CompleteReferral
    <3> QED
      BY <2>8, <3>1, <3>3 DEF CompleteReferral, Ack, TypeOK, marketing
  <2>9. ASSUME NEW p \in Proc, CommitReward(p)
        PROVE  TypeOK'
    <3>1. work[p].points \in Int
      BY <2>0, <2>9, WorkFields DEF CommitReward
    <3>2. work' \in [Proc -> {Idle} \cup Work]
      BY <2>0, <2>9, DoType DEF CommitReward, Thrown
    <3>3. CASE Thrown(p, "referrer")
      BY <3>2, <3>3 DEF Thrown, TypeOK, crm, marketing
    <3>4. CASE ~Thrown(p, "referrer")
      <4>1. Award(p, "referrer", <<"referral">>, Reward)
        BY <2>9, <3>4 DEF CommitReward
      <4>2. txns' \subseteq Txn /\ points' \in [Account -> Int]
        BY <3>1, <4>1, AwardType DEF Txn, Account
      <4> QED
        BY <2>9, <3>2, <3>4, <4>2 DEF CommitReward, Ack, TypeOK, marketing
    <3> QED
      BY <3>3, <3>4
  <2>10. CASE ResolveReferrer
    BY <2>10 DEF ResolveReferrer, TypeOK, Referral, marketing
  <2>11. ASSUME NEW o \in Order, RecordUsage(o)
         PROVE  TypeOK'
    <3>1. usage[o].live \in BOOLEAN /\ usage[o].row \in 0..MaxRows
      BY DEF TypeOK, Usage
    <3>2. usage' \in [Order -> Usage]
      <4>1. CASE usage[o].live
        BY <2>11, <4>1 DEF RecordUsage, TypeOK
      <4>2. CASE ~usage[o].live
        <5>1. [row |-> usage[o].row + 1, live |-> TRUE] \in Usage
          BY <2>11, <3>1, <4>2 DEF RecordUsage, Usage
        <5> QED
          BY <2>11, <4>2, <5>1 DEF RecordUsage, TypeOK
      <4> QED
        BY <4>1, <4>2
    <3> QED
      BY <2>11, <3>2 DEF RecordUsage, Ack, TypeOK, crm
  <2>12. ASSUME NEW p \in Proc, NEW o \in Order, ReleaseLoad(p, o)
         PROVE  TypeOK'
    <3>1. usage[o].row \in Nat
      BY DEF TypeOK, Usage
    <3>2. [pc |-> "releasing", order |-> o, id |-> usage[o].row]
             \in {Idle} \cup Work
      BY <3>1 DEF Work
    <3>3. work' \in [Proc -> {Idle} \cup Work]
      BY <2>0, <2>12, <3>2, DoType DEF ReleaseLoad
    <3> QED
      BY <2>12, <3>3 DEF ReleaseLoad, Ack, TypeOK, crm, marketing
  <2>13. ASSUME NEW p \in Proc, CommitRelease(p)
         PROVE  TypeOK'
    <3>1. work[p].order \in Order
      BY <2>0, <2>13, WorkFields DEF CommitRelease
    <3>2. usage' \in [Order -> Usage]
      BY <2>13, <3>1 DEF CommitRelease, TypeOK, Usage
    <3>3. work' \in [Proc -> {Idle} \cup Work]
      BY <2>0, <2>13, DoType DEF CommitRelease
    <3> QED
      BY <2>13, <3>2, <3>3 DEF CommitRelease, Ack, TypeOK, crm
  <2>14. ASSUME NEW p \in Proc, Crash(p)
         PROVE  TypeOK'
    <3>1. work' \in [Proc -> {Idle} \cup Work]
      BY <2>0, <2>14, DoType DEF Crash
    <3> QED
      BY <2>14, <3>1 DEF Crash, TypeOK, crm, marketing
  <2>15. CASE UNCHANGED vars
    BY <2>15 DEF vars, TypeOK, crm, marketing
  <2> QED
    BY <2>1, <2>2, <2>3, <2>4, <2>5, <2>6, <2>7, <2>8, <2>9, <2>10, <2>11,
       <2>12, <2>13, <2>14, <2>15 DEF Next, Proceed
<1>4. TypeOK /\ ClaimsExclude /\ [Next]_vars => ClaimsExclude'
  <2> SUFFICES ASSUME TypeOK, ClaimsExclude, [Next]_vars
               PROVE  ClaimsExclude'
    OBVIOUS
  <2>0. work \in [Proc -> {Idle} \cup Work]
    BY DEF TypeOK
  <2>1. ASSUME UNCHANGED claimed,
               \A q \in Proc : At(q, "claiming")' => work'[q] = work[q]
        PROVE  ClaimsExclude'
    BY <2>1 DEF ClaimsExclude, At
  <2>2. ASSUME NEW p \in Proc, NEW o \in Order, Rollup(p, o)
        PROVE  ClaimsExclude'
    <3>1. UNCHANGED claimed
      BY <2>2 DEF Rollup, crm
    <3>2. CASE /\ o \notin claimed
               /\ \A q \in Proc : At(q, "claiming") => work[q].order # o
               /\ Do(p, [pc |-> "claiming", order |-> o, total |-> totalOrders])
      <4>1. /\ work'[p].order = o /\ work'[p].total = totalOrders
            /\ \A q \in Proc : q # p => work'[q] = work[q]
        BY <2>0, <3>2, DoOthers
      <4>2. totalOrders <= Cardinality(claimed)
        BY ClaimedFinite DEF TypeOK
      <4> QED
        BY <3>1, <3>2, <4>1, <4>2 DEF ClaimsExclude, At
    <3>3. CASE Do(p, [pc |-> "accrue", order |-> o, first |-> FALSE,
                      points |-> NoAccount])
      BY <2>0, <2>1, <3>1, <3>3, DoOthers DEF At
    <3> QED
      BY <2>2, <3>2, <3>3 DEF Rollup
  <2>3. ASSUME NEW p \in Proc, CommitRollup(p)
        PROVE  ClaimsExclude'
    <3>1. /\ work[p].order \in Order \ claimed
          /\ claimed' = claimed \cup {work[p].order}
      BY <2>0, <2>3, WorkFields DEF CommitRollup, ClaimsExclude
    <3>2. /\ Cardinality(claimed') = Cardinality(claimed) + 1
          /\ Cardinality(claimed) \in Nat
      BY <3>1, ClaimedFinite
    <3>3. work'[p].pc = "accrue" /\ \A q \in Proc : q # p => work'[q] = work[q]
      BY <2>0, <2>3, DoOthers DEF CommitRollup
    <3>4. ASSUME NEW q \in Proc, At(q, "claiming")'
          PROVE  /\ At(q, "claiming") /\ work'[q] = work[q]
                 /\ work[q].order # work[p].order /\ work[q].total \in Nat
      BY <2>0, <2>3, <3>3, <3>4, WorkFields DEF CommitRollup, ClaimsExclude, At
    <3> QED
      BY <3>1, <3>2, <3>4 DEF ClaimsExclude
  <2>4. ASSUME NEW p \in Proc,
               \/ AccrueLoad(p) \/ RewardLoad(p)
               \/ CommitAccrual(p) \/ ReferLoad(p)
        PROVE  ClaimsExclude'
    <3>1. work[p] \in
             [pc : {"accrue", "awarding", "refer", "reward", "rewarding"},
              order : Order, first : BOOLEAN, points : Int]
      BY <2>0, <2>4, WorkFields
         DEF AccrueLoad, RewardLoad, CommitAccrual, ReferLoad
    <3>2. UNCHANGED claimed
      BY <2>4 DEF AccrueLoad, RewardLoad, CommitAccrual, ReferLoad, Thrown, crm
    <3>3. work'[p].pc # "claiming" /\ \A q \in Proc : q # p => work'[q] = work[q]
      <4>1. CASE AccrueLoad(p) \/ RewardLoad(p)
        <5>1. \A n : /\ [work[p] EXCEPT !.pc = "awarding", !.points = n].pc = "awarding"
                     /\ [work[p] EXCEPT !.pc = "rewarding", !.points = n].pc = "rewarding"
          BY <3>1
        <5>2. \/ Do(p, [work[p] EXCEPT !.pc = "awarding", !.points = points["customer"]])
              \/ Do(p, [work[p] EXCEPT !.pc = "rewarding", !.points = points["referrer"]])
          BY <4>1 DEF AccrueLoad, RewardLoad
        <5>3. CASE Do(p, [work[p] EXCEPT !.pc = "awarding", !.points = points["customer"]])
          BY <2>0, <5>1, <5>3, DoOthers
        <5>4. CASE Do(p, [work[p] EXCEPT !.pc = "rewarding", !.points = points["referrer"]])
          BY <2>0, <5>1, <5>4, DoOthers
        <5> QED
          BY <5>2, <5>3, <5>4
      <4>2. CASE CommitAccrual(p)
        BY <2>0, <3>1, <4>2, DoOthers DEF CommitAccrual, Thrown, Goto, Idle
      <4>3. CASE ReferLoad(p)
        BY <2>0, <4>3, DoOthers DEF ReferLoad, Idle
      <4> QED
        BY <2>4, <4>1, <4>2, <4>3
    <3> QED
      BY <2>1, <3>2, <3>3 DEF At
  <2>5. ASSUME NEW p \in Proc,
               \/ CompleteReferral(p) \/ CommitReward(p) \/ CommitRelease(p)
               \/ Crash(p)
        PROVE  ClaimsExclude'
    <3>1. UNCHANGED claimed
      BY <2>5 DEF CompleteReferral, CommitReward, CommitRelease, Crash, Thrown, crm
    <3>2. work'[p].pc # "claiming" /\ \A q \in Proc : q # p => work'[q] = work[q]
      BY <2>0, <2>5, DoOthers
         DEF CompleteReferral, CommitReward, CommitRelease, Crash, Thrown, Idle
    <3> QED
      BY <2>1, <3>1, <3>2 DEF At
  <2>6. ASSUME NEW p \in Proc, NEW o \in Order, ReleaseLoad(p, o)
        PROVE  ClaimsExclude'
    <3>1. UNCHANGED claimed
      BY <2>6 DEF ReleaseLoad, crm
    <3>2. \A q \in Proc : At(q, "claiming")' => work'[q] = work[q]
      BY <2>0, <2>6, DoOthers DEF ReleaseLoad, At
    <3> QED
      BY <2>1, <3>1, <3>2
  <2>7. ASSUME NEW o \in Order,
               PlaceOrder(o) \/ CancelOrder(o) \/ RecordUsage(o)
        PROVE  ClaimsExclude'
    BY <2>1, <2>7 DEF PlaceOrder, CancelOrder, RecordUsage, crm, At
  <2>8. CASE ResolveReferrer \/ UNCHANGED vars
    BY <2>1, <2>8 DEF ResolveReferrer, vars, crm, At
  <2> QED
    BY <2>2, <2>3, <2>4, <2>5, <2>6, <2>7, <2>8 DEF Next, Proceed
<1> QED
  BY <1>1, <1>2, <1>3, <1>4, PTL DEF Spec

-----------------------------------------------------------------------------
(* No account holds more points than its transactions account for. *)

LEMMA CreditedFinite ==
    IsFiniteSet(Credited) /\ Cardinality(Credited) \in Nat
<1>1. IsFiniteSet(Order) /\ Credited \subseteq Order
  BY DEF Credited
<1> QED
  BY <1>1, FS_Subset, FS_CardinalityType

\* An account is credited with exactly what its new transaction is due.
LEMMA AwardDue ==
    ASSUME TypeOK, LoadedIsDue, NEW p \in Proc, NEW o \in Order,
           work[p].points \in Int
    PROVE  /\ /\ At(p, "awarding")
              /\ Award(p, "customer", <<"order", o>>, 1)
              => /\ points'["customer"] <= Cardinality(Credited)'
                 /\ points'["referrer"] = points["referrer"]
                 /\ Cardinality(Credited) <= Cardinality(Credited)'
                 /\ Due' = Due
           /\ /\ At(p, "rewarding")
              /\ Award(p, "referrer", <<"referral">>, Reward)
              => /\ points'["referrer"] <= Due'
                 /\ points'["customer"] = points["customer"]
                 /\ Credited' = Credited
                 /\ Due <= Due'
<1>0. /\ Cardinality(Credited) \in Nat
      /\ points["customer"] \in Int /\ points["referrer"] \in Int
      /\ "customer" \in Account /\ "referrer" \in Account
      /\ "customer" # "referrer" /\ points \in [Account -> Int]
  BY CreditedFinite DEF TypeOK, Account
<1>1. ASSUME At(p, "awarding"), Award(p, "customer", <<"order", o>>, 1)
      PROVE  /\ points'["customer"] <= Cardinality(Credited)'
             /\ points'["referrer"] = points["referrer"]
             /\ Cardinality(Credited) <= Cardinality(Credited)'
             /\ Due' = Due
  <2>1. Credited' = Credited \cup {o} /\ (o \in Credited <=> <<"order", o>> \in txns)
    BY <1>1 DEF Award, Credited
  <2>2. Due' = Due
    <3>1. <<"referral">> # <<"order", o>>
      OBVIOUS
    <3> QED
      BY <1>1, <3>1 DEF Award, Due
  <2>3. Cardinality(Credited') = IF o \in Credited THEN Cardinality(Credited)
                                 ELSE Cardinality(Credited) + 1
    BY <2>1, CreditedFinite, FS_AddElement
  <2>4. /\ points["customer"] <= Cardinality(Credited)
        /\ work[p].points <= Cardinality(Credited)
    BY <1>1 DEF LoadedIsDue, CreditedOnce, Credited
  <2>5. points' = [points EXCEPT !["customer"] =
                      IF o \in Credited THEN @
                      ELSE (IF work[p].points = NoAccount THEN 0
                            ELSE work[p].points) + 1]
    BY <1>1, <2>1 DEF Award
  <2>6. points'["customer"] <= Cardinality(Credited')
    BY <1>0, <2>3, <2>4, <2>5
  <2> QED
    BY <1>0, <2>2, <2>3, <2>5, <2>6
<1>2. ASSUME At(p, "rewarding"), Award(p, "referrer", <<"referral">>, Reward)
      PROVE  /\ points'["referrer"] <= Due'
             /\ points'["customer"] = points["customer"]
             /\ Credited' = Credited
             /\ Due <= Due'
  <2>1. \A x \in Order : <<"order", x>> # <<"referral">>
    OBVIOUS
  <2>2. Credited' = Credited
    BY <1>2, <2>1 DEF Award, Credited
  <2>3. Due' = Reward /\ Due <= Due' /\ Due \in Nat
    BY <1>2 DEF Award, Due
  <2>4. points["referrer"] <= Due /\ work[p].points <= Due
    BY <1>2 DEF LoadedIsDue, CreditedOnce, Due
  <2>5. points'["referrer"] <= Due'
    <3>1. CASE <<"referral">> \in txns
      BY <1>0, <1>2, <2>3, <2>4, <3>1 DEF Award
    <3>2. CASE <<"referral">> \notin txns
      <4>1. work[p].points <= 0
        BY <2>4, <3>2 DEF Due
      <4>2. points'["referrer"] = (IF work[p].points = NoAccount THEN 0
                                   ELSE work[p].points) + Reward
        BY <1>0, <1>2, <3>2 DEF Award
      <4> QED
        BY <2>3, <4>1, <4>2
    <3> QED
      BY <3>1, <3>2
  <2> QED
    BY <1>0, <1>2, <2>2, <2>3, <2>5 DEF Award
<1> QED
  BY <1>1, <1>2

\* Who is loaded stays due while what is due only grows.
LEMMA StillDue ==
    ASSUME TypeOK, LoadedIsDue, TypeOK',
           Cardinality(Credited) <= Cardinality(Credited)', Due <= Due',
           CreditedOnce',
           \A q \in Proc : At(q, "awarding")' =>
               \/ work'[q] = work[q]
               \/ work'[q].points = points["customer"],
           \A q \in Proc : At(q, "rewarding")' =>
               \/ work'[q] = work[q]
               \/ work'[q].points = points["referrer"]
    PROVE  LoadedIsDue'
<1>0. /\ Cardinality(Credited) \in Nat /\ Cardinality(Credited)' \in Nat
      /\ Due \in Nat /\ Due' \in Nat
      /\ points["customer"] \in Int /\ points["referrer"] \in Int
  <2>1. Cardinality(Credited)' \in Nat
    <3>1. IsFiniteSet(Order) /\ Credited' \subseteq Order
      BY DEF Credited
    <3> QED
      BY <3>1, FS_Subset, FS_CardinalityType
  <2> QED
    BY <2>1, CreditedFinite DEF TypeOK, Account, Due
<1>1. /\ points["customer"] <= Cardinality(Credited)
      /\ points["referrer"] <= Due
  BY DEF LoadedIsDue, CreditedOnce, Credited, Due
<1>2. ASSUME NEW q \in Proc
      PROVE  /\ At(q, "awarding")' => work'[q].points <= Cardinality(Credited)'
             /\ At(q, "rewarding")' => work'[q].points <= Due'
  <2>1. /\ At(q, "awarding") => work[q].points \in Int
        /\ At(q, "rewarding") => work[q].points \in Int
    BY WorkFields DEF TypeOK
  <2>2. /\ At(q, "awarding")  => work[q].points <= Cardinality(Credited)
        /\ At(q, "rewarding") => work[q].points <= Due
    BY DEF LoadedIsDue
  <2>3. ASSUME At(q, "awarding")'
        PROVE  work'[q].points <= Cardinality(Credited)'
    BY <1>0, <1>1, <2>1, <2>2, <2>3 DEF At
  <2>4. ASSUME At(q, "rewarding")'
        PROVE  work'[q].points <= Due'
    BY <1>0, <1>1, <2>1, <2>2, <2>4 DEF At
  <2> QED
    BY <2>3, <2>4
<1> QED
  BY <1>2 DEF LoadedIsDue

\* The actions that touch neither transactions nor accounts.
LEMMA DueUnchanged ==
    ASSUME UNCHANGED <<txns, points>>
    PROVE  /\ Cardinality(Credited)' = Cardinality(Credited) /\ Due' = Due
           /\ LoadedIsDue => CreditedOnce'
BY DEF Credited, Due, LoadedIsDue, CreditedOnce

\* No account ever holds more points than its recorded transactions account
\* for: an order or a referral is credited at most once, for every number of
\* overlapping and repeated deliveries (loyalty.service.ts, awardWithRefId()).
THEOREM CreditedAtMostOnce == Spec => []CreditedOnce
<1>1. Init => LoadedIsDue
  <2>1. Init => points["customer"] = NoAccount /\ points["referrer"] = NoAccount
    BY DEF Init, Account
  <2>2. Init => CreditedOnce
    BY <2>1, CreditedFinite DEF CreditedOnce, Credited, NoAccount, Init
  <2> QED
    BY <2>2 DEF LoadedIsDue, Init, At, Idle
<1>2. TypeOK /\ TypeOK' /\ LoadedIsDue /\ [Next]_vars => LoadedIsDue'
  <2> SUFFICES ASSUME TypeOK, TypeOK', LoadedIsDue, [Next]_vars
               PROVE  LoadedIsDue'
    OBVIOUS
  <2>0. /\ work \in [Proc -> {Idle} \cup Work]
        /\ Cardinality(Credited) \in Nat /\ Due \in Nat
    BY CreditedFinite DEF TypeOK, Due
  <2>1. ASSUME UNCHANGED <<txns, points>>,
               \A q \in Proc : At(q, "awarding")' =>
                   \/ work'[q] = work[q]
                   \/ work'[q].points = points["customer"],
               \A q \in Proc : At(q, "rewarding")' =>
                   \/ work'[q] = work[q]
                   \/ work'[q].points = points["referrer"]
        PROVE  LoadedIsDue'
    BY <2>0, <2>1, DueUnchanged, StillDue
  <2>2. ASSUME UNCHANGED work, UNCHANGED <<txns, points>>
        PROVE  LoadedIsDue'
    BY <2>1, <2>2 DEF At
  <2>3. ASSUME NEW p \in Proc, NEW w, Do(p, w), UNCHANGED <<txns, points>>,
               w.pc \notin {"awarding", "rewarding"}
        PROVE  LoadedIsDue'
    <3>1. work'[p] = w /\ \A q \in Proc : q # p => work'[q] = work[q]
      BY <2>0, <2>3, DoOthers
    <3> QED
      BY <2>1, <2>3, <3>1 DEF At
  <2>4. ASSUME NEW o \in Order,
               PlaceOrder(o) \/ CancelOrder(o) \/ RecordUsage(o)
        PROVE  LoadedIsDue'
    BY <2>2, <2>4 DEF PlaceOrder, CancelOrder, RecordUsage, crm
  <2>5. ASSUME NEW p \in Proc, NEW o \in Order, Rollup(p, o)
        PROVE  LoadedIsDue'
    BY <2>3, <2>5 DEF Rollup, crm
  <2>6. ASSUME NEW p \in Proc, NEW o \in Order, ReleaseLoad(p, o)
        PROVE  LoadedIsDue'
    BY <2>2, <2>3, <2>6 DEF ReleaseLoad, crm
  <2>7. ASSUME NEW p \in Proc, CommitRollup(p)
        PROVE  LoadedIsDue'
    BY <2>3, <2>7 DEF CommitRollup
  <2>8. ASSUME NEW p \in Proc, AccrueLoad(p)
        PROVE  LoadedIsDue'
    <3>1. work[p] \in
             [pc : {"accrue", "awarding", "refer", "reward", "rewarding"},
              order : Order, first : BOOLEAN, points : Int]
      BY <2>0, <2>8, WorkFields DEF AccrueLoad
    <3> DEFINE w == [work[p] EXCEPT !.pc = "awarding", !.points = points["customer"]]
    <3>2. w.pc = "awarding" /\ w.points = points["customer"]
      BY <3>1
    <3>3. Do(p, w) /\ UNCHANGED <<txns, points>>
      BY <2>8 DEF AccrueLoad, crm
    <3> HIDE DEF w
    <3>4. work'[p] = w /\ \A q \in Proc : q # p => work'[q] = work[q]
      BY <2>0, <3>3, DoOthers
    <3> QED
      BY <2>1, <3>2, <3>3, <3>4 DEF At
  <2>9. ASSUME NEW p \in Proc, RewardLoad(p)
        PROVE  LoadedIsDue'
    <3>1. work[p] \in
             [pc : {"accrue", "awarding", "refer", "reward", "rewarding"},
              order : Order, first : BOOLEAN, points : Int]
      BY <2>0, <2>9, WorkFields DEF RewardLoad
    <3> DEFINE w == [work[p] EXCEPT !.pc = "rewarding", !.points = points["referrer"]]
    <3>2. w.pc = "rewarding" /\ w.points = points["referrer"]
      BY <3>1
    <3>3. Do(p, w) /\ UNCHANGED <<txns, points>>
      BY <2>9 DEF RewardLoad, crm
    <3> HIDE DEF w
    <3>4. work'[p] = w /\ \A q \in Proc : q # p => work'[q] = work[q]
      BY <2>0, <3>3, DoOthers
    <3> QED
      BY <2>1, <3>2, <3>3, <3>4 DEF At
  <2>10. ASSUME NEW p \in Proc, CommitAccrual(p)
         PROVE  LoadedIsDue'
    <3>1. CASE Thrown(p, "customer")
      BY <2>3, <3>1 DEF Thrown, Idle, crm
    <3>2. CASE ~Thrown(p, "customer")
      <4>1. /\ work[p] \in
                  [pc : {"accrue", "awarding", "refer", "reward", "rewarding"},
                   order : Order, first : BOOLEAN, points : Int]
            /\ work[p].order \in Order /\ work[p].points \in Int
        BY <2>0, <2>10, WorkFields DEF CommitAccrual
      <4>2. /\ At(p, "awarding")
            /\ Award(p, "customer", <<"order", work[p].order>>, 1)
        BY <2>10, <3>2 DEF CommitAccrual
      <4>3. /\ points'["customer"] <= Cardinality(Credited)'
            /\ points'["referrer"] = points["referrer"]
            /\ Cardinality(Credited) <= Cardinality(Credited)'
            /\ Due' = Due
        BY <4>1, <4>2, AwardDue
      <4>4. CreditedOnce'
        BY <4>3 DEF LoadedIsDue, CreditedOnce, Credited, Due
      <4>5. /\ work'[p].pc \notin {"awarding", "rewarding"}
            /\ \A q \in Proc : q # p => work'[q] = work[q]
        <5> DEFINE w == [work[p] EXCEPT !.pc = "refer"]
        <5>1. w.pc = "refer" /\ Idle.pc = "idle"
          BY <4>1 DEF Idle
        <5>2. Do(p, w) \/ Do(p, Idle)
          BY <2>10, <3>2 DEF CommitAccrual, Goto
        <5> HIDE DEF w
        <5> QED
          BY <2>0, <5>1, <5>2, DoOthers
      <4> QED
        BY <2>0, <4>3, <4>4, <4>5, StillDue DEF At
    <3> QED
      BY <3>1, <3>2
  <2>11. ASSUME NEW p \in Proc, ReferLoad(p)
         PROVE  LoadedIsDue'
    BY <2>3, <2>11 DEF ReferLoad, Idle, crm
  <2>12. ASSUME NEW p \in Proc, CompleteReferral(p)
         PROVE  LoadedIsDue'
    BY <2>3, <2>12 DEF CompleteReferral, Idle
  <2>13. ASSUME NEW p \in Proc, CommitReward(p)
         PROVE  LoadedIsDue'
    <3>1. CASE Thrown(p, "referrer")
      BY <2>3, <3>1 DEF Thrown, Idle, crm
    <3>2. CASE ~Thrown(p, "referrer")
      <4>1. work[p].order \in Order /\ work[p].points \in Int
        BY <2>0, <2>13, WorkFields DEF CommitReward
      <4>2. /\ At(p, "rewarding")
            /\ Award(p, "referrer", <<"referral">>, Reward)
        BY <2>13, <3>2 DEF CommitReward
      <4>3. /\ points'["referrer"] <= Due'
            /\ points'["customer"] = points["customer"]
            /\ Credited' = Credited
            /\ Due <= Due'
        BY <4>1, <4>2, AwardDue
      <4>4. CreditedOnce'
        BY <4>3 DEF LoadedIsDue, CreditedOnce, Credited, Due
      <4>5. /\ work'[p] = Idle
            /\ \A q \in Proc : q # p => work'[q] = work[q]
        BY <2>0, <2>13, <3>2, DoOthers DEF CommitReward
      <4>6. Cardinality(Credited) <= Cardinality(Credited)'
        BY <2>0, <4>3
      <4> QED
        BY <4>3, <4>4, <4>5, <4>6, StillDue DEF At, Idle
    <3> QED
      BY <3>1, <3>2
  <2>14. CASE ResolveReferrer
    BY <2>2, <2>14 DEF ResolveReferrer
  <2>15. ASSUME NEW p \in Proc, CommitRelease(p) \/ Crash(p)
         PROVE  LoadedIsDue'
    BY <2>3, <2>15 DEF CommitRelease, Crash, Idle, crm
  <2>16. CASE UNCHANGED vars
    BY <2>2, <2>16 DEF vars, crm
  <2> QED
    BY <2>4, <2>5, <2>6, <2>7, <2>8, <2>9, <2>10, <2>11, <2>12, <2>13, <2>14,
       <2>15, <2>16 DEF Next, Proceed
<1>3. LoadedIsDue => CreditedOnce
  BY DEF LoadedIsDue
<1> QED
  BY <1>1, <1>2, <1>3, TypeCorrect, PTL DEF Spec

-----------------------------------------------------------------------------
(* The count of a discount. *)

Live == {o \in Order : usage[o].live}

\* A discount is never counted as used more often than usages of it are
\* recorded, whatever is repeated or overtaken (usages.service.ts,
\* recordUsage() and releaseUsage()).
THEOREM NeverOvercounted == Spec => []UsageNotOvercounted
<1>1. Init => UsageNotOvercounted
  <2> SUFFICES ASSUME Init
               PROVE  UsageNotOvercounted
    OBVIOUS
  <2>1. Live = {}
    <3>1. \A o \in Order : usage[o] = [row |-> 0, live |-> FALSE]
      BY DEF Init
    <3>2. ~[row |-> 0, live |-> FALSE].live
      OBVIOUS
    <3>3. \A o \in Order : ~usage[o].live
      BY <3>1, <3>2, Zenon
    <3> QED
      BY <3>3, Zenon DEF Live
  <2>2. Cardinality(Live) = 0 /\ usageCount = 0
    BY <2>1, FS_EmptySet DEF Init
  <2> QED
    BY <2>2 DEF UsageNotOvercounted, Live
<1>2. TypeOK /\ UsageNotOvercounted /\ [Next]_vars => UsageNotOvercounted'
  <2> SUFFICES ASSUME TypeOK, UsageNotOvercounted, [Next]_vars
               PROVE  UsageNotOvercounted'
    OBVIOUS
  <2>0. /\ IsFiniteSet(Live) /\ Cardinality(Live) \in Nat
        /\ usageCount \in Int /\ usageCount <= Cardinality(Live)
    <3>1. IsFiniteSet(Live)
      BY FS_Subset DEF Live
    <3> QED
      BY <3>1, FS_CardinalityType DEF TypeOK, UsageNotOvercounted, Live
  <2>1. ASSUME NEW o \in Order, RecordUsage(o)
        PROVE  UsageNotOvercounted'
    <3>1. Live' = Live \cup {o} /\ (usage[o].live <=> o \in Live)
      BY <2>1 DEF RecordUsage, Live, TypeOK, Usage
    <3>2. Cardinality(Live') = IF o \in Live THEN Cardinality(Live)
                               ELSE Cardinality(Live) + 1
      BY <2>0, <3>1, FS_AddElement
    <3>3. usageCount' = IF o \in Live THEN usageCount ELSE usageCount + 1
      BY <2>1, <3>1 DEF RecordUsage
    <3>4. usageCount' <= Cardinality(Live')
      BY <2>0, <3>2, <3>3
    <3> QED
      BY <3>4 DEF UsageNotOvercounted, Live
  <2>2. ASSUME NEW p \in Proc, CommitRelease(p)
        PROVE  UsageNotOvercounted'
    <3> DEFINE o == work[p].order
    <3>1. o \in Order
      BY <2>2, WorkFields DEF TypeOK, CommitRelease
    <3>2. Live' = Live \/ Live' = Live \ {o}
      <4>1. usage' = [usage EXCEPT ![o].live = @ /\ usage[o].row # work[p].id]
        BY <2>2 DEF CommitRelease
      <4>2. usage \in [Order -> Usage]
        BY DEF TypeOK
      <4> HIDE DEF o
      <4>3. /\ \A x \in Order : x # o => usage'[x] = usage[x]
            /\ usage'[o].live => usage[o].live
        BY <3>1, <4>1, <4>2 DEF Usage
      <4> QED
        BY <3>1, <4>3 DEF Live
    <3>3. Cardinality(Live \ {o}) = IF o \in Live THEN Cardinality(Live) - 1
                                    ELSE Cardinality(Live)
      BY <2>0, FS_RemoveElement
    <3>4. usageCount' = usageCount - 1
      BY <2>2 DEF CommitRelease
    <3>5. usageCount' <= Cardinality(Live')
      BY <2>0, <3>2, <3>3, <3>4
    <3> QED
      BY <3>5 DEF UsageNotOvercounted, Live
  <2>3. ASSUME UNCHANGED marketing
        PROVE  UsageNotOvercounted'
    BY <2>3 DEF UsageNotOvercounted, marketing
  <2>4. ASSUME NEW p \in Proc, Proceed(p), ~CommitRelease(p)
        PROVE  UNCHANGED marketing
    BY <2>4 DEF Proceed, CommitRollup, AccrueLoad, CommitAccrual, ReferLoad,
       CompleteReferral, RewardLoad, CommitReward, Thrown
  <2> QED
    BY <2>1, <2>2, <2>3, <2>4
       DEF Next, PlaceOrder, CancelOrder, Rollup, ReleaseLoad, Crash,
           ResolveReferrer, vars
<1> QED
  BY <1>1, <1>2, TypeCorrect, PTL DEF Spec

-----------------------------------------------------------------------------
(* Dispatch.  What it assumes of its constants is a hypothesis of each     *)
(* lemma.                                                                  *)

USE DEF D!DispatchAssumption

\* What an execution carries with it.
LEMMA MailFields ==
    ASSUME D!DispatchAssumption,
           D!TypeOK, NEW p \in Proc
    PROVE  /\ D!At(p, "inserting") => work[p].key \in D!Key
           /\ D!At(p, "attempting") \/ D!At(p, "accepted") \/ D!At(p, "refused") =>
                 /\ work[p].key \in D!Key /\ work[p].row \in D!Row
                 /\ work[p] \in [pc : {"attempting", "accepted", "refused"},
                                 key : D!Key, row : D!Row]
           /\ D!At(p, "bounced") =>
                 work[p].message \in Mail /\ work[p].row \in D!Row
<1>1. work[p] \in {D!Idle} \cup D!Work
  BY DEF D!TypeOK
<1> QED
  BY <1>1 DEF D!Idle, D!Work, D!At

\* A step of an execution that leaves it in a legal place.
LEMMA MailDoType ==
    ASSUME D!DispatchAssumption,
           D!TypeOK, NEW p \in Proc, NEW w \in {D!Idle} \cup D!Work, D!Do(p, w)
    PROVE  work' \in [Proc -> {D!Idle} \cup D!Work]
BY DEF D!TypeOK, D!Do

\* A step of one execution leaves the others where they are.
LEMMA MailDoOthers ==
    ASSUME D!DispatchAssumption,
           D!TypeOK, NEW p \in Proc, NEW w, D!Do(p, w)
    PROVE  work'[p] = w /\ \A q \in Proc : q # p => work'[q] = work[q]
BY DEF D!TypeOK, D!Do

\* The end of an attempt on the typed state.
LEMMA SaveType ==
    ASSUME D!DispatchAssumption,
           D!TypeOK, NEW p \in Proc, NEW r \in D!Row, NEW retries \in SUBSET D!Key,
           work[p].key \in D!Key, D!Save(p, r, retries)
    PROVE  D!TypeOK'
<1>1. work[p].key[1] \in Mail
  BY DEF D!Key
<1>2. row' \in [Mail -> D!Row]
  BY <1>1 DEF D!Save, D!TypeOK
<1>3. work' \in [Proc -> {D!Idle} \cup D!Work]
  BY MailDoType DEF D!Save
<1> QED
  BY <1>2, <1>3 DEF D!Save, D!TypeOK

\* Type correctness: no overlap of executions and no redelivery takes the
\* count of attempts past NOTIFICATION_MAX_ATTEMPTS, or acknowledges a message
\* that was not recorded (dispatch.service.ts, attempt()).
THEOREM MailTypeCorrect ==
    ASSUME D!DispatchAssumption
    PROVE  D!Spec => []D!TypeOK
<1>1. D!Init => D!TypeOK
  BY DEF D!Init, D!TypeOK, D!Row
<1>2. D!TypeOK /\ [D!Next]_(D!vars) => D!TypeOK'
  <2> SUFFICES ASSUME D!TypeOK, [D!Next]_(D!vars)
               PROVE  D!TypeOK'
    OBVIOUS
  <2>1. ASSUME NEW m \in Mail, D!Command(m)
        PROVE  D!TypeOK'
    <3>1. <<m, 0>> \in D!Key
      BY DEF D!Key
    <3> QED
      BY <2>1, <3>1 DEF D!Command, D!TypeOK
  <2>2. ASSUME NEW p \in Proc, NEW k \in D!Key, D!Deliver(p, k)
        PROVE  D!TypeOK'
    <3>1. row[k[1]] \in D!Row
      BY DEF D!Key, D!TypeOK
    <3>2. /\ [pc |-> "inserting", key |-> k] \in {D!Idle} \cup D!Work
          /\ [pc |-> "attempting", key |-> k, row |-> row[k[1]]]
                \in {D!Idle} \cup D!Work
      BY <3>1 DEF D!Work
    <3>3. work' \in [Proc -> {D!Idle} \cup D!Work]
      BY <2>2, <3>2, MailDoType DEF D!Deliver, D!TypeOK
    <3> QED
      BY <2>2, <3>3 DEF D!Deliver, D!TypeOK
  <2>3. ASSUME NEW p \in Proc, D!Insert(p)
        PROVE  D!TypeOK'
    <3> DEFINE k == work[p].key
               r == [status |-> "pending", attempt |-> 1, known |-> FALSE]
    <3>1. k \in D!Key /\ k[1] \in Mail
      BY <2>3, MailFields DEF D!Insert, D!Key
    <3>2. r \in D!Row
      BY DEF D!Row
    <3>3. [pc |-> "attempting", key |-> k, row |-> r] \in {D!Idle} \cup D!Work
      BY <3>1, <3>2 DEF D!Work
    <3>4. work' \in [Proc -> {D!Idle} \cup D!Work]
      BY <2>3, <3>3, MailDoType DEF D!Insert
    <3>5. row' \in [Mail -> D!Row]
      BY <2>3, <3>1, <3>2 DEF D!Insert, D!TypeOK
    <3> QED
      BY <2>3, <3>4, <3>5 DEF D!Insert, D!TypeOK
  <2>4. ASSUME NEW p \in Proc, D!Send(p)
        PROVE  D!TypeOK'
    <3>1. /\ work[p].key[1] \in Mail
          /\ work[p] \in [pc : {"attempting", "accepted", "refused"},
                          key : D!Key, row : D!Row]
      BY <2>4, MailFields DEF D!Send, D!Key
    <3>2. /\ [work[p] EXCEPT !.pc = "accepted"] \in {D!Idle} \cup D!Work
          /\ [work[p] EXCEPT !.pc = "refused"] \in {D!Idle} \cup D!Work
      BY <3>1 DEF D!Work
    <3>3. work' \in [Proc -> {D!Idle} \cup D!Work]
      BY <2>4, <3>2, MailDoType DEF D!Send
    <3>4. refused' \in [Mail -> 0..MaxAttempts]
      BY <2>4, <3>1 DEF D!Send, D!TypeOK
    <3> QED
      BY <2>4, <3>3, <3>4 DEF D!Send, D!TypeOK
  <2>5. ASSUME NEW p \in Proc, D!SaveSent(p)
        PROVE  D!TypeOK'
    <3>1. work[p].key \in D!Key /\ work[p].row \in D!Row
      BY <2>5, MailFields DEF D!SaveSent
    <3>2. [work[p].row EXCEPT !.status = "sent", !.known = TRUE] \in D!Row
      BY <3>1 DEF D!Row
    <3> QED
      BY <2>5, <3>1, <3>2, SaveType DEF D!SaveSent
  <2>6. ASSUME NEW p \in Proc, D!SaveRetry(p)
        PROVE  D!TypeOK'
    <3> DEFINE next == work[p].row.attempt + 1
    <3>1. work[p].key \in D!Key /\ work[p].row \in D!Row
      BY <2>6, MailFields DEF D!SaveRetry
    <3>2. next \in 1..MaxAttempts
      BY <2>6, <3>1 DEF D!SaveRetry, D!Row
    <3>3. [work[p].row EXCEPT !.attempt = next] \in D!Row
      BY <3>1, <3>2 DEF D!Row
    <3>4. {<<work[p].key[1], next>>} \in SUBSET D!Key
      BY <3>1, <3>2 DEF D!Key
    <3> QED
      BY <2>6, <3>1, <3>3, <3>4, SaveType DEF D!SaveRetry
  <2>7. ASSUME NEW p \in Proc, D!SaveDead(p)
        PROVE  D!TypeOK'
    <3>1. work[p].key \in D!Key /\ work[p].row \in D!Row
      BY <2>7, MailFields DEF D!SaveDead
    <3>2. [work[p].row EXCEPT !.status = "dead"] \in D!Row
      BY <3>1 DEF D!Row
    <3> QED
      BY <2>7, <3>1, <3>2, SaveType DEF D!SaveDead
  <2>8. ASSUME NEW p \in Proc, NEW m \in Mail, D!BounceLoad(p, m)
        PROVE  D!TypeOK'
    <3>1. [row[m] EXCEPT !.status = "failed"] \in D!Row
      BY DEF D!TypeOK, D!Row
    <3>2. [pc |-> "bounced", message |-> m,
           row |-> [row[m] EXCEPT !.status = "failed"]] \in {D!Idle} \cup D!Work
      BY <3>1 DEF D!Work
    <3> QED
      BY <2>8, <3>2, MailDoType DEF D!BounceLoad, D!TypeOK
  <2>9. ASSUME NEW p \in Proc, D!BounceSave(p)
        PROVE  D!TypeOK'
    <3>1. work[p].message \in Mail /\ work[p].row \in D!Row
      BY <2>9, MailFields DEF D!BounceSave
    <3>2. row' \in [Mail -> D!Row]
      BY <2>9, <3>1 DEF D!BounceSave, D!TypeOK
    <3>3. work' \in [Proc -> {D!Idle} \cup D!Work]
      BY <2>9, MailDoType DEF D!BounceSave
    <3> QED
      BY <2>9, <3>2, <3>3 DEF D!BounceSave, D!TypeOK
  <2>10. ASSUME NEW p \in Proc, D!Crash(p)
         PROVE  D!TypeOK'
    BY <2>10, MailDoType DEF D!Crash, D!TypeOK
  <2>11. CASE UNCHANGED D!vars
    BY <2>11 DEF D!vars, D!TypeOK
  <2> QED
    BY <2>1, <2>2, <2>3, <2>4, <2>5, <2>6, <2>7, <2>8, <2>9, <2>10, <2>11
       DEF D!Next, D!Proceed
<1> QED
  BY <1>1, <1>2, PTL DEF D!Spec

-----------------------------------------------------------------------------
(* The inductive invariants. *)

Attempting(p) == D!At(p, "attempting") \/ D!At(p, "accepted") \/ D!At(p, "refused")

\* As long as a command has no row, nothing about it was acknowledged; and
\* what an execution loaded, it will not save as pending without a retry.
Driven ==
    /\ PendingIsDriven
    /\ \A k \in recorded : row[k[1]].status = "none" => k \in undelivered
    /\ \A p \in Proc :
          /\ D!At(p, "inserting") => work[p].key \in recorded
          /\ Attempting(p) => work[p].row.status \in {"pending", "failed"}
          /\ D!At(p, "bounced") => work[p].row.status = "failed"

\* No row, stored or loaded, is ahead of what the provider has refused.
Counted ==
    /\ DeadWasTried
    /\ \A m \in Mail : row[m].attempt <= refused[m] + 1
    /\ \A p \in Proc :
          /\ Attempting(p) =>
                work[p].row.attempt <= refused[work[p].key[1]] + 1
          /\ D!At(p, "refused") =>
                work[p].row.attempt <= refused[work[p].key[1]]
          /\ D!At(p, "bounced") =>
                /\ work[p].row.attempt <= refused[work[p].message] + 1
                /\ work[p].row.status = "failed"

\* What the end of an attempt does, to rows and to executions.
LEMMA SaveEffect ==
    ASSUME D!DispatchAssumption,
           D!TypeOK, NEW p \in Proc, work[p].key \in D!Key,
           NEW r, NEW retries, D!Save(p, r, retries)
    PROVE  /\ work[p].key[1] \in Mail
           /\ row'[work[p].key[1]] = r
           /\ \A m \in Mail : m # work[p].key[1] => row'[m] = row[m]
           /\ work'[p].pc = "idle"
           /\ \A q \in Proc : q # p => work'[q] = work[q]
           /\ recorded' = recorded \cup retries
           /\ undelivered' = (undelivered \ {work[p].key}) \cup retries
           /\ refused' = refused
BY MailDoOthers DEF D!Save, D!TypeOK, D!Key, D!Idle

\* An ended attempt leaves its row settled, or pending with a retry.
LEMMA SaveDriven ==
    ASSUME D!DispatchAssumption,
           D!TypeOK, Driven, NEW p \in Proc, work[p].key \in D!Key,
           NEW r \in D!Row, NEW retries \in SUBSET D!Key, D!Save(p, r, retries),
           r.status # "none",
           r.status = "pending" =>
              \E n \in 0..MaxAttempts : <<work[p].key[1], n>> \in retries
    PROVE  Driven'
<1> DEFINE k == work[p].key
<1>1. ASSUME NEW m \in Mail, row'[m].status = "pending"
      PROVE  \E n \in 0..MaxAttempts : <<m, n>> \in undelivered'
  <2>1. CASE m = k[1]
    <3>1. row'[m] = r
      BY <2>1, SaveEffect
    <3>2. PICK n \in 0..MaxAttempts : <<k[1], n>> \in retries
      BY <1>1, <3>1
    <3>3. <<m, n>> \in undelivered'
      BY <2>1, <3>2, SaveEffect
    <3> QED
      BY <3>3
  <2>2. CASE m # k[1]
    <3>1. PICK n \in 0..MaxAttempts : <<m, n>> \in undelivered
      BY <1>1, <2>2, SaveEffect DEF Driven, PendingIsDriven
    <3>2. <<m, n>> # k
      BY <2>2
    <3> QED
      BY <3>1, <3>2, SaveEffect
  <2> QED
    BY <2>1, <2>2
<1>2. ASSUME NEW x \in recorded', row'[x[1]].status = "none"
      PROVE  x \in undelivered'
  <2>1. x \in D!Key /\ x[1] \in Mail
    BY SaveEffect DEF D!TypeOK, D!Key
  <2>2. x[1] # k[1]
    BY <1>2, SaveEffect
  <2>3. CASE x \in retries
    BY <2>3, SaveEffect
  <2>4. CASE x \in recorded
    <3>1. x \in undelivered /\ x # k
      BY <1>2, <2>1, <2>2, <2>4, SaveEffect DEF Driven
    <3> QED
      BY <3>1, SaveEffect
  <2> QED
    BY <2>3, <2>4, SaveEffect
<1>3. ASSUME NEW q \in Proc
      PROVE  /\ D!At(q, "inserting")' => work'[q].key \in recorded'
             /\ Attempting(q)' => work'[q].row.status \in {"pending", "failed"}
             /\ D!At(q, "bounced")' => work'[q].row.status = "failed"
  <2>1. CASE q = p
    BY <2>1, SaveEffect DEF D!At, Attempting
  <2>2. CASE q # p
    BY <2>2, SaveEffect DEF D!At, Attempting, Driven
  <2> QED
    BY <2>1, <2>2
<1> QED
  BY <1>1, <1>2, <1>3 DEF Driven, PendingIsDriven

\* The invariant of the pending notifications.
THEOREM DrivenAlways ==
    ASSUME D!DispatchAssumption
    PROVE  D!Spec => []Driven
<1>1. D!Init => Driven
  BY DEF D!Init, Driven, PendingIsDriven, D!At, Attempting, D!Idle
<1>2. D!TypeOK /\ Driven /\ [D!Next]_(D!vars) => Driven'
  <2> SUFFICES ASSUME D!TypeOK, Driven, [D!Next]_(D!vars)
               PROVE  Driven'
    OBVIOUS
  <2>1. ASSUME NEW m \in Mail, D!Command(m)
        PROVE  Driven'
    BY <2>1 DEF D!Command, Driven, PendingIsDriven, D!At, Attempting
  <2>2. ASSUME NEW p \in Proc, NEW k \in D!Key, D!Deliver(p, k)
        PROVE  Driven'
    <3>1. k \in recorded /\ k[1] \in Mail
      BY <2>2 DEF D!Deliver, D!Key
    <3>2. \/ UNCHANGED undelivered
          \/ /\ undelivered' = undelivered \ {k}
             /\ row[k[1]].status \in {"sent", "dead"}
      BY <2>2 DEF D!Deliver
    <3>3. PendingIsDriven'
      <4> SUFFICES ASSUME NEW m \in Mail, row'[m].status = "pending"
                   PROVE  \E n \in 0..MaxAttempts : <<m, n>> \in undelivered'
        BY DEF PendingIsDriven
      <4>1. row'[m] = row[m]
        BY <2>2 DEF D!Deliver
      <4>2. PICK n \in 0..MaxAttempts : <<m, n>> \in undelivered
        BY <4>1 DEF Driven, PendingIsDriven
      <4>3. CASE UNCHANGED undelivered
        BY <4>2, <4>3
      <4>4. CASE undelivered' = undelivered \ {k} /\ row[k[1]].status \in {"sent", "dead"}
        <5>1. m # k[1]
          BY <4>1, <4>4
        <5> QED
          BY <4>2, <4>4, <5>1
      <4> QED
        BY <3>2, <4>3, <4>4
    <3>4. \A x \in recorded' : row'[x[1]].status = "none" => x \in undelivered'
      BY <2>2, <3>2 DEF D!Deliver, Driven
    <3>5. ASSUME NEW q \in Proc
          PROVE  /\ D!At(q, "inserting")' => work'[q].key \in recorded'
                 /\ Attempting(q)' =>
                       work'[q].row.status \in {"pending", "failed"}
                 /\ D!At(q, "bounced")' => work'[q].row.status = "failed"
      <4>1. CASE work'[q] = work[q]
        BY <2>2, <4>1 DEF D!Deliver, Driven, D!At, Attempting
      <4>2. CASE work'[q] # work[q]
        <5>1. q = p
          BY <2>2, <4>2, MailDoOthers DEF D!Deliver
        <5>2. \/ work'[q] = [pc |-> "inserting", key |-> k]
              \/ /\ work'[q] = [pc |-> "attempting", key |-> k, row |-> row[k[1]]]
                 /\ row[k[1]].status \in {"pending", "failed"}
          BY <2>2, <4>2, <5>1, MailDoOthers DEF D!Deliver
        <5> QED
          BY <2>2, <3>1, <5>2 DEF D!Deliver, D!At, Attempting
      <4> QED
        BY <4>1, <4>2
    <3> QED
      BY <3>3, <3>4, <3>5 DEF Driven
  <2>3. ASSUME NEW p \in Proc, D!Insert(p)
        PROVE  Driven'
    <3> DEFINE k == work[p].key
               r == [status |-> "pending", attempt |-> 1, known |-> FALSE]
    <3>1. k \in D!Key /\ k[1] \in Mail /\ k \in recorded
      BY <2>3, MailFields DEF D!Insert, D!Key, Driven
    <3>2. CASE row[k[1]].status # "none"
      <4>1. UNCHANGED <<row, recorded, undelivered>> /\ D!Do(p, D!Idle)
        BY <2>3, <3>2 DEF D!Insert
      <4>2. work'[p].pc = "idle" /\ \A q \in Proc : q # p => work'[q] = work[q]
        BY <4>1, MailDoOthers DEF D!Idle
      <4> QED
        BY <4>1, <4>2 DEF Driven, PendingIsDriven, D!At, Attempting
    <3>3. CASE row[k[1]].status = "none"
      <4>1. /\ row' = [row EXCEPT ![k[1]] = r]
            /\ UNCHANGED <<recorded, undelivered>>
            /\ D!Do(p, [pc |-> "attempting", key |-> k, row |-> r])
        BY <2>3, <3>3 DEF D!Insert
      <4>2. /\ work'[p] = [pc |-> "attempting", key |-> k, row |-> r]
            /\ \A q \in Proc : q # p => work'[q] = work[q]
        BY <4>1, MailDoOthers
      <4>3. k \in undelivered
        BY <3>1, <3>3 DEF Driven
      <4>4. k = <<k[1], k[2]>> /\ k[2] \in 0..MaxAttempts
        BY <3>1 DEF D!Key
      <4>5. PendingIsDriven'
        <5> SUFFICES ASSUME NEW m \in Mail, row'[m].status = "pending"
                     PROVE  \E n \in 0..MaxAttempts : <<m, n>> \in undelivered'
          BY DEF PendingIsDriven
        <5>1. CASE m = k[1]
          BY <4>1, <4>3, <4>4, <5>1
        <5>2. CASE m # k[1]
          BY <4>1, <5>2 DEF Driven, PendingIsDriven, D!TypeOK
        <5> QED
          BY <5>1, <5>2
      <4>6. \A x \in recorded' : row'[x[1]].status = "none" => x \in undelivered'
        <5> SUFFICES ASSUME NEW x \in recorded, row'[x[1]].status = "none"
                     PROVE  x \in undelivered
          BY <4>1
        <5>1. x[1] \in Mail
          BY DEF D!TypeOK, D!Key
        <5>2. x[1] # k[1]
          BY <4>1, <5>1 DEF D!TypeOK
        <5> QED
          BY <4>1, <5>1, <5>2 DEF Driven, D!TypeOK
      <4>7. ASSUME NEW q \in Proc
            PROVE  /\ D!At(q, "inserting")' => work'[q].key \in recorded'
                   /\ Attempting(q)' =>
                         work'[q].row.status \in {"pending", "failed"}
                   /\ D!At(q, "bounced")' => work'[q].row.status = "failed"
        BY <4>1, <4>2 DEF Driven, D!At, Attempting
      <4> QED
        BY <4>5, <4>6, <4>7 DEF Driven
    <3> QED
      BY <3>2, <3>3
  <2>4. ASSUME NEW p \in Proc, D!Send(p)
        PROVE  Driven'
    <3>1. work[p] \in [pc : {"attempting", "accepted", "refused"},
                       key : D!Key, row : D!Row]
      BY <2>4, MailFields DEF D!Send
    <3>2. /\ work'[p].pc \in {"accepted", "refused"}
          /\ work'[p].row = work[p].row
          /\ \A q \in Proc : q # p => work'[q] = work[q]
      BY <2>4, <3>1, MailDoOthers DEF D!Send
    <3> QED
      BY <2>4, <3>2 DEF D!Send, Driven, PendingIsDriven, D!At, Attempting
  <2>5. ASSUME NEW p \in Proc, D!SaveSent(p)
        PROVE  Driven'
    <3>1. work[p].key \in D!Key /\ work[p].row \in D!Row
      BY <2>5, MailFields DEF D!SaveSent
    <3> DEFINE r == [work[p].row EXCEPT !.status = "sent", !.known = TRUE]
    <3>2. r \in D!Row /\ r.status = "sent"
      BY <3>1 DEF D!Row
    <3>3. D!Save(p, r, {})
      BY <2>5 DEF D!SaveSent
    <3> HIDE DEF r
    <3> QED
      BY <3>1, <3>2, <3>3, SaveDriven
  <2>6. ASSUME NEW p \in Proc, D!SaveRetry(p)
        PROVE  Driven'
    <3> DEFINE next == work[p].row.attempt + 1
               r == [work[p].row EXCEPT !.attempt = next]
    <3>1. work[p].key \in D!Key /\ work[p].row \in D!Row
      BY <2>6, MailFields DEF D!SaveRetry
    <3>2. next \in 1..MaxAttempts /\ next \in 0..MaxAttempts
      BY <2>6, <3>1 DEF D!SaveRetry, D!Row
    <3>3. r \in D!Row /\ r.status = work[p].row.status
      BY <3>1, <3>2 DEF D!Row
    <3>4. {<<work[p].key[1], next>>} \in SUBSET D!Key
      BY <3>1, <3>2 DEF D!Key
    <3>5. r.status # "none"
      BY <2>6, <3>3 DEF D!SaveRetry, Driven, Attempting
    <3>6. D!Save(p, r, {<<work[p].key[1], next>>})
      BY <2>6 DEF D!SaveRetry
    <3> HIDE DEF r, next
    <3> QED
      BY <3>1, <3>2, <3>3, <3>4, <3>5, <3>6, SaveDriven
  <2>7. ASSUME NEW p \in Proc, D!SaveDead(p)
        PROVE  Driven'
    <3>1. work[p].key \in D!Key /\ work[p].row \in D!Row
      BY <2>7, MailFields DEF D!SaveDead
    <3> DEFINE r == [work[p].row EXCEPT !.status = "dead"]
    <3>2. r \in D!Row /\ r.status = "dead"
      BY <3>1 DEF D!Row
    <3>3. D!Save(p, r, {})
      BY <2>7 DEF D!SaveDead
    <3> HIDE DEF r
    <3> QED
      BY <3>1, <3>2, <3>3, SaveDriven
  <2>8. ASSUME NEW p \in Proc, NEW m \in Mail, D!BounceLoad(p, m)
        PROVE  Driven'
    <3> DEFINE r == [row[m] EXCEPT !.status = "failed"]
    <3>1. r.status = "failed"
      BY DEF D!TypeOK, D!Row
    <3>2. D!Do(p, [pc |-> "bounced", message |-> m, row |-> r])
      BY <2>8 DEF D!BounceLoad
    <3> HIDE DEF r
    <3>3. /\ work'[p].pc = "bounced" /\ work'[p].row.status = "failed"
          /\ \A q \in Proc : q # p => work'[q] = work[q]
      BY <3>1, <3>2, MailDoOthers
    <3> QED
      BY <2>8, <3>3 DEF D!BounceLoad, Driven, PendingIsDriven, D!At, Attempting
  <2>9. ASSUME NEW p \in Proc, D!BounceSave(p)
        PROVE  Driven'
    <3>1. /\ work[p].message \in Mail /\ work[p].row \in D!Row
          /\ work[p].row.status = "failed"
      BY <2>9, MailFields DEF D!BounceSave, Driven
    <3>2. /\ work'[p].pc = "idle"
          /\ \A q \in Proc : q # p => work'[q] = work[q]
      BY <2>9, MailDoOthers DEF D!BounceSave, D!Idle
    <3>3. \A m \in Mail : row'[m] = row[m] \/ row'[m].status = "failed"
      BY <2>9, <3>1 DEF D!BounceSave, D!TypeOK
    <3>4. \A x \in recorded : x[1] \in Mail
      BY DEF D!TypeOK, D!Key
    <3> QED
      BY <2>9, <3>2, <3>3, <3>4
         DEF D!BounceSave, Driven, PendingIsDriven, D!At, Attempting
  <2>10. ASSUME NEW p \in Proc, D!Crash(p)
         PROVE  Driven'
    <3>1. /\ work'[p].pc = "idle"
          /\ \A q \in Proc : q # p => work'[q] = work[q]
      BY <2>10, MailDoOthers DEF D!Crash, D!Idle
    <3> QED
      BY <2>10, <3>1 DEF D!Crash, Driven, PendingIsDriven, D!At, Attempting
  <2>11. CASE UNCHANGED D!vars
    BY <2>11 DEF D!vars, Driven, PendingIsDriven, D!At, Attempting
  <2> QED
    BY <2>1, <2>2, <2>3, <2>4, <2>5, <2>6, <2>7, <2>8, <2>9, <2>10, <2>11
       DEF D!Next, D!Proceed
<1> QED
  BY <1>1, <1>2, MailTypeCorrect, PTL DEF D!Spec

\* No handler forgets a pending notification: the message that will take it up
\* is recorded with the row, and acknowledged only when the row has settled or
\* recorded another (dispatch.service.ts, attempt() and redispatch()).
THEOREM PendingAlwaysDriven ==
    ASSUME D!DispatchAssumption
    PROVE  D!Spec => []PendingIsDriven
<1>1. Driven => PendingIsDriven
  BY DEF Driven
<1> QED
  BY <1>1, DrivenAlways, PTL

-----------------------------------------------------------------------------
\* Saving a row that is not ahead keeps the count.
LEMMA SaveCounted ==
    ASSUME D!DispatchAssumption,
           D!TypeOK, Counted, NEW p \in Proc, work[p].key \in D!Key,
           NEW r \in D!Row, NEW retries, D!Save(p, r, retries),
           r.attempt <= refused[work[p].key[1]] + 1,
           r.status = "dead" => refused[work[p].key[1]] = MaxAttempts
    PROVE  Counted'
<1> DEFINE k == work[p].key
<1>1. ASSUME NEW m \in Mail
      PROVE  /\ row'[m].attempt <= refused'[m] + 1
             /\ row'[m].status = "dead" => refused'[m] = MaxAttempts
  <2>1. CASE m = k[1]
    BY <2>1, SaveEffect
  <2>2. CASE m # k[1]
    BY <2>2, SaveEffect DEF Counted, DeadWasTried
  <2> QED
    BY <2>1, <2>2
<1>2. ASSUME NEW q \in Proc, q # p
      PROVE  work'[q] = work[q]
  BY <1>2, SaveEffect
<1> QED
  BY <1>1, <1>2, SaveEffect DEF Counted, DeadWasTried, D!At, Attempting

\* An execution that changes neither row nor refusals and carries no row that
\* is ahead.
LEMMA DoCounted ==
    ASSUME D!DispatchAssumption,
           D!TypeOK, Counted, NEW p \in Proc, UNCHANGED <<row, refused>>,
           \A q \in Proc : q # p => work'[q] = work[q],
           work'[p].pc \in {"idle", "inserting"}
    PROVE  Counted'
BY DEF Counted, DeadWasTried, D!At, Attempting

\* No notification is given up early: the stored count of attempts is never
\* ahead of the provider's refusals, although executions save rows they
\* loaded before others saved theirs (dispatch.service.ts, attempt()).
THEOREM DeadAlwaysTried ==
    ASSUME D!DispatchAssumption
    PROVE  D!Spec => []DeadWasTried
<1>1. D!Init => Counted
  BY DEF D!Init, Counted, DeadWasTried, D!At, Attempting, D!Idle
<1>2. D!TypeOK /\ Driven /\ Counted /\ [D!Next]_(D!vars) => Counted'
  <2> SUFFICES ASSUME D!TypeOK, Driven, Counted, [D!Next]_(D!vars)
               PROVE  Counted'
    OBVIOUS
  <2>1. ASSUME NEW m \in Mail, D!Command(m)
        PROVE  Counted'
    BY <2>1 DEF D!Command, Counted, DeadWasTried, D!At, Attempting
  <2>2. ASSUME NEW p \in Proc, NEW k \in D!Key, D!Deliver(p, k)
        PROVE  Counted'
    <3>1. k[1] \in Mail /\ UNCHANGED <<row, refused>>
      BY <2>2 DEF D!Deliver, D!Key
    <3>2. CASE UNCHANGED work
      BY <3>1, <3>2 DEF Counted, DeadWasTried, D!At, Attempting
    <3>3. CASE D!Do(p, [pc |-> "inserting", key |-> k])
      BY <3>1, <3>3, MailDoOthers, DoCounted
    <3>4. CASE D!Do(p, [pc |-> "attempting", key |-> k, row |-> row[k[1]]])
      <4> DEFINE r == row[k[1]]
      <4>1. r.attempt <= refused[k[1]] + 1
        BY <3>1 DEF Counted
      <4>2. /\ \A q \in Proc : q # p => work'[q] = work[q]
            /\ work'[p] = [pc |-> "attempting", key |-> k, row |-> r]
        BY <3>4, MailDoOthers
      <4> HIDE DEF r
      <4>3. /\ work'[p].pc = "attempting" /\ work'[p].key = k
            /\ work'[p].row = r
        BY <4>2
      <4> QED
        BY <3>1, <4>1, <4>2, <4>3 DEF Counted, DeadWasTried, D!At, Attempting
    <3> QED
      BY <2>2, <3>2, <3>3, <3>4 DEF D!Deliver
  <2>3. ASSUME NEW p \in Proc, D!Insert(p)
        PROVE  Counted'
    <3> DEFINE k == work[p].key
               r == [status |-> "pending", attempt |-> 1, known |-> FALSE]
    <3>1. k \in D!Key /\ k[1] \in Mail
      BY <2>3, MailFields DEF D!Insert, D!Key
    <3>2. CASE D!Do(p, D!Idle) /\ UNCHANGED row
      <4>1. work'[p].pc = "idle" /\ \A q \in Proc : q # p => work'[q] = work[q]
        BY <3>2, MailDoOthers DEF D!Idle
      <4> QED
        BY <2>3, <3>2, <4>1, DoCounted DEF D!Insert
    <3>3. CASE /\ row' = [row EXCEPT ![k[1]] = r]
               /\ D!Do(p, [pc |-> "attempting", key |-> k, row |-> r])
      <4>1. r.attempt = 1 /\ r.status = "pending"
        OBVIOUS
      <4>2. work'[p] = [pc |-> "attempting", key |-> k, row |-> r]
        BY <3>3, MailDoOthers
      <4>3. \A q \in Proc : q # p => work'[q] = work[q]
        BY <3>3, MailDoOthers
      <4>4. \A m \in Mail : row'[m] = IF m = k[1] THEN r ELSE row[m]
        BY <3>1, <3>3 DEF D!TypeOK
      <4> HIDE DEF r
      <4>5. /\ work'[p].pc = "attempting" /\ work'[p].key = k
            /\ work'[p].row = r
        BY <4>2
      <4>6. UNCHANGED refused /\ \A m \in Mail : refused[m] \in 0..MaxAttempts
        BY <2>3 DEF D!Insert, D!TypeOK
      <4>7. \A m \in Mail : row'[m].attempt <= refused'[m] + 1
        BY <4>1, <4>4, <4>6 DEF Counted
      <4>8. DeadWasTried'
        BY <4>1, <4>4, <4>6 DEF Counted, DeadWasTried
      <4>9. r.attempt <= refused[k[1]] + 1
        BY <3>1, <4>1, <4>6
      <4> QED
        BY <3>1, <4>3, <4>5, <4>6, <4>7, <4>8, <4>9 DEF Counted, D!At, Attempting
    <3> QED
      BY <2>3, <3>2, <3>3 DEF D!Insert
  <2>4. ASSUME NEW p \in Proc, D!Send(p)
        PROVE  Counted'
    <3> DEFINE m == work[p].key[1]
    <3>1. /\ m \in Mail
          /\ work[p] \in [pc : {"attempting", "accepted", "refused"},
                          key : D!Key, row : D!Row]
          /\ work[p].row.attempt \in 1..MaxAttempts
          /\ \A x \in Mail : refused[x] \in 0..MaxAttempts
      BY <2>4, MailFields DEF D!Send, D!Key, D!TypeOK, D!Row
    <3>2. work[p].row.attempt <= refused[m] + 1
      BY <2>4 DEF D!Send, Counted, Attempting
    <3>3. /\ work'[p].pc \in {"accepted", "refused"}
          /\ work'[p].row = work[p].row /\ work'[p].key = work[p].key
          /\ \A q \in Proc : q # p => work'[q] = work[q]
      BY <2>4, <3>1, MailDoOthers DEF D!Send
    <3>4. \A x \in Mail : refused'[x] >= refused[x] /\ refused'[x] \in 0..MaxAttempts
      BY <2>4, <3>1 DEF D!Send, D!TypeOK
    <3>5. D!At(p, "refused")' => work[p].row.attempt <= refused'[m]
      <4>1. SUFFICES ASSUME D!At(p, "refused")'
                     PROVE  work[p].row.attempt <= refused'[m]
        OBVIOUS
      <4>2. refused' = [refused EXCEPT ![m] = IF @ < MaxAttempts THEN @ + 1 ELSE @]
        BY <2>4, <3>1, <4>1, MailDoOthers DEF D!Send, D!At
      <4> QED
        BY <3>1, <3>2, <4>2 DEF D!TypeOK
    <3>6. \A x \in Mail : row[x].attempt \in 1..MaxAttempts
      BY DEF D!TypeOK, D!Row
    <3>7. DeadWasTried' /\ \A x \in Mail : row'[x].attempt <= refused'[x] + 1
      BY <2>4, <3>1, <3>4, <3>6 DEF D!Send, Counted, DeadWasTried
    <3>8. ASSUME NEW q \in Proc, q # p
          PROVE  /\ Attempting(q)' =>
                       work'[q].row.attempt <= refused'[work'[q].key[1]] + 1
                 /\ D!At(q, "refused")' =>
                       work'[q].row.attempt <= refused'[work'[q].key[1]]
                 /\ D!At(q, "bounced")' =>
                       /\ work'[q].row.attempt <= refused'[work'[q].message] + 1
                       /\ work'[q].row.status = "failed"
      <4>1. work'[q] = work[q]
        BY <3>3, <3>8
      <4>2. CASE Attempting(q)
        <5>1. work[q].key[1] \in Mail /\ work[q].row.attempt \in 1..MaxAttempts
          BY <4>2, MailFields DEF Attempting, D!Key, D!Row
        <5> QED
          BY <3>1, <3>4, <4>1, <4>2, <5>1 DEF Counted, D!At, Attempting
      <4>3. CASE D!At(q, "bounced")
        <5>1. work[q].message \in Mail /\ work[q].row.attempt \in 1..MaxAttempts
          BY <4>3, MailFields DEF D!Row
        <5> QED
          BY <3>1, <3>4, <4>1, <4>3, <5>1 DEF Counted, D!At, Attempting
      <4> QED
        BY <4>1, <4>2, <4>3 DEF D!At, Attempting
    <3>9. /\ Attempting(p)' =>
                work'[p].row.attempt <= refused'[work'[p].key[1]] + 1
          /\ D!At(p, "refused")' =>
                work'[p].row.attempt <= refused'[work'[p].key[1]]
          /\ ~D!At(p, "bounced")'
      BY <3>1, <3>2, <3>3, <3>4, <3>5 DEF D!At
    <3> QED
      BY <3>7, <3>8, <3>9 DEF Counted
  <2>5. ASSUME NEW p \in Proc, D!SaveSent(p)
        PROVE  Counted'
    <3> DEFINE r == [work[p].row EXCEPT !.status = "sent", !.known = TRUE]
    <3>1. work[p].key \in D!Key /\ work[p].row \in D!Row
      BY <2>5, MailFields DEF D!SaveSent
    <3>2. r \in D!Row /\ r.status = "sent" /\ r.attempt = work[p].row.attempt
      BY <3>1 DEF D!Row
    <3>3. D!Save(p, r, {}) /\ work[p].row.attempt <= refused[work[p].key[1]] + 1
      BY <2>5 DEF D!SaveSent, Counted, Attempting
    <3> HIDE DEF r
    <3> QED
      BY <3>1, <3>2, <3>3, SaveCounted
  <2>6. ASSUME NEW p \in Proc, D!SaveRetry(p)
        PROVE  Counted'
    <3> DEFINE next == work[p].row.attempt + 1
               r == [work[p].row EXCEPT !.attempt = next]
    <3>0. Attempting(p) /\ Driven
      BY <2>6 DEF D!SaveRetry, Attempting
    <3>1. work[p].key \in D!Key /\ work[p].row \in D!Row
      BY <2>6, MailFields DEF D!SaveRetry
    <3>2. next \in 1..MaxAttempts
      BY <2>6, <3>1 DEF D!SaveRetry, D!Row
    <3>3. r \in D!Row /\ r.status = work[p].row.status /\ r.attempt = next
      BY <3>1, <3>2 DEF D!Row
    <3>4. r.status # "dead"
      BY <3>0, <3>3 DEF Driven
    <3>5. D!Save(p, r, {<<work[p].key[1], next>>})
      BY <2>6 DEF D!SaveRetry
    <3>6. work[p].row.attempt <= refused[work[p].key[1]]
      BY <2>6 DEF D!SaveRetry, Counted
    <3>7. r.attempt <= refused[work[p].key[1]] + 1
      BY <3>1, <3>3, <3>6 DEF D!Row, D!Key, D!TypeOK
    <3> HIDE DEF r, next
    <3> QED
      BY <3>1, <3>3, <3>4, <3>5, <3>7, SaveCounted
  <2>7. ASSUME NEW p \in Proc, D!SaveDead(p)
        PROVE  Counted'
    <3> DEFINE r == [work[p].row EXCEPT !.status = "dead"]
    <3>1. /\ work[p].key \in D!Key /\ work[p].row \in D!Row
          /\ work[p].row.attempt \in 1..MaxAttempts
          /\ refused[work[p].key[1]] \in 0..MaxAttempts
      BY <2>7, MailFields DEF D!SaveDead, D!Row, D!Key, D!TypeOK
    <3>2. r \in D!Row /\ r.attempt = work[p].row.attempt
      BY <3>1 DEF D!Row
    <3>3. /\ D!Save(p, r, {})
          /\ work[p].row.attempt <= refused[work[p].key[1]]
          /\ work[p].row.attempt >= MaxAttempts
      BY <2>7 DEF D!SaveDead, Counted
    <3> HIDE DEF r
    <3>4. refused[work[p].key[1]] = MaxAttempts
      BY <3>1, <3>3
    <3>5. r.attempt <= refused[work[p].key[1]] + 1
      BY <3>1, <3>2, <3>3
    <3> QED
      BY <3>1, <3>2, <3>3, <3>4, <3>5, SaveCounted
  <2>8. ASSUME NEW p \in Proc, NEW m \in Mail, D!BounceLoad(p, m)
        PROVE  Counted'
    <3> DEFINE r == [row[m] EXCEPT !.status = "failed"]
    <3>1. r.status = "failed" /\ r.attempt = row[m].attempt
      BY DEF D!TypeOK, D!Row
    <3>2. D!Do(p, [pc |-> "bounced", message |-> m, row |-> r])
      BY <2>8 DEF D!BounceLoad
    <3>3. UNCHANGED <<row, refused>>
      BY <2>8 DEF D!BounceLoad
    <3> HIDE DEF r
    <3>4. /\ work'[p].pc = "bounced" /\ work'[p].row = r
          /\ work'[p].message = m
          /\ \A q \in Proc : q # p => work'[q] = work[q]
      BY <3>2, MailDoOthers
    <3> QED
      BY <3>1, <3>3, <3>4 DEF Counted, DeadWasTried, D!At, Attempting
  <2>9. ASSUME NEW p \in Proc, D!BounceSave(p)
        PROVE  Counted'
    <3>1. /\ work[p].message \in Mail
          /\ work[p].row.status = "failed"
          /\ work[p].row.attempt <= refused[work[p].message] + 1
      BY <2>9, MailFields DEF D!BounceSave, Counted
    <3>2. /\ work'[p].pc = "idle"
          /\ \A q \in Proc : q # p => work'[q] = work[q]
      BY <2>9, MailDoOthers DEF D!BounceSave, D!Idle
    <3>3. /\ \A m \in Mail : row'[m] = IF m = work[p].message THEN work[p].row
                                                                ELSE row[m]
          /\ UNCHANGED refused
      BY <2>9, <3>1 DEF D!BounceSave, D!TypeOK
    <3>4. DeadWasTried' /\ \A m \in Mail : row'[m].attempt <= refused'[m] + 1
      BY <3>1, <3>3 DEF Counted, DeadWasTried
    <3> QED
      BY <3>2, <3>3, <3>4 DEF Counted, D!At, Attempting
  <2>10. ASSUME NEW p \in Proc, D!Crash(p)
         PROVE  Counted'
    <3>1. /\ work'[p].pc = "idle"
          /\ \A q \in Proc : q # p => work'[q] = work[q]
      BY <2>10, MailDoOthers DEF D!Crash, D!Idle
    <3> QED
      BY <2>10, <3>1, DoCounted DEF D!Crash
  <2>11. CASE UNCHANGED D!vars
    BY <2>11 DEF D!vars, Counted, DeadWasTried, D!At, Attempting
  <2> QED
    BY <2>1, <2>2, <2>3, <2>4, <2>5, <2>6, <2>7, <2>8, <2>9, <2>10, <2>11
       DEF D!Next, D!Proceed
<1>3. Counted => DeadWasTried
  BY DEF Counted
<1>4. D!Spec => []Driven
  BY DrivenAlways
<1> QED
  BY <1>1, <1>2, <1>3, <1>4, MailTypeCorrect, PTL DEF D!Spec
=============================================================================
