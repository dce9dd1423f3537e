--------------------------- MODULE PaymentProofs ---------------------------
(***************************************************************************)
(* What holds of Payment for every set of webhook events, refunds and      *)
(* executions, and for any number of crashes.                              *)
(***************************************************************************)
EXTENDS Payment, Sums, TLAPS

USE PaymentAssumption

\* What an execution carries with it.
LEMMA WorkFields ==
    ASSUME TypeOK, NEW p \in Proc
    PROVE  /\ At(p, "claimed") \/ At(p, "applied") => work[p].event \in Event
           /\ At(p, "refunding") => work[p].refund \in Refund
           /\ At(p, "answered") =>
                 work[p].refund \in Refund /\ work[p].ok \in BOOLEAN
           /\ At(p, "inserted") =>
                 /\ work[p].refund \in Refund /\ work[p].ok \in BOOLEAN
                 /\ work[p].rollup \in {"partially_refunded", "refunded"}
<1>1. work[p] \in {Idle} \cup Work
  BY DEF TypeOK
<1> QED
  BY <1>1 DEF Idle, Work, At

\* A step of an execution that leaves it in a legal place.
LEMMA DoType ==
    ASSUME TypeOK, NEW p \in Proc, NEW w \in {Idle} \cup Work, Do(p, w)
    PROVE  work' \in [Proc -> {Idle} \cup Work]
BY DEF TypeOK, Do

\* Type correctness: no delivery, crash or overlap of executions takes the
\* payment, the inbox or an execution out of the states of their columns
\* (payments.service.ts, webhook-dispatch.service.ts, refunds.service.ts).
THEOREM TypeCorrect == Spec => []TypeOK
<1>1. Init => TypeOK
  BY DEF Init, TypeOK, Status
<1>2. TypeOK /\ [Next]_vars => TypeOK'
  <2> SUFFICES ASSUME TypeOK, [Next]_vars
               PROVE  TypeOK'
    OBVIOUS
  <2>0. Idle \in {Idle} \cup Work
    OBVIOUS
  <2>1. ASSUME NEW p \in Proc, CreateIntent(p)
        PROVE  TypeOK'
    <3>1. [pc |-> "creating"] \in {Idle} \cup Work
      BY DEF Work
    <3> QED
      BY <2>1, <3>1, DoType DEF CreateIntent, TypeOK
  <2>2. ASSUME NEW p \in Proc, InsertPayment(p)
        PROVE  TypeOK'
    BY <2>2, <2>0, DoType DEF InsertPayment, TypeOK, Status
  <2>3. ASSUME NEW p \in Proc, Apply(p)
        PROVE  TypeOK'
    <3>1. work[p] \in [pc : {"claimed", "applied"}, event : Event]
      BY <2>3 DEF Apply, At, TypeOK, Work, Idle
    <3>2. [work[p] EXCEPT !.pc = "applied"] \in {Idle} \cup Work
      BY <3>1 DEF Work
    <3>3. work[p].event.kind \in {"succeeded", "failed"}
      BY <3>1
    <3> QED
      BY <2>3, <3>2, <3>3, DoType DEF Apply, TypeOK, Status, Outcome
  <2>4. ASSUME NEW p \in Proc, MarkProcessed(p) \/ DispatchFails(p)
        PROVE  TypeOK'
    <3>1. work' \in [Proc -> {Idle} \cup Work]
      BY <2>4, <2>0, DoType DEF MarkProcessed, DispatchFails
    <3>2. inbox' \in [Event -> {"none", "claimed", "processed"}]
      BY <2>4 DEF MarkProcessed, DispatchFails, TypeOK
    <3>3. crashes' \in 0..MaxCrash
      BY <2>4 DEF MarkProcessed, DispatchFails, TypeOK
    <3> QED
      BY <2>4, <3>1, <3>2, <3>3 DEF MarkProcessed, DispatchFails, TypeOK
  <2>5. ASSUME NEW p \in Proc, NEW e \in Event, Receive(p, e)
        PROVE  TypeOK'
    <3>1. [pc |-> "claimed", event |-> e] \in {Idle} \cup Work
      BY DEF Work
    <3> QED
      BY <2>5, <3>1, DoType DEF Receive, TypeOK
  <2>6. ASSUME NEW p \in Proc, NEW r \in Refund, ExecuteRefund(p, r)
        PROVE  TypeOK'
    <3>1. [pc |-> "refunding", refund |-> r] \in {Idle} \cup Work
      BY DEF Work
    <3> QED
      BY <2>6, <3>1, DoType DEF ExecuteRefund, TypeOK
  <2>7. ASSUME NEW p \in Proc, ProviderRefunds(p)
        PROVE  TypeOK'
    <3>1. work[p].refund \in Refund
      BY <2>7, WorkFields DEF ProviderRefunds
    <3>2. PICK ok \in BOOLEAN :
             /\ paidOut' = [paidOut EXCEPT ![work[p].refund] =
                               IF ok THEN @ + 1 ELSE @]
             /\ Do(p, [pc |-> "answered", refund |-> work[p].refund,
                       ok |-> ok])
      BY <2>7 DEF ProviderRefunds
    <3>3. paidOut' \in [Refund -> Nat]
      BY <3>1, <3>2 DEF TypeOK
    <3>4. [pc |-> "answered", refund |-> work[p].refund, ok |-> ok]
             \in {Idle} \cup Work
      BY <3>1 DEF Work
    <3>5. work' \in [Proc -> {Idle} \cup Work]
      BY <3>2, <3>4, DoType
    <3> QED
      BY <2>7, <3>3, <3>5 DEF ProviderRefunds, TypeOK
  <2>8. ASSUME NEW p \in Proc, InsertExecution(p)
        PROVE  TypeOK'
    <3>1. work[p].refund \in Refund /\ work[p].ok \in BOOLEAN
      BY <2>8, WorkFields DEF InsertExecution
    <3>2. [pc |-> "inserted", refund |-> work[p].refund, ok |-> work[p].ok,
           rollup |-> Rollup(Succeeded \cup {work[p].refund})]
             \in {Idle} \cup Work
      BY <3>1 DEF Work, Rollup
    <3>3. work' \in [Proc -> {Idle} \cup Work]
      BY <2>8, <2>0, <3>2, DoType DEF InsertExecution
    <3> QED
      BY <2>8, <3>3 DEF InsertExecution, TypeOK
  <2>9. ASSUME NEW p \in Proc, CommitExecution(p)
        PROVE  TypeOK'
    <3>1. /\ work[p].refund \in Refund
          /\ work[p].rollup \in {"partially_refunded", "refunded"}
      BY <2>9, WorkFields DEF CommitExecution
    <3> QED
      BY <2>9, <2>0, <3>1, DoType DEF CommitExecution, TypeOK, Status
  <2>10. ASSUME NEW p \in Proc, Crash(p)
         PROVE  TypeOK'
    BY <2>10, <2>0, DoType DEF Crash, TypeOK
  <2>11. CASE CancelIntent
    BY <2>11 DEF CancelIntent, TypeOK, Status
  <2>12. ASSUME NEW e \in Event, Raise(e)
         PROVE  TypeOK'
    BY <2>12 DEF Raise, TypeOK
  <2>13. CASE UNCHANGED vars
    BY <2>13 DEF vars, TypeOK
  <2> QED
    BY <2>1, <2>2, <2>3, <2>4, <2>5, <2>6, <2>7, <2>8, <2>9, <2>10, <2>11,
       <2>12, <2>13 DEF Next, Proceed
<1> QED
  BY <1>1, <1>2, PTL DEF Spec
-----------------------------------------------------------------------------
(* The inductive invariant: what the executions rely on. *)

\* Nothing has happened to a payment that was not created, and what an
\* execution is about to record has been published.
Recorded ==
    /\ raised # {} \/ published # {} => status # "none"
    /\ status \in Settled => "succeeded" \in published
    /\ status = "failed" => "failed" \in published
    /\ \A p \in Proc : At(p, "claimed") => status # "none"
    /\ \A p \in Proc : At(p, "applied") => work[p].event.kind \in published
    /\ \A p \in Proc :
          At(p, "refunding") \/ At(p, "answered") \/ At(p, "inserted")
             => "succeeded" \in published

\* An open insert of a refund execution is the only one of its command.
InsertsExclude ==
    /\ \A p \in Proc : At(p, "inserted") => refund[work[p].refund] = "none"
    /\ \A p, q \in Proc :
          (/\ At(p, "inserted") /\ At(q, "inserted")
           /\ work[p].refund = work[q].refund) => p = q

\* The provider is asked before anything is recorded.
PaidFirst ==
    /\ \A p \in Proc : (At(p, "answered") \/ At(p, "inserted")) /\ work[p].ok
                         => paidOut[work[p].refund] > 0
    /\ \A r \in Succeeded : paidOut[r] > 0

\* A rollup that is about to say refunded will be right at its commit.
RollupsHold ==
    /\ status = "partially_refunded" => Succeeded # {}
    /\ status = "refunded" => Covered(Succeeded)
    /\ \A p \in Proc :
          At(p, "inserted") /\ work[p].ok /\ work[p].rollup = "refunded"
             => Covered(Succeeded \cup {work[p].refund})

\* A step of one execution leaves the others where they are.
LEMMA DoOthers ==
    ASSUME TypeOK, NEW p \in Proc, NEW w, Do(p, w)
    PROVE  /\ work'[p] = w
           /\ \A q \in Proc : q # p => work'[q] = work[q]
BY DEF TypeOK, Do

LEMMA RecordedStep ==
    TypeOK /\ Recorded /\ [Next]_vars => Recorded'
<1> SUFFICES ASSUME TypeOK, Recorded, [Next]_vars
             PROVE  Recorded'
  OBVIOUS
<1> USE DEF Recorded, Settled, At
<1>1. ASSUME NEW p \in Proc, CreateIntent(p) \/ InsertPayment(p) \/ Crash(p)
      PROVE  Recorded'
  <2>1. \A q \in Proc : q # p => work'[q] = work[q]
    BY <1>1, DoOthers DEF CreateIntent, InsertPayment, Crash
  <2>2. work'[p].pc \in {"creating", "idle"}
    BY <1>1, DoOthers DEF CreateIntent, InsertPayment, Crash, Idle
  <2> QED
    BY <1>1, <2>1, <2>2 DEF CreateIntent, InsertPayment, Crash
<1>2. ASSUME NEW p \in Proc, Apply(p)
      PROVE  Recorded'
  <2>1. work[p] \in [pc : {"claimed", "applied"}, event : Event]
    BY <1>2 DEF Apply, TypeOK, Work, Idle
  <2>2. /\ \A q \in Proc : q # p => work'[q] = work[q]
        /\ work'[p].pc = "applied"
        /\ work'[p].event = work[p].event
    BY <1>2, <2>1, DoOthers DEF Apply
  <2>3. work[p].event.kind \in {"succeeded", "failed"}
    BY <2>1
  <2>4. /\ published \subseteq published'
        /\ work[p].event.kind \in published'
    BY <1>2, <2>3 DEF Apply, Outcome
  <2> QED
    BY <1>2, <2>2, <2>3, <2>4 DEF Apply, Outcome
<1>3. ASSUME NEW p \in Proc, MarkProcessed(p) \/ DispatchFails(p)
      PROVE  Recorded'
  <2>1. /\ \A q \in Proc : q # p => work'[q] = work[q]
        /\ work'[p].pc = "idle"
    BY <1>3, DoOthers DEF MarkProcessed, DispatchFails, Idle
  <2> QED
    BY <1>3, <2>1 DEF MarkProcessed, DispatchFails
<1>4. ASSUME NEW p \in Proc, NEW e \in Event, Receive(p, e)
      PROVE  Recorded'
  <2>1. /\ \A q \in Proc : q # p => work'[q] = work[q]
        /\ work'[p].pc = "claimed"
    BY <1>4, DoOthers DEF Receive
  <2> QED
    BY <1>4, <2>1 DEF Receive
<1>5. ASSUME NEW p \in Proc, NEW r \in Refund, ExecuteRefund(p, r)
      PROVE  Recorded'
  <2>1. /\ \A q \in Proc : q # p => work'[q] = work[q]
        /\ work'[p].pc = "refunding"
    BY <1>5, DoOthers DEF ExecuteRefund
  <2> QED
    BY <1>5, <2>1 DEF ExecuteRefund
<1>6. ASSUME NEW p \in Proc, ProviderRefunds(p) \/ InsertExecution(p)
      PROVE  Recorded'
  <2>1. /\ \A q \in Proc : q # p => work'[q] = work[q]
        /\ work'[p].pc \in {"answered", "inserted", "idle"}
    <3>1. CASE ProviderRefunds(p)
      <4>1. PICK ok \in BOOLEAN :
               Do(p, [pc |-> "answered", refund |-> work[p].refund, ok |-> ok])
        BY <3>1 DEF ProviderRefunds
      <4> QED
        BY <4>1, DoOthers
    <3>2. CASE InsertExecution(p)
      BY <3>2, DoOthers DEF InsertExecution, Idle
    <3> QED
      BY <1>6, <3>1, <3>2
  <2> QED
    BY <1>6, <2>1 DEF ProviderRefunds, InsertExecution
<1>7. ASSUME NEW p \in Proc, CommitExecution(p)
      PROVE  Recorded'
  <2>1. /\ \A q \in Proc : q # p => work'[q] = work[q]
        /\ work'[p].pc = "idle"
    BY <1>7, DoOthers DEF CommitExecution, Idle
  <2>2. status' = status \/ status' \in {"partially_refunded", "refunded"}
    BY <1>7, WorkFields DEF CommitExecution
  <2> QED
    BY <1>7, <2>1, <2>2 DEF CommitExecution
<1>8. ASSUME NEW e \in Event, Raise(e)
      PROVE  Recorded'
  BY <1>8 DEF Raise
<1>9. CASE CancelIntent
  BY <1>9 DEF CancelIntent
<1>10. CASE UNCHANGED vars
  BY <1>10 DEF vars
<1> QED
  BY <1>1, <1>2, <1>3, <1>4, <1>5, <1>6, <1>7, <1>8, <1>9, <1>10
     DEF Next, Proceed

\* A status follows from a published event, and no execution acts on a payment
\* that does not exist or on an event that was not published
\* (webhook-dispatch.service.ts, refunds.service.ts).
THEOREM AlwaysRecorded == Spec => []Recorded
<1>1. Init => Recorded
  BY DEF Init, Recorded, Settled, At, Idle
<1> QED
  BY <1>1, RecordedStep, TypeCorrect, PTL DEF Spec

\* A webhook marked as processed has had its transition applied and its
\* event recorded, for any events, executions and crashes
\* (webhook-dispatch.service.ts, dispatch()).
THEOREM ProcessedIsApplied == Spec => []ProcessedWasApplied
<1>1. Init => ProcessedWasApplied
  BY DEF Init, ProcessedWasApplied
<1>2. /\ TypeOK /\ Recorded /\ ProcessedWasApplied
      /\ [Next]_vars
      => ProcessedWasApplied'
  <2> SUFFICES ASSUME TypeOK, Recorded, ProcessedWasApplied, [Next]_vars
               PROVE  ProcessedWasApplied'
    OBVIOUS
  <2> USE DEF ProcessedWasApplied
  <2>1. published \subseteq published'
    BY DEF Next, Proceed, CreateIntent, InsertPayment, Apply, MarkProcessed,
           ProviderRefunds, InsertExecution, CommitExecution, DispatchFails,
           Crash, Receive, ExecuteRefund, CancelIntent, Raise, vars
  <2>2. CASE UNCHANGED inbox
    BY <2>1, <2>2
  <2>3. ASSUME NEW p \in Proc, MarkProcessed(p)
        PROVE  ProcessedWasApplied'
    <3>1. work[p].event \in Event /\ work[p].event.kind \in published
      BY <2>3, WorkFields DEF MarkProcessed, Recorded
    <3> QED
      BY <2>1, <2>3, <3>1 DEF MarkProcessed, TypeOK
  <2>4. ASSUME NEW p \in Proc, DispatchFails(p)
        PROVE  ProcessedWasApplied'
    BY <2>1, <2>4 DEF DispatchFails, TypeOK
  <2>5. ASSUME NEW p \in Proc, NEW e \in Event, Receive(p, e)
        PROVE  ProcessedWasApplied'
    BY <2>1, <2>5 DEF Receive, TypeOK
  <2> QED
    BY <2>2, <2>3, <2>4, <2>5
       DEF Next, Proceed, CreateIntent, InsertPayment, Apply, ProviderRefunds,
           InsertExecution, CommitExecution, Crash, ExecuteRefund,
           CancelIntent, Raise, vars
<1> QED
  BY <1>1, <1>2, TypeCorrect, AlwaysRecorded, PTL DEF Spec

-----------------------------------------------------------------------------
\* An insert of an execution that finds no row of its command.
Inserting(p) ==
    /\ At(p, "answered")
    /\ refund[work[p].refund] = "none"
    /\ \A q \in Proc : At(q, "inserted") => work[q].refund # work[p].refund
    /\ \A q \in Proc : q # p => work'[q] = work[q]
    /\ work'[p] = [pc |-> "inserted", refund |-> work[p].refund,
                   ok |-> work[p].ok,
                   rollup |-> Rollup(Succeeded \cup {work[p].refund})]

LEMMA InsertingEffect ==
    ASSUME NEW p \in Proc, Inserting(p)
    PROVE  /\ At(p, "answered")
           /\ refund[work[p].refund] = "none"
           /\ \A q \in Proc : At(q, "inserted") => work[q].refund # work[p].refund
           /\ \A q \in Proc : q # p => work'[q] = work[q]
           /\ work'[p].refund = work[p].refund
           /\ work'[p].ok = work[p].ok
           /\ work'[p].rollup = Rollup(Succeeded \cup {work[p].refund})
<1> DEFINE s == Rollup(Succeeded \cup {work[p].refund})
<1>1. work'[p] = [pc |-> "inserted", refund |-> work[p].refund,
                  ok |-> work[p].ok, rollup |-> s]
  BY DEF Inserting
<1> HIDE DEF s
<1>2. /\ work'[p].refund = work[p].refund
      /\ work'[p].ok = work[p].ok
      /\ work'[p].rollup = s
  BY <1>1
<1> QED
  BY <1>2 DEF Inserting, s

\* What a step does to the refund executions.
LEMMA RefundStep ==
    ASSUME TypeOK, [Next]_vars
    PROVE  \/ /\ UNCHANGED refund
              /\ \A p \in Proc : At(p, "inserted")' =>
                    \/ At(p, "inserted") /\ work'[p] = work[p]
                    \/ Inserting(p)
           \/ \E p \in Proc : CommitExecution(p)
<1> USE DEF At
<1>1. ASSUME NEW p \in Proc, UNCHANGED refund,
             \A q \in Proc : q # p => work'[q] = work[q],
             work'[p].pc # "inserted"
      PROVE  \A q \in Proc : At(q, "inserted")' =>
                At(q, "inserted") /\ work'[q] = work[q]
  BY <1>1
<1>2. ASSUME NEW p \in Proc,
             \/ CreateIntent(p) \/ InsertPayment(p) \/ Crash(p)
             \/ MarkProcessed(p) \/ DispatchFails(p)
      PROVE  /\ UNCHANGED refund
             /\ \A q \in Proc : q # p => work'[q] = work[q]
             /\ work'[p].pc # "inserted"
  BY <1>2, DoOthers DEF CreateIntent, InsertPayment, Crash, MarkProcessed,
                        DispatchFails, Idle
<1>3. ASSUME NEW p \in Proc, Apply(p)
      PROVE  /\ UNCHANGED refund
             /\ \A q \in Proc : q # p => work'[q] = work[q]
             /\ work'[p].pc # "inserted"
  <2>1. work[p] \in [pc : {"claimed", "applied"}, event : Event]
    BY <1>3 DEF Apply, TypeOK, Work, Idle
  <2> QED
    BY <1>3, <2>1, DoOthers DEF Apply
<1>4. ASSUME NEW p \in Proc, NEW e \in Event, Receive(p, e)
      PROVE  /\ UNCHANGED refund
             /\ \A q \in Proc : q # p => work'[q] = work[q]
             /\ work'[p].pc # "inserted"
  BY <1>4, DoOthers DEF Receive
<1>5. ASSUME NEW p \in Proc, NEW r \in Refund, ExecuteRefund(p, r)
      PROVE  /\ UNCHANGED refund
             /\ \A q \in Proc : q # p => work'[q] = work[q]
             /\ work'[p].pc # "inserted"
  BY <1>5, DoOthers DEF ExecuteRefund
<1>6. ASSUME NEW p \in Proc, ProviderRefunds(p)
      PROVE  /\ UNCHANGED refund
             /\ \A q \in Proc : q # p => work'[q] = work[q]
             /\ work'[p].pc # "inserted"
  <2>1. PICK ok \in BOOLEAN :
           Do(p, [pc |-> "answered", refund |-> work[p].refund, ok |-> ok])
    BY <1>6 DEF ProviderRefunds
  <2> QED
    BY <1>6, <2>1, DoOthers DEF ProviderRefunds
<1>7. ASSUME NEW p \in Proc, InsertExecution(p)
      PROVE  /\ UNCHANGED refund
             /\ \A q \in Proc : At(q, "inserted")' =>
                    \/ At(q, "inserted") /\ work'[q] = work[q]
                    \/ q = p /\ Inserting(p)
  BY <1>7, DoOthers DEF InsertExecution, Inserting, Idle
<1>8. CASE CancelIntent \/ (\E e \in Event : Raise(e)) \/ UNCHANGED vars
  BY <1>8 DEF CancelIntent, Raise, vars
<1> QED
  BY <1>1, <1>2, <1>3, <1>4, <1>5, <1>6, <1>7, <1>8 DEF Next, Proceed

\* What the commit of a refund execution changes.
LEMMA CommitEffect ==
    ASSUME TypeOK, NEW p \in Proc, CommitExecution(p)
    PROVE  /\ At(p, "inserted")
           /\ work[p].refund \in Refund
           /\ refund' = [refund EXCEPT ![work[p].refund] =
                            IF work[p].ok THEN "succeeded" ELSE "failed"]
           /\ status' = IF work[p].ok THEN work[p].rollup ELSE status
           /\ work'[p].pc = "idle"
           /\ \A q \in Proc : q # p => work'[q] = work[q]
           /\ UNCHANGED <<published, paidOut>>
BY WorkFields, DoOthers DEF CommitExecution, Idle

\* Two commits of one command are impossible: the unique key makes the second
\* insert wait, and by then the row is there (refunds.service.ts, execute()).
LEMMA InsertsAlwaysExclude == Spec => []InsertsExclude
<1>1. Init => InsertsExclude
  BY DEF Init, InsertsExclude, At, Idle
<1>2. TypeOK /\ InsertsExclude /\ [Next]_vars => InsertsExclude'
  <2> SUFFICES ASSUME TypeOK, InsertsExclude, [Next]_vars
               PROVE  InsertsExclude'
    OBVIOUS
  <2>1. CASE \E p \in Proc : CommitExecution(p)
    <3>1. PICK p \in Proc : CommitExecution(p)
      BY <2>1
    <3>2. \A q \in Proc : At(q, "inserted")' =>
             At(q, "inserted") /\ work'[q] = work[q] /\ q # p
      BY <3>1, CommitEffect DEF At
    <3>3. ASSUME NEW q \in Proc, At(q, "inserted")'
          PROVE  refund'[work'[q].refund] = "none"
      <4>1. work[q].refund \in Refund /\ work[q].refund # work[p].refund
        BY <3>1, <3>2, <3>3, CommitEffect, WorkFields DEF InsertsExclude
      <4> QED
        BY <3>1, <3>2, <3>3, <4>1, CommitEffect DEF InsertsExclude, TypeOK
    <3>4. ASSUME NEW q \in Proc, NEW x \in Proc,
                 At(q, "inserted")', At(x, "inserted")',
                 work'[q].refund = work'[x].refund
          PROVE  q = x
      BY <3>2, <3>4 DEF InsertsExclude
    <3> QED
      BY <3>3, <3>4 DEF InsertsExclude, At
  <2>2. CASE ~ \E p \in Proc : CommitExecution(p)
    <3>1. UNCHANGED refund
      BY <2>2, RefundStep
    <3>2. ASSUME NEW q \in Proc, At(q, "inserted")'
          PROVE  (At(q, "inserted") /\ work'[q] = work[q]) \/ Inserting(q)
      BY <2>2, <3>2, RefundStep
    <3>3. ASSUME NEW q \in Proc, At(q, "inserted")'
          PROVE  refund'[work'[q].refund] = "none"
      BY <3>1, <3>2, <3>3, InsertingEffect DEF InsertsExclude
    <3>4. ASSUME NEW q \in Proc, NEW x \in Proc,
                 At(q, "inserted")', At(x, "inserted")',
                 work'[q].refund = work'[x].refund
          PROVE  q = x
      <4>1. CASE Inserting(q) /\ Inserting(x)
        BY <3>4, <4>1, InsertingEffect DEF At
      <4>2. CASE Inserting(q) /\ At(x, "inserted") /\ work'[x] = work[x]
        BY <3>4, <4>2, InsertingEffect
      <4>3. CASE At(q, "inserted") /\ work'[q] = work[q] /\ Inserting(x)
        BY <3>4, <4>3, InsertingEffect
      <4>4. CASE /\ At(q, "inserted") /\ work'[q] = work[q]
                 /\ At(x, "inserted") /\ work'[x] = work[x]
        BY <3>4, <4>4 DEF InsertsExclude
      <4> QED
        BY <3>2, <3>4, <4>1, <4>2, <4>3, <4>4
    <3> QED
      BY <3>3, <3>4 DEF InsertsExclude, At
  <2> QED
    BY <2>1, <2>2
<1> QED
  BY <1>1, <1>2, TypeCorrect, PTL DEF Spec

\* Money first, rows second: what counts as paid out was paid out.
THEOREM AlwaysPaidFirst == Spec => []PaidFirst
<1>1. Init => PaidFirst
  BY DEF Init, PaidFirst, Succeeded, At, Idle
<1>2. TypeOK /\ PaidFirst /\ [Next]_vars => PaidFirst'
  <2> SUFFICES ASSUME TypeOK, PaidFirst, [Next]_vars
               PROVE  PaidFirst'
    OBVIOUS
  <2> DEFINE Waits(p) == At(p, "answered") \/ At(p, "inserted")
  <2>1. ASSUME NEW p \in Proc, UNCHANGED <<refund, paidOut>>,
               \A q \in Proc : q # p => work'[q] = work[q],
               work'[p].pc \notin {"answered", "inserted"}
        PROVE  PaidFirst'
    BY <2>1 DEF PaidFirst, Succeeded, At
  <2>2. ASSUME NEW p \in Proc,
               \/ CreateIntent(p) \/ InsertPayment(p) \/ Crash(p)
               \/ MarkProcessed(p) \/ DispatchFails(p)
        PROVE  PaidFirst'
    <3>1. /\ UNCHANGED <<refund, paidOut>>
          /\ \A q \in Proc : q # p => work'[q] = work[q]
          /\ work'[p].pc \notin {"answered", "inserted"}
      BY <2>2, DoOthers DEF CreateIntent, InsertPayment, Crash, MarkProcessed,
                            DispatchFails, Idle
    <3> QED
      BY <2>1, <3>1
  <2>3. ASSUME NEW p \in Proc, Apply(p)
        PROVE  PaidFirst'
    <3>1. work[p] \in [pc : {"claimed", "applied"}, event : Event]
      BY <2>3 DEF Apply, At, TypeOK, Work, Idle
    <3>2. /\ UNCHANGED <<refund, paidOut>>
          /\ \A q \in Proc : q # p => work'[q] = work[q]
          /\ work'[p].pc \notin {"answered", "inserted"}
      BY <2>3, <3>1, DoOthers DEF Apply
    <3> QED
      BY <2>1, <3>2
  <2>4. ASSUME NEW p \in Proc, NEW e \in Event, Receive(p, e)
        PROVE  PaidFirst'
    <3>1. /\ UNCHANGED <<refund, paidOut>>
          /\ \A q \in Proc : q # p => work'[q] = work[q]
          /\ work'[p].pc \notin {"answered", "inserted"}
      BY <2>4, DoOthers DEF Receive
    <3> QED
      BY <2>1, <3>1
  <2>5. ASSUME NEW p \in Proc, NEW r \in Refund, ExecuteRefund(p, r)
        PROVE  PaidFirst'
    <3>1. /\ UNCHANGED <<refund, paidOut>>
          /\ \A q \in Proc : q # p => work'[q] = work[q]
          /\ work'[p].pc \notin {"answered", "inserted"}
      BY <2>5, DoOthers DEF ExecuteRefund
    <3> QED
      BY <2>1, <3>1
  <2>6. ASSUME NEW p \in Proc, ProviderRefunds(p)
        PROVE  PaidFirst'
    <3>1. work[p].refund \in Refund
      BY <2>6, WorkFields DEF ProviderRefunds
    <3>2. PICK ok \in BOOLEAN :
             /\ paidOut' = [paidOut EXCEPT ![work[p].refund] =
                               IF ok THEN @ + 1 ELSE @]
             /\ Do(p, [pc |-> "answered", refund |-> work[p].refund,
                       ok |-> ok])
      BY <2>6 DEF ProviderRefunds
    <3>3. /\ \A q \in Proc : q # p => work'[q] = work[q]
          /\ work'[p] = [pc |-> "answered", refund |-> work[p].refund, ok |-> ok]
      BY <3>2, DoOthers
    <3>4. \A r \in Refund : paidOut[r] > 0 => paidOut'[r] > 0
      BY <3>1, <3>2 DEF TypeOK
    <3>5. ok => paidOut'[work[p].refund] > 0
      BY <3>1, <3>2 DEF TypeOK
    <3>6. ASSUME NEW q \in Proc, Waits(q)', work'[q].ok
          PROVE  paidOut'[work'[q].refund] > 0
      <4>1. CASE q = p
        BY <3>3, <3>5, <3>6, <4>1
      <4>2. CASE q # p
        <5>1. work'[q] = work[q] /\ Waits(q)
          BY <3>3, <3>6, <4>2 DEF At
        <5>2. work[q].refund \in Refund /\ paidOut[work[q].refund] > 0
          BY <3>6, <5>1, WorkFields DEF PaidFirst
        <5> QED
          BY <3>4, <5>1, <5>2
      <4> QED
        BY <4>1, <4>2
    <3>7. Succeeded' = Succeeded
      BY <2>6 DEF ProviderRefunds, Succeeded
    <3>8. \A r \in Succeeded' : paidOut'[r] > 0
      BY <3>4, <3>7 DEF PaidFirst, Succeeded
    <3> QED
      BY <3>6, <3>8 DEF PaidFirst, At
  <2>7. ASSUME NEW p \in Proc, InsertExecution(p)
        PROVE  PaidFirst'
    <3>1. /\ UNCHANGED <<refund, paidOut>>
          /\ \A q \in Proc : q # p => work'[q] = work[q]
          /\ At(p, "answered")
      BY <2>7, DoOthers DEF InsertExecution
    <3>2. CASE work'[p].pc = "idle"
      BY <2>1, <3>1, <3>2
    <3>3. CASE work'[p].refund = work[p].refund /\ work'[p].ok = work[p].ok
      BY <3>1, <3>3 DEF PaidFirst, Succeeded, At
    <3>4. \/ work'[p].pc = "idle"
          \/ work'[p].refund = work[p].refund /\ work'[p].ok = work[p].ok
      BY <2>7, DoOthers DEF InsertExecution, Idle
    <3> QED
      BY <3>2, <3>3, <3>4
  <2>8. ASSUME NEW p \in Proc, CommitExecution(p)
        PROVE  PaidFirst'
    <3>1. \A q \in Proc : Waits(q)' => Waits(q) /\ work'[q] = work[q]
      BY <2>8, CommitEffect DEF At
    <3>2. \A r \in Succeeded' :
             r \in Succeeded \/ (r = work[p].refund /\ work[p].ok)
      BY <2>8, CommitEffect DEF Succeeded, TypeOK
    <3>3. \A r \in Succeeded' : paidOut[r] > 0
      BY <2>8, <3>2, CommitEffect DEF PaidFirst
    <3> QED
      BY <2>8, <3>1, <3>3, CommitEffect DEF PaidFirst
  <2>9. CASE CancelIntent \/ (\E e \in Event : Raise(e)) \/ UNCHANGED vars
    BY <2>9 DEF CancelIntent, Raise, vars, PaidFirst, Succeeded, At
  <2> QED
    BY <2>2, <2>3, <2>4, <2>5, <2>6, <2>7, <2>8, <2>9 DEF Next, Proceed
<1> QED
  BY <1>1, <1>2, TypeCorrect, PTL DEF Spec

\* More refunds cover no less.
LEMMA MoreCoverNoLess ==
    \A S, T \in SUBSET Refund : S \subseteq T /\ Covered(S) => Covered(T)
<1> DEFINE amount == [r \in Refund |-> r.amount]
<1> SUFFICES ASSUME NEW S \in SUBSET Refund, NEW T \in SUBSET Refund,
                    S \subseteq T, Covered(S)
             PROVE  Covered(T)
  OBVIOUS
<1>1. IsFiniteSet(T) /\ \A r \in T : amount[r] \in Nat
  BY FS_Subset
<1>2. SumFunctionOnSet(amount, S) >= Total
  BY DEF Covered
<1> HIDE DEF amount
<1>3. /\ SumFunctionOnSet(amount, S) \in Nat
      /\ SumFunctionOnSet(amount, T) \in Nat
      /\ SumFunctionOnSet(amount, S) <= SumFunctionOnSet(amount, T)
  BY <1>1, SumOfPart
<1>4. SumFunctionOnSet(amount, T) >= Total
  BY <1>2, <1>3
<1> QED
  BY <1>4 DEF Covered, amount

\* A payment shows as refunded only if refunds the provider paid out cover
\* it, and as partially refunded only if it paid out one, although two
\* executions may sum up at once (refunds.service.ts, rollupPaymentStatus).
THEOREM RefundedIsReal == Spec => []RefundsAreReal
<1>1. Init => RollupsHold
  BY DEF Init, RollupsHold, At, Idle
<1>2. TypeOK /\ InsertsExclude /\ RollupsHold /\ [Next]_vars => RollupsHold'
  <2> SUFFICES ASSUME TypeOK, InsertsExclude, RollupsHold, [Next]_vars
               PROVE  RollupsHold'
    OBVIOUS
  <2> HIDE DEF InsertsExclude
  <2>0. Succeeded \in SUBSET Refund /\ Succeeded' \in SUBSET Refund
    BY DEF Succeeded
  <2>1. CASE \E p \in Proc : CommitExecution(p)
    <3>1. PICK p \in Proc : CommitExecution(p)
      BY <2>1
    <3> DEFINE r == work[p].refund
    <3>2. Succeeded \subseteq Succeeded'
      BY <3>1, CommitEffect DEF Succeeded, TypeOK, InsertsExclude
    <3>3. work[p].ok => Succeeded' = Succeeded \cup {r}
      BY <3>1, CommitEffect DEF Succeeded, TypeOK, InsertsExclude
    <3>4. ASSUME status' = "refunded" PROVE Covered(Succeeded')
      <4>1. CASE work[p].ok
        <5>1. Covered(Succeeded \cup {r})
          BY <3>1, <3>4, <4>1, CommitEffect DEF RollupsHold
        <5> QED
          BY <3>3, <4>1, <5>1
      <4>2. CASE ~work[p].ok
        <5>1. Covered(Succeeded)
          BY <3>1, <3>4, <4>2, CommitEffect DEF RollupsHold
        <5> QED
          BY <2>0, <3>2, <5>1, MoreCoverNoLess
      <4> QED
        BY <4>1, <4>2
    <3>5. ASSUME NEW q \in Proc, At(q, "inserted")', work'[q].ok,
                 work'[q].rollup = "refunded"
          PROVE  Covered(Succeeded' \cup {work'[q].refund})
      <4>1. At(q, "inserted") /\ work'[q] = work[q]
        BY <3>1, <3>5, CommitEffect DEF At
      <4>2. work[q].refund \in Refund
        BY <4>1, WorkFields
      <4>3. Covered(Succeeded \cup {work[q].refund})
        BY <3>5, <4>1 DEF RollupsHold
      <4>4. /\ Succeeded \cup {work[q].refund} \in SUBSET Refund
            /\ Succeeded' \cup {work[q].refund} \in SUBSET Refund
            /\ Succeeded \cup {work[q].refund}
                  \subseteq Succeeded' \cup {work[q].refund}
        BY <2>0, <3>2, <4>2
      <4>5. Covered(Succeeded' \cup {work[q].refund})
        BY <4>3, <4>4, MoreCoverNoLess
      <4> QED
        BY <4>1, <4>5
    <3>6. status' = "partially_refunded" => Succeeded' # {}
      BY <3>1, <3>2, <3>3, CommitEffect DEF RollupsHold
    <3> QED
      BY <3>4, <3>5, <3>6 DEF RollupsHold
  <2>2. CASE ~ \E p \in Proc : CommitExecution(p)
    <3>1. /\ UNCHANGED refund
          /\ \A p \in Proc : At(p, "inserted")' =>
                \/ At(p, "inserted") /\ work'[p] = work[p]
                \/ Inserting(p)
      BY <2>2, RefundStep
    <3>2. Succeeded' = Succeeded
      BY <3>1 DEF Succeeded
    <3>3. status' \in {"partially_refunded", "refunded"} => status' = status
      BY <2>2 DEF Next, Proceed, CreateIntent, InsertPayment, Apply, Outcome,
             MarkProcessed, ProviderRefunds, InsertExecution, DispatchFails,
             Crash, Receive, ExecuteRefund, CancelIntent, Raise, vars
    <3>4. ASSUME NEW q \in Proc, At(q, "inserted")', work'[q].ok,
                 work'[q].rollup = "refunded"
          PROVE  Covered(Succeeded \cup {work'[q].refund})
      <4>1. CASE At(q, "inserted") /\ work'[q] = work[q]
        BY <3>4, <4>1 DEF RollupsHold
      <4>2. CASE Inserting(q)
        <5>1. /\ work'[q].refund = work[q].refund
              /\ work'[q].rollup = Rollup(Succeeded \cup {work[q].refund})
          BY <4>2, InsertingEffect
        <5> QED
          BY <3>4, <5>1 DEF Rollup
      <4> QED
        BY <3>1, <3>4, <4>1, <4>2
    <3> QED
      BY <3>2, <3>3, <3>4 DEF RollupsHold
  <2> QED
    BY <2>1, <2>2
<1>3. PaidFirst /\ RollupsHold => RefundsAreReal
  BY DEF PaidFirst, RollupsHold, RefundsAreReal
<1> QED
  BY <1>1, <1>2, <1>3, TypeCorrect, InsertsAlwaysExclude, AlwaysPaidFirst, PTL
     DEF Spec

-----------------------------------------------------------------------------
\* payment-service keeps the promise checkout was modelled on: whatever the
\* deliveries, refunds and crashes, the row goes through PaymentLifecycle,
\* and every refund command through RefundLifecycle.
THEOREM LifecycleImplemented == Spec => ImplementsLifecycle
<1> DEFINE Seen   == IF status \in Settled THEN "paid" ELSE status
           Ordered == IF "succeeded" \in published THEN Refund ELSE {}
<1>1. Init => Lifecycle!Init /\ Commands!Init
  BY DEF Init, Lifecycle!Init, Commands!Init, Settled
<1>2. TypeOK /\ Recorded /\ [Next]_vars
         => [Lifecycle!Next]_<<Seen, published>>
  <2> SUFFICES ASSUME TypeOK, Recorded, [Next]_vars
               PROVE  Lifecycle!Next \/ UNCHANGED <<Seen, published>>
    OBVIOUS
  <2> USE DEF Lifecycle!Next
  <2>1. CASE UNCHANGED <<status, published>>
    BY <2>1
  <2>2. ASSUME NEW p \in Proc, InsertPayment(p)
        PROVE  Lifecycle!Next \/ UNCHANGED <<Seen, published>>
    BY <2>2 DEF InsertPayment, Lifecycle!Create, Settled
  <2>3. ASSUME NEW p \in Proc, Apply(p)
        PROVE  Lifecycle!Next \/ UNCHANGED <<Seen, published>>
    <3>1. status # "none"
      BY <2>3 DEF Apply, Recorded
    <3>2. work[p].event.kind \in {"succeeded", "failed"}
      BY <2>3, WorkFields DEF Apply
    <3>3. CASE work[p].event.kind = "succeeded"
      <4>1. CASE status \in Settled
        BY <2>3, <3>3, <4>1 DEF Apply, Outcome, Recorded, Settled
      <4>2. CASE status \notin Settled
        BY <2>3, <3>1, <3>3, <4>2
           DEF Apply, Outcome, Lifecycle!Succeed, Settled
      <4> QED
        BY <4>1, <4>2
    <3>4. CASE work[p].event.kind = "failed"
      BY <2>3, <3>1, <3>4 DEF Apply, Outcome, Lifecycle!Fail, Settled
    <3> QED
      BY <3>2, <3>3, <3>4
  <2>4. ASSUME NEW p \in Proc, CommitExecution(p)
        PROVE  Lifecycle!Next \/ UNCHANGED <<Seen, published>>
    <3>1. /\ "succeeded" \in published /\ status # "none"
          /\ UNCHANGED published
          /\ status' = status \/ status' \in Settled
      BY <2>4, CommitEffect, WorkFields DEF Recorded, Settled
    <3>2. CASE status' = status
      BY <3>1, <3>2
    <3>3. CASE status' \in Settled /\ status \in Settled
      BY <3>1, <3>3
    <3>4. CASE status' \in Settled /\ status \notin Settled
      BY <3>1, <3>4 DEF Lifecycle!Succeed, Settled
    <3> QED
      BY <3>1, <3>2, <3>3, <3>4
  <2>5. CASE CancelIntent
    BY <2>5 DEF CancelIntent, Lifecycle!Cancel, Settled
  <2> QED
    BY <2>1, <2>2, <2>3, <2>4, <2>5
       DEF Next, Proceed, CreateIntent, MarkProcessed, ProviderRefunds,
           InsertExecution, DispatchFails, Crash, Receive, ExecuteRefund,
           Raise, vars
<1>3. TypeOK /\ Recorded /\ InsertsExclude /\ [Next]_vars
         => [Commands!Next]_<<Ordered, refund>>
  <2> SUFFICES ASSUME TypeOK, Recorded, InsertsExclude, [Next]_vars
               PROVE  Commands!Next \/ UNCHANGED <<Ordered, refund>>
    OBVIOUS
  <2>1. published \subseteq published'
    BY DEF Next, Proceed, CreateIntent, InsertPayment, Apply, MarkProcessed,
           ProviderRefunds, InsertExecution, CommitExecution, DispatchFails,
           Crash, Receive, ExecuteRefund, CancelIntent, Raise, vars
  <2>2. CASE \E p \in Proc : CommitExecution(p)
    <3>1. PICK p \in Proc : CommitExecution(p)
      BY <2>2
    <3>2. /\ work[p].refund \in Ordered
          /\ refund[work[p].refund] = "none"
          /\ UNCHANGED Ordered
      BY <3>1, CommitEffect DEF Recorded, InsertsExclude
    <3>3. \E outcome \in {"succeeded", "failed"} :
             refund' = [refund EXCEPT ![work[p].refund] = outcome]
      BY <3>1, CommitEffect
    <3> QED
      BY <3>1, <3>2, <3>3, CommitEffect DEF Commands!Next, Commands!Settle
  <2>3. CASE ~ \E p \in Proc : CommitExecution(p)
    <3>1. UNCHANGED refund
      BY <2>3, RefundStep
    <3> QED
      BY <2>1, <3>1 DEF Commands!Next, Commands!Command
  <2> QED
    BY <2>2, <2>3
<1> QED
  BY <1>1, <1>2, <1>3, TypeCorrect, AlwaysRecorded, InsertsAlwaysExclude, PTL
     DEF Spec, ImplementsLifecycle, Lifecycle!Spec, Commands!Spec
=============================================================================
