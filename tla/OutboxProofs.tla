---------------------------- MODULE OutboxProofs ----------------------------
(***************************************************************************)
(* What holds of Outbox for every set of rows, relays, aggregates and      *)
(* refused rows, every batch size, and any number of crashes and failures. *)
(***************************************************************************)
EXTENDS Outbox, FiniteSetTheorems, SequenceTheorems, TLAPS

USE OutboxAssumption

\* What a tick can load: a sequence of pending rows.
Batches == {b \in [1..Taken -> Pending] : IsInjective(b) /\ OldestFirst(b)}

LEMMA BatchType ==
    ASSUME NEW b \in Batches
    PROVE  b \in Seq(Row) /\ \A i \in DOMAIN b : b[i] \in Pending
<1>1. Pending \in SUBSET Row /\ IsFiniteSet(Pending)
  BY FS_Subset DEF Pending
<1>2. Taken \in Nat
  BY <1>1, FS_CardinalityType DEF Taken
<1> DEFINE n == Taken
<1>3. b \in [1..n -> Pending]
  BY DEF Batches
<1>4. n \in Nat
  BY <1>2
<1> HIDE DEF n
<1>5. b \in [1..n -> Row]
  BY <1>1, <1>3
<1>6. b \in Seq(Row)
  BY <1>4, <1>5
<1> QED
  BY <1>3, <1>6

LEMMA TailType ==
    ASSUME NEW b \in Seq(Row), b # <<>>
    PROVE  /\ Head(b) \in Row /\ Head(b) = b[1] /\ 1 \in DOMAIN b
           /\ Tail(b) \in Seq(Row)
           /\ \A i \in DOMAIN Tail(b) : i+1 \in DOMAIN b /\ Tail(b)[i] = b[i+1]
           /\ DOMAIN b = 1..Len(b) /\ DOMAIN Tail(b) = 1..Len(Tail(b))
           /\ Len(b) \in Nat /\ Len(Tail(b)) = Len(b) - 1
BY HeadTailProperties, LenProperties

\* Type correctness: whatever crashes or fails, a relay publishes no row that
\* is refused, and remembers a publish only while its row is still to mark
\* (outbox-relay.service.ts, publishRow()).
THEOREM TypeCorrect == Spec => []TypeOK
<1>1. Init => TypeOK
  BY DEF Init, TypeOK
<1>2. TypeOK /\ [Next]_vars => TypeOK'
  <2> SUFFICES ASSUME TypeOK, [Next]_vars
               PROVE  TypeOK'
    OBVIOUS
  <2>1. ASSUME NEW t \in Transaction, Record(t)
        PROVE  TypeOK'
    <3>1. t \subseteq Row
      OBVIOUS
    <3>2. before' \in [Row -> SUBSET Row]
      BY <2>1, <3>1 DEF Record, Recorded, TypeOK
    <3> QED
      BY <2>1, <3>2 DEF Record, TypeOK
  <2>2. ASSUME NEW k \in Relay, Tick(k)
        PROVE  TypeOK'
    <3>1. PICK b \in Batches : batch' = [batch EXCEPT ![k] = b]
      BY <2>2 DEF Tick, Batches
    <3>2. b \in Seq(Row)
      BY BatchType
    <3>3. batch' \in [Relay -> Seq(Row)]
      BY <3>1, <3>2 DEF TypeOK
    <3>4. \A j \in Relay : sent[j] => batch'[j] # <<>>
      BY <2>2, <3>1 DEF Tick, TypeOK
    <3> QED
      BY <2>2, <3>3, <3>4 DEF Tick, TypeOK
  <2>3. ASSUME NEW k \in Relay, Publish(k)
        PROVE  TypeOK'
    <3>1. Head(batch[k]) \in Row \ Poison
      BY <2>3, TailType DEF Publish, TypeOK
    <3>2. topic' \in Seq(Row \ Poison)
      BY <2>3, <3>1, AppendProperties DEF Publish, TypeOK
    <3> QED
      BY <2>3, <3>2 DEF Publish, TypeOK
  <2>4. ASSUME NEW k \in Relay, MarkProcessed(k) \/ PublishFails(k)
        PROVE  TypeOK'
    <3>1. batch[k] # <<>> /\ batch[k] \in Seq(Row)
      BY <2>4 DEF MarkProcessed, PublishFails, TypeOK
    <3>2. Head(batch[k]) \in Row /\ Tail(batch[k]) \in Seq(Row)
      BY <3>1, TailType
    <3>3. batch' = [batch EXCEPT ![k] = Tail(batch[k])]
      BY <2>4 DEF MarkProcessed, PublishFails
    <3>4. batch' \in [Relay -> Seq(Row)]
      BY <3>2, <3>3 DEF TypeOK
    <3>5. row' \in [Row -> {"none", "pending", "processed"}]
      BY <2>4, <3>2 DEF MarkProcessed, PublishFails, TypeOK
    <3>6. /\ sent' \in [Relay -> BOOLEAN]
          /\ \A j \in Relay : sent'[j] => batch'[j] # <<>>
      <4>1. sent' \in [Relay -> BOOLEAN] /\ ~sent'[k]
        <5>1. CASE MarkProcessed(k)
          BY <5>1 DEF MarkProcessed, TypeOK
        <5>2. CASE PublishFails(k)
          BY <5>2 DEF PublishFails, TypeOK
        <5> QED
          BY <2>4, <5>1, <5>2
      <4>2. ASSUME NEW j \in Relay, j # k
            PROVE  sent'[j] = sent[j] /\ batch'[j] = batch[j]
        BY <2>4, <4>2 DEF MarkProcessed, PublishFails, TypeOK
      <4> QED
        BY <4>1, <4>2 DEF TypeOK
    <3>7. fails' \in 0..MaxFail
      BY <2>4 DEF MarkProcessed, PublishFails, TypeOK
    <3> QED
      BY <2>4, <3>4, <3>5, <3>6, <3>7 DEF MarkProcessed, PublishFails, TypeOK
  <2>5. ASSUME NEW k \in Relay, Crash(k)
        PROVE  TypeOK'
    BY <2>5 DEF Crash, TypeOK
  <2>6. CASE UNCHANGED vars
    BY <2>6 DEF vars, TypeOK
  <2> QED
    BY <2>1, <2>2, <2>3, <2>4, <2>5, <2>6 DEF Next, Work
<1> QED
  BY <1>1, <1>2, PTL DEF Spec

-----------------------------------------------------------------------------
(* The inductive invariant. *)

\* What was recorded before a row has been recorded.
EarlierRecorded == \A r \in Row : before[r] \subseteq Recorded

\* A relay holds and has published recorded rows only, and a row it is about to
\* mark has been published.
BatchRecorded ==
    /\ \A k \in Relay : \A i \in DOMAIN batch[k] : row[batch[k][i]] # "none"
    /\ \A k \in Relay : sent[k] => Head(batch[k]) \in Published
    /\ Published \subseteq Recorded
    /\ ProcessedWasPublished

\* As long as no publish has failed, what was recorded before a batched row,
\* and has an older created_at, is published or comes before it in the batch.
BatchInOrder ==
    fails = 0 =>
        \A k \in Relay : \A i \in DOMAIN batch[k] :
            \A r \in before[batch[k][i]] \ Poison :
                CreatedAt[r] < CreatedAt[batch[k][i]]
                    => r \in Published \/ \E j \in 1..(i - 1) : batch[k][j] = r

\* What a step does to a batch: it is drawn up, loses its head or is dropped.
LEMMA BatchStep ==
    ASSUME TypeOK, NEW k \in Relay, [Next]_vars
    PROVE  \/ UNCHANGED batch[k]
           \/ Tick(k) /\ \E b \in Batches : batch'[k] = b
           \/ /\ MarkProcessed(k) \/ PublishFails(k)
              /\ batch[k] # <<>> /\ batch'[k] = Tail(batch[k])
           \/ batch'[k] = <<>>
<1>1. ASSUME NEW j \in Relay, j # k, Work(j) \/ Crash(j)
      PROVE  batch'[k] = batch[k]
  BY <1>1 DEF Work, Crash, Tick, Publish, MarkProcessed, PublishFails, TypeOK
<1>2. CASE Tick(k)
  BY <1>2 DEF Tick, Batches, TypeOK
<1>3. CASE MarkProcessed(k) \/ PublishFails(k)
  BY <1>3 DEF MarkProcessed, PublishFails, TypeOK
<1>4. CASE Publish(k) \/ Crash(k)
  BY <1>4 DEF Publish, Crash, TypeOK
<1>5. CASE (\E t \in Transaction : Record(t)) \/ UNCHANGED vars
  BY <1>5 DEF Record, vars
<1> QED
  BY <1>1, <1>2, <1>3, <1>4, <1>5 DEF Next, Work

\* Once recorded, a row stays recorded, after the same rows; once published, it
\* stays published.
LEMMA Monotone ==
    ASSUME TypeOK, [Next]_vars
    PROVE  /\ \A r \in Row : row[r] # "none" =>
                 row'[r] # "none" /\ before'[r] = before[r]
           /\ Recorded \subseteq Recorded'
           /\ Published \subseteq Published'
<1>1. ASSUME NEW k \in Relay, Publish(k)
      PROVE  Published \subseteq Published' /\ Head(batch[k]) \in Published'
  <2>1. Head(batch[k]) \in Row \ Poison
    BY <1>1, TailType DEF Publish, TypeOK
  <2>2. /\ Len(topic') = Len(topic) + 1
        /\ \A i \in 1..Len(topic) : topic'[i] = topic[i]
        /\ topic'[Len(topic) + 1] = Head(batch[k])
        /\ DOMAIN topic' = 1..Len(topic') /\ DOMAIN topic = 1..Len(topic)
        /\ Len(topic) \in Nat
    BY <1>1, <2>1, AppendProperties, LenProperties DEF Publish, TypeOK
  <2> QED
    BY <2>2 DEF Published, ToSet
<1>2. (~ \E k \in Relay : Publish(k)) => UNCHANGED topic
  BY DEF Next, Work, Record, Tick, MarkProcessed, PublishFails, Crash, vars
<1>3. UNCHANGED topic => Published' = Published
  BY DEF Published
<1>4. \A r \in Row : row[r] # "none" =>
          row'[r] # "none" /\ before'[r] = before[r]
  BY DEF Next, Work, Record, Tick, Publish, MarkProcessed, PublishFails, Crash,
         vars, TypeOK
<1> QED
  BY <1>1, <1>2, <1>3, <1>4 DEF Recorded

LEMMA PublishEffect ==
    ASSUME TypeOK, NEW k \in Relay, Publish(k)
    PROVE  /\ Head(batch[k]) \in Row \ Poison
           /\ Published' = Published \cup {Head(batch[k])}
           /\ Len(topic) \in Nat /\ Len(topic') = Len(topic) + 1
           /\ DOMAIN topic = 1..Len(topic)
           /\ DOMAIN topic' = 1..(Len(topic) + 1)
           /\ \A i \in 1..Len(topic) : topic'[i] = topic[i]
           /\ topic'[Len(topic) + 1] = Head(batch[k])
<1>1. Head(batch[k]) \in Row \ Poison
  BY TailType DEF Publish, TypeOK
<1>2. /\ Len(topic') = Len(topic) + 1
      /\ \A i \in 1..Len(topic) : topic'[i] = topic[i]
      /\ topic'[Len(topic) + 1] = Head(batch[k])
      /\ DOMAIN topic' = 1..Len(topic') /\ DOMAIN topic = 1..Len(topic)
      /\ Len(topic) \in Nat
  BY <1>1, AppendProperties, LenProperties DEF Publish, TypeOK
<1> QED
  BY <1>1, <1>2 DEF Published, ToSet

LEMMA BatchRecordedStep ==
    TypeOK /\ BatchRecorded /\ [Next]_vars => BatchRecorded'
<1> SUFFICES ASSUME TypeOK, BatchRecorded, [Next]_vars
             PROVE  BatchRecorded'
  OBVIOUS
<1>1. ASSUME NEW k \in Relay, NEW i \in DOMAIN batch'[k]
      PROVE  row'[batch'[k][i]] # "none"
  <2>1. CASE UNCHANGED batch[k]
    <3>1. batch[k][i] \in Row /\ row[batch[k][i]] # "none"
      BY <2>1, TypeOK DEF BatchRecorded, TypeOK
    <3> QED
      BY <2>1, <3>1, Monotone
  <2>2. CASE Tick(k) /\ \E b \in Batches : batch'[k] = b
    <3>1. batch'[k][i] \in Pending
      BY <2>2, BatchType
    <3> QED
      BY <3>1, Monotone DEF Pending
  <2>3. CASE batch[k] # <<>> /\ batch'[k] = Tail(batch[k])
    <3>1. batch[k] \in Seq(Row)
      BY DEF TypeOK
    <3>2. i+1 \in DOMAIN batch[k] /\ batch'[k][i] = batch[k][i+1]
      BY <2>3, <3>1, TailType
    <3>3. batch[k][i+1] \in Row /\ row[batch[k][i+1]] # "none"
      BY <3>1, <3>2 DEF BatchRecorded
    <3> QED
      BY <3>2, <3>3, Monotone
  <2>4. CASE batch'[k] = <<>>
    BY <2>4
  <2> QED
    BY <2>1, <2>2, <2>3, <2>4, BatchStep
<1>2. ASSUME NEW k \in Relay, sent'[k]
      PROVE  Head(batch'[k]) \in Published'
  <2>1. CASE Publish(k)
    <3>1. batch'[k] = batch[k]
      BY <2>1 DEF Publish
    <3> QED
      BY <2>1, <3>1, PublishEffect
  <2>2. CASE ~Publish(k)
    <3>1. sent[k] /\ batch'[k] = batch[k]
      <4>1. ASSUME NEW j \in Relay, j # k, Work(j) \/ Crash(j)
            PROVE  sent'[k] = sent[k] /\ batch'[k] = batch[k]
        BY <4>1 DEF Work, Tick, Publish, MarkProcessed, PublishFails, Crash, TypeOK
      <4>2. ~Tick(k)
        BY <1>2 DEF Tick, TypeOK
      <4>3. ~(MarkProcessed(k) \/ PublishFails(k) \/ Crash(k))
        BY <1>2 DEF MarkProcessed, PublishFails, Crash, TypeOK
      <4>4. CASE (\E t \in Transaction : Record(t)) \/ UNCHANGED vars
        BY <1>2, <4>4 DEF Record, vars
      <4> QED
        BY <1>2, <2>2, <4>1, <4>2, <4>3, <4>4 DEF Next, Work
    <3> QED
      BY <3>1, Monotone DEF BatchRecorded
  <2> QED
    BY <2>1, <2>2
<1>3. ProcessedWasPublished'
  <2>1. ASSUME NEW k \in Relay, MarkProcessed(k)
        PROVE  ProcessedWasPublished'
    <3>1. Head(batch[k]) \in Published
      BY <2>1 DEF MarkProcessed, BatchRecorded
    <3>2. \A r \in Row : row'[r] = "processed" =>
             row[r] = "processed" \/ r = Head(batch[k])
      BY <2>1 DEF MarkProcessed, TypeOK
    <3> QED
      BY <3>1, <3>2, Monotone DEF ProcessedWasPublished, BatchRecorded
  <2>2. CASE ~ \E k \in Relay : MarkProcessed(k)
    <3>1. \A r \in Row : row'[r] = "processed" => row[r] = "processed"
      BY <2>2 DEF Next, Work, Record, Tick, Publish, PublishFails, Crash, vars,
         TypeOK
    <3> QED
      BY <3>1, Monotone DEF ProcessedWasPublished, BatchRecorded
  <2> QED
    BY <2>1, <2>2
<1>4. Published' \subseteq Recorded'
  <2>1. ASSUME NEW k \in Relay, Publish(k)
        PROVE  Published' \subseteq Recorded'
    <3>1. batch[k] # <<>> /\ batch[k] \in Seq(Row)
      BY <2>1 DEF Publish, TypeOK
    <3>2. Head(batch[k]) \in Recorded
      BY <3>1, TailType DEF BatchRecorded, Recorded
    <3> QED
      BY <2>1, <3>2, PublishEffect, Monotone DEF BatchRecorded
  <2>2. CASE ~ \E k \in Relay : Publish(k)
    <3>1. UNCHANGED topic
      BY <2>2 DEF Next, Work, Record, Tick, MarkProcessed, PublishFails, Crash, vars
    <3>2. Published' = Published
      BY <3>1 DEF Published
    <3> QED
      BY <3>2, Monotone DEF BatchRecorded
  <2> QED
    BY <2>1, <2>2
<1> QED
  BY <1>1, <1>2, <1>3, <1>4 DEF BatchRecorded

\* No relay publishes a row that was not recorded, nor marks one that was not
\* published, whoever else drains the same rows and whenever it dies
\* (outbox-relay.service.ts, drain()).
THEOREM BatchesRecorded == Spec => []BatchRecorded
<1>1. Init => BatchRecorded
  BY DEF Init, BatchRecorded, ProcessedWasPublished, Published, ToSet
<1> QED
  BY <1>1, BatchRecordedStep, TypeCorrect, PTL DEF Spec

\* A row marked as processed has reached the broker, whichever relay marks it
\* and whatever crashed or failed (outbox-relay.service.ts, publishRow()).
THEOREM ProcessedIsPublished == Spec => []ProcessedWasPublished
<1>1. BatchRecorded => ProcessedWasPublished
  BY DEF BatchRecorded
<1> QED
  BY <1>1, BatchesRecorded, PTL

\* Any number of relays, crashing and overlapping, publish only what a
\* committed transaction recorded, as the other modules assume.
THEOREM ChannelImplemented == Spec => ImplementsChannel
<1>1. Init => Channel!Init
  BY DEF Init, Channel!Init, Recorded, Published, ToSet
<1>2. TypeOK /\ BatchRecorded /\ [Next]_vars
         => [Channel!Next]_<<Recorded, Published>>
  <2> SUFFICES ASSUME TypeOK, BatchRecorded, [Next]_vars
               PROVE  Channel!Next \/ UNCHANGED <<Recorded, Published>>
    OBVIOUS
  <2>1. ASSUME NEW t \in Transaction, Record(t)
        PROVE  Channel!Next
    <3>1. t \in SUBSET (Row \ Recorded) /\ Recorded' = Recorded \cup t
      BY <2>1 DEF Record, Recorded, TypeOK
    <3>2. UNCHANGED Published
      BY <2>1 DEF Record, Published
    <3> QED
      BY <3>1, <3>2 DEF Channel!Next, Channel!Record
  <2>2. ASSUME NEW k \in Relay, Publish(k)
        PROVE  Channel!Next
    <3>1. Head(batch[k]) \in Row /\ row[Head(batch[k])] # "none"
      BY <2>2, TailType DEF Publish, TypeOK, BatchRecorded
    <3>2. Published' = Published \cup {Head(batch[k])}
      BY <2>2, PublishEffect
    <3>3. UNCHANGED Recorded
      BY <2>2 DEF Publish, Recorded
    <3> QED
      BY <3>1, <3>2, <3>3 DEF Channel!Next, Channel!Publish, Recorded
  <2>3. ASSUME NEW k \in Relay, MarkProcessed(k) \/ PublishFails(k)
        PROVE  UNCHANGED <<Recorded, Published>>
    <3>1. batch[k] # <<>> /\ batch[k] \in Seq(Row)
      BY <2>3 DEF MarkProcessed, PublishFails, TypeOK
    <3>2. Head(batch[k]) \in Row /\ row[Head(batch[k])] # "none"
      BY <3>1, TailType DEF BatchRecorded
    <3>3. \E m \in {"pending", "processed"} :
             row' = [row EXCEPT ![Head(batch[k])] = m]
      BY <2>3 DEF MarkProcessed, PublishFails
    <3>4. UNCHANGED Recorded
      BY <3>2, <3>3 DEF Recorded, TypeOK
    <3>5. UNCHANGED Published
      BY <2>3 DEF MarkProcessed, PublishFails, Published
    <3> QED
      BY <3>4, <3>5
  <2>4. CASE (\E k \in Relay : Tick(k) \/ Crash(k)) \/ UNCHANGED vars
    BY <2>4 DEF Tick, Crash, vars, Recorded, Published
  <2> QED
    BY <2>1, <2>2, <2>3, <2>4 DEF Next, Work
<1> QED
  BY <1>1, <1>2, TypeCorrect, BatchesRecorded, PTL
     DEF Spec, ImplementsChannel, Channel!Spec

-----------------------------------------------------------------------------
(* Order. *)

LEMMA AlwaysEarlierRecorded == Spec => []EarlierRecorded
<1>1. Init => EarlierRecorded
  BY DEF Init, EarlierRecorded
<1>2. TypeOK /\ EarlierRecorded /\ [Next]_vars => EarlierRecorded'
  <2> SUFFICES ASSUME TypeOK, EarlierRecorded, [Next]_vars
               PROVE  EarlierRecorded'
    OBVIOUS
  <2>1. ASSUME NEW t \in Transaction, Record(t), NEW r \in Row
        PROVE  before'[r] \subseteq Recorded'
    <3>1. Recorded \cup t \subseteq Recorded'
      BY <2>1 DEF Record, Recorded, TypeOK
    <3>2. before'[r] \subseteq before[r] \cup Recorded \cup t
      BY <2>1 DEF Record, TypeOK
    <3> QED
      BY <3>1, <3>2 DEF EarlierRecorded
  <2>2. CASE ~ \E t \in Transaction : Record(t)
    <3>1. UNCHANGED before
      BY <2>2 DEF Next, Work, Tick, Publish, MarkProcessed, PublishFails, Crash, vars
    <3> QED
      BY <3>1, Monotone DEF EarlierRecorded
  <2> QED
    BY <2>1, <2>2 DEF EarlierRecorded
<1> QED
  BY <1>1, <1>2, TypeCorrect, PTL DEF Spec

LEMMA BatchInOrderStep ==
    /\ TypeOK /\ BatchRecorded /\ EarlierRecorded /\ BatchInOrder
    /\ [Next]_vars
    => BatchInOrder'
<1> SUFFICES ASSUME TypeOK, BatchRecorded, EarlierRecorded, BatchInOrder,
                    [Next]_vars, fails' = 0,
                    NEW k \in Relay, NEW i \in DOMAIN batch'[k],
                    NEW r \in before'[batch'[k][i]] \ Poison,
                    CreatedAt[r] < CreatedAt[batch'[k][i]]
             PROVE  r \in Published' \/ \E j \in 1..(i - 1) : batch'[k][j] = r
  BY DEF BatchInOrder
<1>1. fails = 0
  BY DEF Next, Work, Record, Tick, Publish, MarkProcessed, PublishFails, Crash,
         vars, TypeOK
<1>2. CASE UNCHANGED batch[k]
  <2>1. /\ i \in DOMAIN batch[k] /\ batch'[k][i] = batch[k][i]
        /\ batch[k][i] \in Row /\ row[batch[k][i]] # "none"
    BY <1>2 DEF BatchRecorded, TypeOK
  <2>2. r \in before[batch[k][i]] \ Poison
    BY <2>1, Monotone
  <2>3. r \in Published \/ \E j \in 1..(i - 1) : batch[k][j] = r
    BY <1>1, <2>1, <2>2 DEF BatchInOrder
  <2> QED
    BY <1>2, <2>3, Monotone
<1>3. CASE Tick(k) /\ \E b \in Batches : batch'[k] = b
  <2>1. PICK b \in Batches : batch'[k] = b
    BY <1>3
  <2>2. UNCHANGED before
    BY <1>3 DEF Tick
  <2>3. /\ DOMAIN b = 1..Taken /\ Taken \in Nat /\ i \in 1..Taken
        /\ b[i] \in Row /\ b[i] \in Pending
    <3>1. Taken \in Nat
      BY FS_Subset, FS_CardinalityType DEF Taken, Pending
    <3> QED
      BY <2>1, <3>1, BatchType DEF Batches, Pending
  <2>4. r \in Row /\ row[r] # "none"
    BY <2>1, <2>2, <2>3 DEF EarlierRecorded, Recorded, TypeOK
  <2>5. CreatedAt[r] \in Nat /\ CreatedAt[b[i]] \in Nat
    BY <2>3, <2>4
  <2>6. CASE row[r] = "processed"
    BY <2>4, <2>6, Monotone DEF BatchRecorded, ProcessedWasPublished
  <2>7. CASE row[r] = "pending"
    <3>1. r \in ToSet(b)
      BY <2>1, <2>3, <2>4, <2>5, <2>7 DEF Batches, OldestFirst, Pending
    <3>2. PICK j \in 1..Taken : b[j] = r
      BY <2>3, <3>1 DEF ToSet
    <3>3. ~ (i < j) /\ i # j
      BY <2>1, <2>3, <2>5, <3>2 DEF Batches, OldestFirst
    <3> QED
      BY <2>1, <2>3, <3>2, <3>3
  <2> QED
    BY <2>4, <2>6, <2>7 DEF TypeOK
<1>4. CASE /\ MarkProcessed(k) \/ PublishFails(k)
           /\ batch[k] # <<>> /\ batch'[k] = Tail(batch[k])
  <2>1. batch[k] \in Seq(Row)
    BY DEF TypeOK
  <2>2. /\ i + 1 \in DOMAIN batch[k] /\ batch'[k][i] = batch[k][i + 1]
        /\ Head(batch[k]) = batch[k][1]
        /\ i \in Nat /\ i >= 1 /\ i <= Len(batch'[k]) /\ Len(batch'[k]) \in Nat
        /\ \A j \in 1..Len(batch'[k]) : batch'[k][j] = batch[k][j + 1]
    BY <1>4, <2>1, TailType, LenProperties
  <2>3. Head(batch[k]) \in Published \/ Head(batch[k]) \in Poison
    BY <1>1, <1>4 DEF MarkProcessed, PublishFails, BatchRecorded, TypeOK
  <2>4. CASE r \in Published
    BY <2>4, Monotone
  <2>5. CASE r \notin Published
    <3>0. r \in before[batch[k][i + 1]] \ Poison
      BY <1>4, <2>2 DEF MarkProcessed, PublishFails
    <3>1. PICK j \in 1..i : batch[k][j] = r
      BY <1>1, <2>2, <2>5, <3>0 DEF BatchInOrder
    <3>2. j # 1
      BY <2>2, <2>3, <2>5, <3>1
    <3>3. j - 1 \in 1..(i - 1) /\ j - 1 \in 1..Len(batch'[k])
      BY <2>2, <3>1, <3>2
    <3>4. batch'[k][j - 1] = r
      BY <2>2, <3>1, <3>3
    <3> QED
      BY <3>3, <3>4
  <2> QED
    BY <2>4, <2>5
<1>5. CASE batch'[k] = <<>>
  BY <1>5
<1> QED
  BY <1>2, <1>3, <1>4, <1>5, BatchStep

\* As long as no publish fails, an aggregate's events first reach the broker
\* in the order they were recorded, where created_at tells the order, however
\* the relays crash and overlap, and whatever the batch size
\* (outbox-relay.service.ts, tick()).
THEOREM OrderIsKept == Spec => []OrderKept
<1>1. Init => BatchInOrder /\ OrderKept
  BY DEF Init, BatchInOrder, OrderKept
<1>2. /\ TypeOK /\ BatchRecorded /\ BatchInOrder /\ OrderKept /\ [Next]_vars
      => OrderKept'
  <2> SUFFICES ASSUME TypeOK, BatchRecorded, BatchInOrder, OrderKept,
                      [Next]_vars, fails' = 0,
                      NEW i \in DOMAIN topic',
                      NEW r \in before'[topic'[i]] \ Poison,
                      CreatedAt[r] < CreatedAt[topic'[i]]
               PROVE  \E j \in 1..i : topic'[j] = r
    BY DEF OrderKept
  <2>1. fails = 0
    BY DEF Next, Work, Record, Tick, Publish, MarkProcessed, PublishFails, Crash,
           vars, TypeOK
  <2>2. CASE UNCHANGED topic
    <3>1. topic[i] \in Row /\ row[topic[i]] # "none"
      BY <2>2 DEF BatchRecorded, Published, ToSet, Recorded
    <3>2. r \in before[topic[i]] \ Poison
      BY <2>2, <3>1, Monotone
    <3> QED
      BY <2>1, <2>2, <3>2 DEF OrderKept
  <2>3. ASSUME NEW k \in Relay, Publish(k)
        PROVE  \E j \in 1..i : topic'[j] = r
    <3>1. /\ Len(topic) \in Nat
          /\ DOMAIN topic = 1..Len(topic)
          /\ DOMAIN topic' = 1..(Len(topic) + 1)
          /\ \A j \in 1..Len(topic) : topic'[j] = topic[j]
          /\ topic'[Len(topic) + 1] = Head(batch[k])
      BY <2>3, PublishEffect
    <3>0. UNCHANGED before
      BY <2>3 DEF Publish
    <3>2. CASE i \in 1..Len(topic)
      <4>1. PICK j \in 1..i : topic[j] = r
        BY <2>1, <3>0, <3>1, <3>2 DEF OrderKept
      <4>2. j \in 1..Len(topic)
        BY <3>1, <3>2, <4>1
      <4> QED
        BY <3>1, <4>1, <4>2
    <3>3. CASE i = Len(topic) + 1
      <4>1. batch[k] \in Seq(Row) /\ batch[k] # <<>>
        BY <2>3 DEF Publish, TypeOK
      <4>2. 1 \in DOMAIN batch[k] /\ Head(batch[k]) = batch[k][1]
        BY <4>1, TailType
      <4>3. r \in Published \/ \E j \in 1..(1 - 1) : batch[k][j] = r
        BY <2>1, <3>0, <3>1, <3>3, <4>2 DEF BatchInOrder
      <4>4. r \in Published
        BY <4>3
      <4>5. PICK j \in 1..Len(topic) : topic[j] = r
        BY <3>1, <4>4 DEF Published, ToSet
      <4> QED
        BY <3>1, <3>3, <4>5
    <3> QED
      BY <3>1, <3>2, <3>3
  <2> QED
    BY <2>2, <2>3 DEF Next, Work, Record, Tick, MarkProcessed, PublishFails,
                      Crash, vars
<1> QED
  BY <1>1, <1>2, BatchInOrderStep, TypeCorrect, BatchesRecorded,
     AlwaysEarlierRecorded, PTL DEF Spec
=============================================================================
