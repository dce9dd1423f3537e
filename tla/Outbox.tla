------------------------------- MODULE Outbox -------------------------------
(***************************************************************************)
(* The transactional outbox of a service: rows recorded with the domain    *)
(* change, and the relays (one per running instance of the service) that   *)
(* publish them to Pulsar.                                                 *)
(*                                                                         *)
(* created_at is now(), the time its transaction began: transactions may   *)
(* commit in another order, and the rows of one transaction share it.      *)
(*                                                                         *)
(* Bounds: at most MaxFail publishes of rows that can be published fail,   *)
(* and at most MaxCrash relays crash.  A row of Poison is refused at every *)
(* attempt.                                                                *)
(***************************************************************************)
EXTENDS Integers, Sequences, FiniteSetsExt, SequencesExt

CONSTANTS
    Row,          \* outbox rows, numbered as they are recorded in a transaction
    Transaction,  \* the sets of rows recorded together
    CreatedAt,    \* CreatedAt[r]: created_at of row r
    Aggregate,    \* Aggregate[r]: the topic of row r and its key, aggregateId
    Poison,       \* rows no producer accepts, e.g. for their topic
    BatchSize,    \* relayBatchSize
    Relay,        \* running relays
    MaxFail,
    MaxCrash

ASSUME OutboxAssumption ==
    /\ Row \subseteq Nat /\ IsFiniteSet(Row)
    /\ Transaction \subseteq SUBSET Row
    /\ CreatedAt \in [Row -> Nat]
    /\ \A t \in Transaction : \A r, s \in t : CreatedAt[r] = CreatedAt[s]
    /\ Poison \subseteq Row
    /\ BatchSize \in Nat \ {0}
    /\ MaxFail \in Nat /\ MaxCrash \in Nat

VARIABLES
    row,     \* row[r]: not there, processed_at null, processed_at set
    before,  \* before[r]: the rows of its aggregate recorded before r (history)
    batch,   \* batch[k]: rows of relay k's tick still to publish
    sent,    \* sent[k]: has the head of batch[k] been published?
    topic,   \* the rows as the broker received them
    fails, crashes

vars == <<row, before, batch, sent, topic, fails, crashes>>

TypeOK ==
    /\ row \in [Row -> {"none", "pending", "processed"}]
    /\ before \in [Row -> SUBSET Row]
    /\ batch \in [Relay -> Seq(Row)]
    /\ sent \in [Relay -> BOOLEAN] /\ \A k \in Relay : sent[k] => batch[k] # <<>>
    /\ topic \in Seq(Row \ Poison)
    /\ fails \in 0..MaxFail /\ crashes \in 0..MaxCrash

Init ==
    /\ row = [r \in Row |-> "none"]
    /\ before = [r \in Row |-> {}]
    /\ batch = [k \in Relay |-> <<>>]
    /\ sent = [k \in Relay |-> FALSE]
    /\ topic = <<>>
    /\ fails = 0 /\ crashes = 0

\* The rows there are.
Recorded == {r \in Row : row[r] # "none"}

\* recordOutboxEvent: the commit of a transaction records its rows.
Record(t) ==
    /\ \A r \in t : row[r] = "none"
    /\ row' = [r \in Row |-> IF r \in t THEN "pending" ELSE row[r]]
    /\ before' = [r \in Row |->
                     IF r \in t
                     THEN {s \in Recorded \cup {s \in t : s < r} :
                              Aggregate[s] = Aggregate[r]}
                     ELSE before[r]]
    /\ UNCHANGED <<batch, sent, topic, fails, crashes>>

\* Mutant: events are published before their transaction commits.
Unprocessed == {r \in Row : row[r] # "processed"}

\* The rows that are not processed.
Pending == {r \in Row : row[r] = "pending"}

\* As many as a batch takes.
Taken == LET n == Cardinality(Pending) IN IF n < BatchSize THEN n ELSE BatchSize

\* Mutant: the newest row first.
NewestFirst(b) ==
    /\ \A i, j \in DOMAIN b : i < j => CreatedAt[b[i]] >= CreatedAt[b[j]]
    /\ \A i \in DOMAIN b : \A r \in Pending \ ToSet(b) :
          CreatedAt[b[i]] >= CreatedAt[r]

\* The order of the query: rows of the same created_at come in any order, and
\* any of them are left to a later batch.
OldestFirst(b) ==
    /\ \A i, j \in DOMAIN b : i < j => CreatedAt[b[i]] <= CreatedAt[b[j]]
    /\ \A i \in DOMAIN b : \A r \in Pending \ ToSet(b) :
          CreatedAt[b[i]] <= CreatedAt[r]

\* tick() does not overlap itself.
Tick(k) ==
    /\ batch[k] = <<>>
    /\ Pending # {}
    /\ \E b \in [1..Taken -> Pending] :
          /\ IsInjective(b) /\ OldestFirst(b)
          /\ batch' = [batch EXCEPT ![k] = b]
    /\ UNCHANGED <<row, before, sent, topic, fails, crashes>>

\* publishRow sends the message ...
Publish(k) ==
    /\ batch[k] # <<>> /\ ~sent[k]
    /\ Head(batch[k]) \notin Poison
    /\ topic' = Append(topic, Head(batch[k]))
    /\ sent' = [sent EXCEPT ![k] = TRUE]
    /\ UNCHANGED <<row, before, batch, fails, crashes>>

\* Mutant: the row is marked before it is published.
MarkFirst(k) ==
    /\ batch[k] # <<>>
    /\ row' = [row EXCEPT ![Head(batch[k])] = "processed"]
    /\ batch' = [batch EXCEPT ![k] = Tail(@)]
    /\ sent' = [sent EXCEPT ![k] = FALSE]
    /\ UNCHANGED <<before, topic, fails, crashes>>

\* ... and marks the row.
MarkProcessed(k) ==
    /\ sent[k]
    /\ row' = [row EXCEPT ![Head(batch[k])] = "processed"]
    /\ batch' = [batch EXCEPT ![k] = Tail(@)]
    /\ sent' = [sent EXCEPT ![k] = FALSE]
    /\ UNCHANGED <<before, topic, fails, crashes>>

\* Mutant: the tick tries the row again until it is published.
PublishFailsAgain(k) ==
    /\ batch[k] # <<>> /\ ~sent[k]
    /\ \/ Head(batch[k]) \in Poison /\ UNCHANGED fails
       \/ /\ Head(batch[k]) \notin Poison
          /\ fails < MaxFail
          /\ fails' = fails + 1
    /\ row' = [row EXCEPT ![Head(batch[k])] = "pending"]
    /\ UNCHANGED <<before, batch, sent, topic, crashes>>

\* A publish that fails: the row as it was loaded is saved with the error,
\* and the tick goes on with the next one.
PublishFails(k) ==
    /\ batch[k] # <<>> /\ ~sent[k]
    /\ \/ Head(batch[k]) \in Poison /\ UNCHANGED fails
       \/ /\ Head(batch[k]) \notin Poison
          /\ fails < MaxFail
          /\ fails' = fails + 1
    /\ row' = [row EXCEPT ![Head(batch[k])] = "pending"]
    /\ batch' = [batch EXCEPT ![k] = Tail(@)]
    /\ UNCHANGED <<before, sent, topic, crashes>>

\* The instance dies between any two steps; the next tick starts afresh.
Crash(k) ==
    /\ batch[k] # <<>>
    /\ crashes < MaxCrash
    /\ crashes' = crashes + 1
    /\ batch' = [batch EXCEPT ![k] = <<>>]
    /\ sent' = [sent EXCEPT ![k] = FALSE]
    /\ UNCHANGED <<row, before, topic, fails>>

Work(k) == Tick(k) \/ Publish(k) \/ MarkProcessed(k) \/ PublishFails(k)

Next ==
    \/ \E t \in Transaction : Record(t)
    \/ \E k \in Relay : Work(k) \/ Crash(k)

Spec == Init /\ [][Next]_vars

\* setInterval ticks for as long as the instance runs, and another is started
\* when it dies.
FairSpec == Spec /\ \A k \in Relay : WF_vars(Work(k))

-----------------------------------------------------------------------------
(* Properties. *)

Published == ToSet(topic)

\* A row is processed only once the broker has its message: no crash between
\* the two, no failure and no second relay loses one.
ProcessedWasPublished ==
    \A r \in Row : row[r] = "processed" => r \in Published

\* The relays implement the channel the other modules assume.
Channel == INSTANCE AtLeastOnce
               WITH recorded <- Recorded,
                    published <- Published
ImplementsChannel == Channel!Spec

\* Every recorded event is published in the end, and its row marked, past
\* the rows that fail at every attempt.
EventsDelivered ==
    \A r \in Row \ Poison : row[r] = "pending" ~> row[r] = "processed"

\* As long as no publish fails, an aggregate's events first reach the broker
\* in the order they were recorded, where created_at tells the order: crashes,
\* a second relay and a batch that leaves rows to the next one do not change
\* it, and a row that always fails is passed over.
OrderKept ==
    fails = 0 =>
        \A i \in DOMAIN topic : \A r \in before[topic[i]] \ Poison :
            CreatedAt[r] < CreatedAt[topic[i]] => \E j \in 1..i : topic[j] = r
=============================================================================
