----------------------------- MODULE Dispatch ------------------------------
(***************************************************************************)
(* notification-service: the send_log rows of notify.send commands, their  *)
(* attempts and the delayed notify.message.retry messages that drive them, *)
(* and the provider's bounce webhooks.                                     *)
(*                                                                         *)
(* A message of the broker is <<m, 0>>, the command of m, or <<m, n>>, the *)
(* retry recorded when m went to attempt n.  Each is delivered any number  *)
(* of times; one that was handled to its end is acknowledged, and only one *)
(* that was not has to be delivered again.                                 *)
(*                                                                         *)
(* Bounds: the commands are the members of Mail, and at most MaxCrash      *)
(* executions die.  refused counts to MaxAttempts and no further.          *)
(***************************************************************************)
EXTENDS SendLog

CONSTANTS
    Proc,
    MaxCrash

ASSUME DispatchAssumption ==
    /\ MaxAttempts \in Nat \ {0}
    /\ MaxCrash \in Nat

VARIABLES
    recorded,  \* messages of the broker
    work,      \* work[p]: where execution p is
    crashes

vars == <<row, recorded, undelivered, refused, work, crashes>>

Key  == Mail \X (0..MaxAttempts)
Row  == [status : {"none", "pending", "sent", "failed", "dead"},
         attempt : 1..MaxAttempts, known : BOOLEAN]
Idle == [pc |-> "idle"]
Work == [pc : {"inserting"}, key : Key]
        \cup [pc : {"attempting", "accepted", "refused"}, key : Key, row : Row]
        \cup [pc : {"bounced"}, message : Mail, row : Row]

TypeOK ==
    /\ row \in [Mail -> Row]
    /\ recorded \subseteq Key
    /\ undelivered \subseteq recorded
    /\ refused \in [Mail -> 0..MaxAttempts]
    /\ work \in [Proc -> {Idle} \cup Work]
    /\ crashes \in 0..MaxCrash

Init ==
    /\ row = [m \in Mail |->
                 [status |-> "none", attempt |-> 1, known |-> FALSE]]
    /\ recorded = {} /\ undelivered = {}
    /\ refused = [m \in Mail |-> 0]
    /\ work = [p \in Proc |-> Idle]
    /\ crashes = 0

At(p, pc) == work[p].pc = pc
Do(p, w)  == work' = [work EXCEPT ![p] = w]

-----------------------------------------------------------------------------
\* Another service records a notify.send command, or an event that is mapped
\* to one.
Command(m) ==
    /\ <<m, 0>> \notin recorded
    /\ recorded' = recorded \cup {<<m, 0>>}
    /\ undelivered' = undelivered \cup {<<m, 0>>}
    /\ UNCHANGED <<row, refused, work, crashes>>

\* Mutant: a row that is there is somebody else's.
DeliverNew(p, k) ==
    /\ At(p, "idle")
    /\ k \in recorded
    /\ LET r == row[k[1]]
       IN  \/ /\ r.status = "none"
              /\ Do(p, [pc |-> "inserting", key |-> k])
              /\ UNCHANGED undelivered
           \/ /\ r.status # "none"
              /\ undelivered' = undelivered \ {k}
              /\ UNCHANGED work
    /\ UNCHANGED <<row, recorded, refused, crashes>>

\* dispatch and redispatch: a row that is sent or dead ends it, any other is
\* attempted again; dispatch inserts the one that is missing.
Deliver(p, k) ==
    /\ At(p, "idle")
    /\ k \in recorded
    /\ LET r == row[k[1]]
       IN  \/ /\ r.status = "none"
              /\ Do(p, [pc |-> "inserting", key |-> k])
              /\ UNCHANGED undelivered
           \/ /\ r.status \in {"sent", "dead"}
              /\ undelivered' = undelivered \ {k}
              /\ UNCHANGED work
           \/ /\ r.status \in {"pending", "failed"}
              /\ Do(p, [pc |-> "attempting", key |-> k, row |-> r])
              /\ UNCHANGED undelivered
    /\ UNCHANGED <<row, recorded, refused, crashes>>

\* The insert of a second row of one source event throws.
Insert(p) ==
    /\ At(p, "inserting")
    /\ LET k == work[p].key
           r == [status |-> "pending", attempt |-> 1, known |-> FALSE]
       IN  IF row[k[1]].status # "none"
           THEN Do(p, Idle) /\ UNCHANGED row
           ELSE /\ row' = [row EXCEPT ![k[1]] = r]
                /\ Do(p, [pc |-> "attempting", key |-> k, row |-> r])
    /\ UNCHANGED <<recorded, undelivered, refused, crashes>>

\* sendViaChannel, outside any transaction.
Send(p) ==
    /\ At(p, "attempting")
    /\ LET m == work[p].key[1]
       IN  \/ /\ Do(p, [work[p] EXCEPT !.pc = "accepted"])
              /\ UNCHANGED refused
           \/ /\ Do(p, [work[p] EXCEPT !.pc = "refused"])
              /\ refused' = [refused EXCEPT ![m] =
                                IF @ < MaxAttempts THEN @ + 1 ELSE @]
    /\ UNCHANGED <<row, recorded, undelivered, crashes>>

\* The end of an attempt: the row as it was loaded is saved with the outcome,
\* with the retry, if any, recorded in the same transaction.
Save(p, r, retries) ==
    LET k == work[p].key
    IN  /\ row' = [row EXCEPT ![k[1]] = r]
        /\ recorded' = recorded \cup retries
        /\ undelivered' = (undelivered \ {k}) \cup retries
        /\ Do(p, Idle)
        /\ UNCHANGED <<refused, crashes>>

SaveSent(p) ==
    /\ At(p, "accepted")
    /\ Save(p, [work[p].row EXCEPT !.status = "sent", !.known = TRUE], {})

\* Mutant: the retry is not recorded in the transaction of the row.
SaveRetryAlone(p) ==
    /\ At(p, "refused")
    /\ work[p].row.attempt < MaxAttempts
    /\ Save(p, [work[p].row EXCEPT !.attempt = @ + 1], {})

SaveRetry(p) ==
    /\ At(p, "refused")
    /\ work[p].row.attempt < MaxAttempts
    /\ LET next == work[p].row.attempt + 1
       IN  Save(p, [work[p].row EXCEPT !.attempt = next],
                {<<work[p].key[1], next>>})

\* Mutant: the last attempt is not made.
SaveDeadEarly(p) ==
    /\ At(p, "refused")
    /\ work[p].row.attempt + 1 >= MaxAttempts
    /\ Save(p, [work[p].row EXCEPT !.status = "dead"], {})

SaveDead(p) ==
    /\ At(p, "refused")
    /\ work[p].row.attempt >= MaxAttempts
    /\ Save(p, [work[p].row EXCEPT !.status = "dead"], {})

-----------------------------------------------------------------------------
\* WebhookDispatchService.handle: a bounce of a message whose id is stored.
BounceLoad(p, m) ==
    /\ At(p, "idle")
    /\ row[m].known
    /\ row[m].status # "failed"
    /\ Do(p, [pc |-> "bounced", message |-> m,
              row |-> [row[m] EXCEPT !.status = "failed"]])
    /\ UNCHANGED <<row, recorded, undelivered, refused, crashes>>

BounceSave(p) ==
    /\ At(p, "bounced")
    /\ row' = [row EXCEPT ![work[p].message] = work[p].row]
    /\ Do(p, Idle)
    /\ UNCHANGED <<recorded, undelivered, refused, crashes>>

Crash(p) ==
    /\ ~At(p, "idle")
    /\ crashes < MaxCrash
    /\ crashes' = crashes + 1
    /\ Do(p, Idle)
    /\ UNCHANGED <<row, recorded, undelivered, refused>>

Proceed(p) == \/ Insert(p) \/ Send(p) \/ SaveSent(p) \/ SaveRetry(p)
              \/ SaveDead(p) \/ BounceSave(p)

Next ==
    \/ \E p \in Proc : \/ Proceed(p) \/ Crash(p)
                       \/ \E k \in Key : Deliver(p, k)
                       \/ \E m \in Mail : BounceLoad(p, m)
    \/ \E m \in Mail : Command(m)

Spec == Init /\ [][Next]_vars

\* Executions go on, and the broker delivers what is not acknowledged.
Redeliver(k) == k \in undelivered /\ \E p \in Proc : Deliver(p, k)

FairSpec ==
    /\ Spec
    /\ \A p \in Proc : WF_vars(Proceed(p))
    /\ \A k \in Key : SF_vars(Redeliver(k))

-----------------------------------------------------------------------------
(* Properties: the promise of SendLog, and that it comes to an end. *)

\* Every command ends up sent, bounced or given up.
CommandsSettle ==
    \A m \in Mail : <<m, 0>> \in recorded ~>
        row[m].status \in {"sent", "failed", "dead"}
=============================================================================
