------------------------------ MODULE SendLog -------------------------------
(***************************************************************************)
(* The send_log of notification-service: its rows, the broker's messages   *)
(* that take them up again, what the provider answered, and the promise    *)
(* the service makes of them.  How they come about is in Dispatch.         *)
(***************************************************************************)
EXTENDS Integers

CONSTANTS
    Mail,         \* what is to be sent, by its source event
    MaxAttempts   \* NOTIFICATION_MAX_ATTEMPTS

VARIABLES
    row,         \* row[m]: the send_log row of m; known: its provider_message_id
    undelivered, \* messages of the broker that were not yet handled to their end
    refused      \* refused[m]: how often the provider has refused m

\* A notification that is still pending is never forgotten: whatever stale row
\* another execution saves and whichever execution dies, a message that will
\* take it up again is still to be handled.
PendingIsDriven ==
    \A m \in Mail : row[m].status = "pending" =>
        \E n \in 0..MaxAttempts : <<m, n>> \in undelivered

\* A notification is given up only after the provider has refused it
\* MaxAttempts times, though concurrent executions save each other's count of
\* attempts over.
DeadWasTried ==
    \A m \in Mail : row[m].status = "dead" => refused[m] = MaxAttempts
=============================================================================
