--------------------------- MODULE ReplyContract ----------------------------
(***************************************************************************)
(* What the reply journal promises for each remote command, and the phone  *)
(* outbox for each row, without the poller, the network and the crashes:   *)
(* one claim, at most one message after it, and a record that never claims *)
(* more than what happened.                                                *)
(***************************************************************************)

CONSTANTS Updates

VARIABLES
    record,    \* what is recorded for an update or a row
    delivered  \* whether the owner got the message

contractVars == <<record, delivered>>

Records == {"open", "closed", "claimed", "sent", "uncertain"}

ContractInit ==
    /\ record = [u \in Updates |-> "open"]
    /\ delivered = [u \in Updates |-> FALSE]

Becomes(u, r) == record'[u] = r /\ delivered'[u] = delivered[u]

\* No message will be attempted.
CloseReply(u) == record[u] = "open" /\ Becomes(u, "closed")

\* The only attempt is reserved before it is made.
ClaimReply(u) == record[u] = "open" /\ Becomes(u, "claimed")

\* The message may arrive after its outcome was given up, and once.
Deliver(u) ==
    /\ record[u] \in {"claimed", "uncertain"}
    /\ ~delivered[u]
    /\ delivered'[u]
    /\ record'[u] = record[u]

\* sent is recorded for a message that was delivered.
Acknowledge(u) == record[u] = "claimed" /\ delivered[u] /\ Becomes(u, "sent")

GiveUp(u) == record[u] = "claimed" /\ Becomes(u, "uncertain")

\* A recovery gives up several claims in one step.
ContractNext ==
    \A u \in Updates :
        \/ CloseReply(u) \/ ClaimReply(u) \/ Deliver(u) \/ Acknowledge(u) \/ GiveUp(u)
        \/ Becomes(u, record[u])

ContractSpec == ContractInit /\ [][ContractNext]_contractVars

=============================================================================
