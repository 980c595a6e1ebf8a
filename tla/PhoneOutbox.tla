---------------------------- MODULE PhoneOutbox -----------------------------
(***************************************************************************)
(* The phone's durable outbox and the gateway that empties it: rows are    *)
(* queued, claimed, sent to Telegram and acknowledged.                     *)
(*                                                                         *)
(* The gateway gives a local request up after 30 seconds and exits; the    *)
(* backend goes on with the request in its thread pool, so a claim, an     *)
(* acknowledgement or a recovery may take effect when a later gateway has  *)
(* connected.  A message may reach the owner after its gateway is gone.    *)
(***************************************************************************)
EXTENDS Naturals, FiniteSets

CONSTANTS
    Reviews,      \* decisions, shown as several messages
    Replies,      \* other answers, of one message
    MaxParts,     \* messages of a review
    MaxVersion,   \* bound: states a job goes through
    Labelled,     \* the states of which the owner is told
    Slots,        \* bound: local requests at the backend
    None

Notices == 1..MaxVersion

ASSUME OutboxAssumption ==
    /\ MaxParts \in Nat \ {0}
    /\ MaxVersion \in Nat
    /\ Labelled \subseteq Notices
    /\ Notices \cap (Reviews \cup Replies) = {}
    /\ IsFiniteSet(Reviews) /\ IsFiniteSet(Replies)

VARIABLES
    phase,      \* phone_outbox.phase of each row, "absent" before it is queued
    id,         \* phone_outbox.id, the order of queuing
    stale,      \* groups that expired or whose subject changed
    version,    \* the job's state, one event each
    cursor,     \* phone_cursors.event_id
    muted,      \* phone_cursors.muted, or quiet hours
    rested,     \* a second has passed since phone_cursors.last_send
    gateway,    \* the gateway process
    request,    \* local requests at the backend
    flight,     \* messages on their way to Telegram
    delivered,  \* messages the owner got
    sends       \* history: sendMessage calls per row

vars == <<phase, id, stale, version, cursor, muted, rested, gateway, request, flight, delivered, sends>>

store    == <<phase, id, stale, version, cursor, muted, rested>>
telegram == <<flight, delivered, sends>>

Groups == Reviews \cup Replies \cup Notices
Parts(g) == IF g \in Reviews THEN 1..MaxParts ELSE {1}
Rows == {r \in Groups \X (1..MaxParts) : r[2] \in Parts(r[1])}

Phases  == {"absent", "ready", "sending", "sent", "uncertain", "dropped"}
Gateway == [at: {"off", "connect", "poll", "next", "ack", "nack"}, row: {None}]
               \cup [at: {"send", "sending"}, row: Rows]
Request == [op: {"connect", "project", "delivery"}, row: {None}, awaited: BOOLEAN]
               \cup [op: {"ack", "nack"}, row: Rows, awaited: BOOLEAN]

\* The gateway still waits for the answer.
Awaited(s) == request[s] # None /\ request[s].awaited

TypeOK ==
    /\ phase \in [Rows -> Phases]
    /\ id \in [Rows -> Nat]
    /\ stale \in SUBSET Groups
    /\ version \in 0..MaxVersion
    /\ cursor \in 0..MaxVersion
    /\ muted \in BOOLEAN
    /\ rested \in BOOLEAN
    /\ gateway \in Gateway
    /\ request \in [Slots -> Request \cup {None}]
    /\ flight \in SUBSET Rows
    /\ delivered \in [Rows -> BOOLEAN]
    /\ sends \in [Rows -> Nat]
    /\ \A s, t \in Slots : Awaited(s) /\ Awaited(t) => s = t
    /\ \A s \in Slots : Awaited(s) => gateway.at \in {"connect", "next", "ack", "nack"}

Init ==
    /\ phase = [r \in Rows |-> "absent"]
    /\ id = [r \in Rows |-> 0]
    /\ stale = {}
    /\ version = 0
    /\ cursor = 0
    /\ muted = FALSE
    /\ rested = TRUE
    /\ gateway = [at |-> "off", row |-> None]
    /\ request = [s \in Slots |-> None]
    /\ flight = {}
    /\ delivered = [r \in Rows |-> FALSE]
    /\ sends = [r \in Rows |-> 0]

-----------------------------------------------------------------------------
(* PhoneStore                                                              *)

Queued == {r \in Rows : phase[r] # "absent"}

\* queue: a group that is queued already is left alone.
Queue(g) ==
    IF \E r \in Queued : r[1] = g
    THEN UNCHANGED <<phase, id>>
    ELSE /\ phase' = [r \in Rows |-> IF r[1] = g THEN "ready" ELSE phase[r]]
         /\ id' = [r \in Rows |-> IF r[1] = g THEN Cardinality(Queued) + r[2] ELSE id[r]]

\* A row that is neither expired nor about something that changed.
Eligible(r) == r[1] \notin stale /\ (r[1] \in Notices => r[1] = version)

\* Fault: the parts of a review are sent without waiting for each other.
EarlierSent_Ignored(r) == TRUE

\* All earlier parts of the review are known to be delivered.
EarlierSent(r) == \A q \in Rows : q[1] = r[1] /\ q[2] < r[2] => phase[q] = "sent"

Deferred(r) == r[1] \in Notices /\ muted

\* Notices come last.
Before(q, r) ==
    IF (q[1] \in Notices) = (r[1] \in Notices) THEN id[q] < id[r] ELSE r[1] \in Notices

Ready == {r \in Rows : phase[r] = "ready"}
Claimable == {r \in Ready : Eligible(r) /\ ~Deferred(r) /\ EarlierSent(r)}

\* The row delivery claims, and those it drops on the way to it.
Claimed == {r \in Claimable : \A q \in Claimable \ {r} : Before(r, q)}
Dropped == {q \in Ready : ~Eligible(q) /\ \A r \in Claimed : Before(q, r)}

\* recover
Recovered(p) == IF p = "sending" THEN "uncertain" ELSE p

\* Fault: an acknowledgement counts whatever became of the claim.
Acknowledgeable_Any(r) == phase[r] \in {"sending", "uncertain"}

\* acknowledge
Acknowledgeable(r) == phase[r] = "sending"

-----------------------------------------------------------------------------
(* The local requests.  The answer reaches a gateway that still waits.     *)

At(s, op) == request[s] # None /\ request[s].op = op
Free(s) == request[s] = None
Closed(s) == request' = [request EXCEPT ![s] = None]
Off == [at |-> "off", row |-> None]
Polling == [at |-> "poll", row |-> None]

Answered(s, g) == gateway' = IF request[s].awaited THEN g ELSE gateway

\* /api/phone/connect
Connect(s) ==
    /\ At(s, "connect")
    /\ phase' = [r \in Rows |-> Recovered(phase[r])]
    /\ Answered(s, Polling)
    /\ Closed(s)
    /\ UNCHANGED <<id, stale, version, cursor, muted, rested, telegram>>

\* Fault: the notice is about the oldest event that was not yet projected.
Projected_Oldest == cursor + 1

\* The notice is about the state the job has by now.
Projected == version

\* /api/phone/next: the transaction of PhoneNotifications.project.
Project(s) ==
    /\ At(s, "project")
    /\ cursor' = version
    /\ IF cursor < version /\ Projected \in Labelled \ stale
       THEN Queue(Projected)
       ELSE UNCHANGED <<phase, id>>
    /\ request' = [request EXCEPT ![s] = [op |-> "delivery", row |-> None, awaited |-> @.awaited]]
    /\ UNCHANGED <<stale, version, muted, rested, gateway, telegram>>

\* /api/phone/next: the transaction of PhoneStore.delivery.
Delivery(s) ==
    /\ At(s, "delivery")
    /\ rested
    /\ phase' = [r \in Rows |-> IF r \in Claimed THEN "sending"
                                ELSE IF r \in Dropped THEN "dropped" ELSE phase[r]]
    /\ rested' = (Claimed = {})
    /\ \/ Claimed = {} /\ Answered(s, Polling)
       \/ \E r \in Claimed : Answered(s, [at |-> "send", row |-> r])
    /\ Closed(s)
    /\ UNCHANGED <<id, stale, version, cursor, muted, telegram>>

\* The chat had a message less than a second ago.
DeliveryTooSoon(s) ==
    /\ At(s, "delivery")
    /\ ~rested
    /\ Answered(s, Polling)
    /\ Closed(s)
    /\ UNCHANGED <<store, telegram>>

\* /api/phone/ack with a message identity.  A refusal ends the gateway.
Ack(s) ==
    /\ At(s, "ack")
    /\ LET r == request[s].row
       IN  IF Acknowledgeable(r)
           THEN phase' = [phase EXCEPT ![r] = "sent"] /\ Answered(s, Polling)
           ELSE UNCHANGED phase /\ Answered(s, Off)
    /\ Closed(s)
    /\ UNCHANGED <<id, stale, version, cursor, muted, rested, telegram>>

\* /api/phone/ack without one.  The gateway exits after it.
Nack(s) ==
    /\ At(s, "nack")
    /\ phase' = [phase EXCEPT ![request[s].row] =
                     IF Acknowledgeable(request[s].row) THEN "uncertain" ELSE @]
    /\ Answered(s, Off)
    /\ Closed(s)
    /\ UNCHANGED <<id, stale, version, cursor, muted, rested, telegram>>

-----------------------------------------------------------------------------
(* PhoneGateway                                                            *)

Ask(op, row) ==
    \E s \in Slots :
        /\ Free(s)
        /\ request' = [request EXCEPT ![s] = [op |-> op, row |-> row, awaited |-> TRUE]]

\* Alone, by BotPollerLock.
Start ==
    /\ gateway = Off
    /\ Ask("connect", None)
    /\ gateway' = [at |-> "connect", row |-> None]
    /\ UNCHANGED <<store, telegram>>

\* poll_once, after the updates.
AskNext ==
    /\ gateway = Polling
    /\ Ask("project", None)
    /\ gateway' = [at |-> "next", row |-> None]
    /\ UNCHANGED <<store, telegram>>

Send ==
    /\ gateway.at = "send"
    /\ gateway' = [at |-> "sending", row |-> gateway.row]
    /\ flight' = flight \cup {gateway.row}
    /\ sends' = [sends EXCEPT ![gateway.row] = @ + 1]
    /\ UNCHANGED <<store, request, delivered>>

\* Telegram answered with the message.
Confirmed == delivered[gateway.row]

AskAck ==
    /\ gateway.at = "sending"
    /\ Confirmed
    /\ Ask("ack", gateway.row)
    /\ gateway' = [at |-> "ack", row |-> None]
    /\ UNCHANGED <<store, telegram>>

\* No answer, an error or a malformed answer.
AskNack ==
    /\ gateway.at = "sending"
    /\ Ask("nack", gateway.row)
    /\ gateway' = [at |-> "nack", row |-> None]
    /\ UNCHANGED <<store, telegram>>

\* The gateway times out, fails or is stopped; its request goes on.
Exit ==
    /\ gateway # Off
    /\ gateway' = Off
    /\ request' = [s \in Slots |->
           IF Free(s) THEN None ELSE [op |-> request[s].op, row |-> request[s].row, awaited |-> FALSE]]
    /\ UNCHANGED <<store, telegram>>

-----------------------------------------------------------------------------
(* The environment.                                                        *)

\* PhoneControl answers an update.
Reply(g) ==
    /\ g \in Reviews \cup Replies
    /\ Queue(g)
    /\ UNCHANGED <<stale, version, cursor, muted, rested, gateway, request, telegram>>

\* A message expires; an approval, a project or a deadline changes.
Outdate(g) ==
    /\ stale' = stale \cup {g}
    /\ UNCHANGED <<phase, id, version, cursor, muted, rested, gateway, request, telegram>>

\* The job changes its state and records an event.
Advance ==
    /\ version < MaxVersion
    /\ version' = version + 1
    /\ UNCHANGED <<phase, id, stale, cursor, muted, rested, gateway, request, telegram>>

\* /mute, /unmute and the quiet hours.
Mute ==
    /\ muted' = ~muted
    /\ UNCHANGED <<phase, id, stale, version, cursor, rested, gateway, request, telegram>>

\* A second passes.
Rest ==
    /\ ~rested
    /\ rested' = TRUE
    /\ UNCHANGED <<phase, id, stale, version, cursor, muted, gateway, request, telegram>>

\* Telegram shows the message, or it is lost.
Arrive(r) ==
    /\ r \in flight
    /\ flight' = flight \ {r}
    /\ delivered' \in {delivered, [delivered EXCEPT ![r] = TRUE]}
    /\ UNCHANGED <<store, gateway, request, sends>>

\* The backend dies with the requests it has.
Die ==
    /\ \E s \in Slots : ~Free(s)
    /\ request' = [s \in Slots |-> None]
    /\ UNCHANGED <<store, gateway, telegram>>

-----------------------------------------------------------------------------
Backend(s) == Connect(s) \/ Project(s) \/ Delivery(s) \/ DeliveryTooSoon(s) \/ Ack(s) \/ Nack(s)

Next ==
    \/ \E s \in Slots : Backend(s)
    \/ Start \/ AskNext \/ Send \/ AskAck \/ AskNack \/ Exit
    \/ \E g \in Groups : Reply(g) \/ Outdate(g)
    \/ Advance \/ Mute \/ Rest \/ Die
    \/ \E r \in Rows : Arrive(r)

Spec == Init /\ [][Next]_vars

-----------------------------------------------------------------------------
(* Properties.                                                             *)

\* No row is sent to Telegram twice, whatever request, answer or process is
\* lost or late.
SentOnce == \A r \in Rows : sends[r] <= 1

\* The owner sees a part of a review only when all parts before it are known to
\* be there, so the last part, which has the buttons, is never seen alone.
PartsInOrder ==
    \A q, r \in Rows : q[1] = r[1] /\ q[2] < r[2] /\ sends[r] > 0 => delivered[q] /\ phase[q] = "sent"

\* What a claim, a message and an acknowledgement say of their row.  Inductive.
Pursued(r) == phase[r] \in {"sending", "sent", "uncertain"}

ClaimInv ==
    /\ \A r \in Rows : Pursued(r) => EarlierSent(r)
    /\ \A r \in Rows : sends[r] > 0 => Pursued(r)
    /\ gateway.at = "send" => Pursued(gateway.row) /\ sends[gateway.row] = 0

MessageInv ==
    /\ \A r \in Rows : delivered[r] => sends[r] > 0
    /\ \A r \in Rows : phase[r] = "sent" => delivered[r]
    /\ \A r \in flight : sends[r] > 0 /\ ~delivered[r]
    /\ \A s \in Slots : At(s, "ack") => delivered[request[s].row]

\* A row leaves for Telegram once, after its claim and after all earlier parts;
\* what is recorded as sent, or is about to be, has arrived.  This is the
\* inductive form of SentOnce, PartsInOrder and the contract below.
OutboxInv == SentOnce /\ ClaimInv /\ MessageInv

\* When the projection has caught up with the job, the state the owner should
\* hear of has its notice, although several events are projected at once and
\* every notice is about the state the job has by then.
LatestNoticed ==
    version \in Labelled \ stale /\ cursor = version => <<version, 1>> \in Queued

\* The inductive form of LatestNoticed: the projection never overtakes the job.
NoticeInv == cursor <= version /\ LatestNoticed

\* Each row implements the contract of ReplyContract.
RecordOf(p) ==
    IF p \in {"absent", "ready"} THEN "open"
    ELSE IF p = "dropped" THEN "closed"
    ELSE IF p = "sending" THEN "claimed" ELSE p

Record == [r \in Rows |-> RecordOf(phase[r])]

Contract == INSTANCE ReplyContract WITH Updates <- Rows, record <- Record

\* One claim for each row, at most one message after it, and "sent" recorded
\* only for a message that the owner has.
KeepsContract == Contract!ContractSpec

=============================================================================
