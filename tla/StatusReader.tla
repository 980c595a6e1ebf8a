---------------------------- MODULE StatusReader ----------------------------
(***************************************************************************)
(* The Telegram status reader and its durable journal: updates that are    *)
(* polled, received, answered, claimed and sent by one process, which may  *)
(* die between any two of its database and network calls and be started    *)
(* again with other projects.  BotPollerLock keeps a second process out.   *)
(*                                                                         *)
(* A command is abstracted to its update identity; all are issued at time  *)
(* zero.  The text of a reply is abstracted to whether it carries counts   *)
(* of the selected project.                                                *)
(***************************************************************************)
EXTENDS Naturals, FiniteSets, FiniteSetsExt

CONSTANTS
    Updates,     \* update identities
    Commands,    \* the updates that are commands of the owner
    Scopes,      \* owner, projects and port a process may be started with
    None,
    Window,      \* the two minutes a command is good for
    MaxClock     \* bound: the clock

ASSUME ReaderAssumption ==
    /\ Updates \subseteq Nat
    /\ Commands \subseteq Updates
    /\ None \notin Scopes
    /\ Window \in Nat
    /\ MaxClock \in Nat

VARIABLES
    phase,      \* remote_receipts.phase, "none" without a row
    scopeOf,    \* remote_receipts.scope_hash
    tells,      \* whether the stored reply carries counts
    arrived,    \* the updates the bot was sent
    queue,      \* the updates Telegram would still return
    at,         \* where the process is, "down" without one
    batch,      \* the updates of the last answer that are still to handle
    offset,     \* TelegramGateway.offset
    scope,      \* TelegramGateway._scope
    permitted,  \* the recheck of the current reply's egress
    heard,      \* the current message was acknowledged
    policy,     \* whether the project's sensitivity permits egress
    clock,
    delivered,  \* history: how often the owner got the reply
    claimed     \* history: when and for which scope the reply was claimed

journal    == <<phase, scopeOf, tells>>
process    == <<at, batch, offset, scope, permitted, heard>>
world      == <<arrived, queue, policy, clock>>
history    == <<delivered, claimed>>
readerVars == <<journal, process, world, history>>

Phases  == {"none", "received", "ignored", "ready", "expired", "sending", "sent", "uncertain"}
Places  == {"down", "poll", "receive", "answer", "check", "claim", "send", "finish"}
NoClaim == [at |-> 0, scope |-> None]

ReaderTypeOK ==
    /\ phase \in [Updates -> Phases]
    /\ scopeOf \in [Updates -> Scopes \cup {None}]
    /\ tells \in [Updates -> BOOLEAN]
    /\ arrived \in SUBSET Updates
    /\ queue \in SUBSET arrived
    /\ at \in Places
    /\ batch \in SUBSET Updates
    /\ offset \in Nat
    /\ scope \in Scopes
    /\ permitted \in BOOLEAN
    /\ heard \in BOOLEAN
    /\ policy \in BOOLEAN
    /\ clock \in 0..MaxClock
    /\ delivered \in [Updates -> Nat]
    /\ claimed \in [Updates -> [at: Nat, scope: Scopes \cup {None}]]
    /\ at \notin {"down", "poll"} => batch # {}

ReaderInit ==
    /\ phase = [u \in Updates |-> "none"]
    /\ scopeOf = [u \in Updates |-> None]
    /\ tells = [u \in Updates |-> FALSE]
    /\ arrived = {}
    /\ queue = {}
    /\ at = "down"
    /\ batch = {}
    /\ offset = 0
    /\ scope \in Scopes
    /\ permitted = FALSE
    /\ heard = FALSE
    /\ policy \in BOOLEAN
    /\ clock = 0
    /\ delivered = [u \in Updates |-> 0]
    /\ claimed = [u \in Updates |-> NoClaim]

\* The update the process is handling: the batch is in ascending order.
Current == Min(batch)

SetPhase(p) == phase' = [phase EXCEPT ![Current] = p]

\* _command: of the owner, and not too old by now.
Valid(u) == u \in Commands /\ clock <= Window

\* A GatewayError leaves main, or the process dies: its memory is gone.
Gone ==
    /\ at' = "down"
    /\ batch' = {}
    /\ offset' = 0
    /\ permitted' = FALSE
    /\ heard' = FALSE
    /\ UNCHANGED scope

\* Fault: the offset is one too far.
NextOffset_TooFar == Current + 2

\* The offset that confirms the current update.
NextOffset == IF offset > Current THEN offset ELSE Current + 1

\* The next update of the batch, or the next poll.
NextPlace == IF batch = {Current} THEN "poll" ELSE "receive"

\* The loop of poll_once has handled the current update.
Advance ==
    /\ batch' = batch \ {Current}
    /\ at' = NextPlace
    /\ offset' = NextOffset
    /\ permitted' = FALSE
    /\ heard' = FALSE
    /\ UNCHANGED scope

GoesTo(place) == at' = place /\ UNCHANGED <<batch, offset, scope, permitted, heard>>

-----------------------------------------------------------------------------
(* The process.                                                            *)

\* RemoteJournal.recover: a claim of another process is never sent again.
Recovered(u) == IF phase[u] = "sending" THEN "uncertain" ELSE phase[u]

Start(s) ==
    /\ at = "down"
    /\ at' = "poll"
    /\ scope' = s
    /\ phase' = [u \in Updates |-> Recovered(u)]
    /\ UNCHANGED <<scopeOf, tells, batch, offset, permitted, heard, world, history>>

\* Telegram forgets what is below the offset and returns the rest.
Poll ==
    /\ at = "poll"
    /\ queue' = {u \in queue : u >= offset}
    /\ batch' = queue'
    /\ at' = IF queue' = {} THEN "poll" ELSE "receive"
    /\ UNCHANGED <<journal, offset, scope, permitted, heard, arrived, policy, clock, history>>

\* The answer is lost, the offset may have arrived.
PollFails ==
    /\ at = "poll"
    /\ queue' \in {queue, {u \in queue : u >= offset}}
    /\ Gone
    /\ UNCHANGED <<journal, arrived, policy, clock, history>>

\* After six days without an update the offset starts again.
ResetOffset ==
    /\ at = "poll"
    /\ offset # 0
    /\ offset' = 0
    /\ UNCHANGED <<journal, at, batch, scope, permitted, heard, world, history>>

\* RemoteJournal.receive of an update without a receipt.
ReceiveNew ==
    /\ at = "receive"
    /\ phase[Current] = "none"
    /\ SetPhase("received")
    /\ scopeOf' = [scopeOf EXCEPT ![Current] = scope]
    /\ GoesTo("answer")
    /\ UNCHANGED <<tells, world, history>>

\* An exact duplicate: only a reply that is ready is taken up.
ReceiveAgain ==
    /\ at = "receive"
    /\ phase[Current] # "none"
    /\ IF phase[Current] = "ready" THEN GoesTo("check") ELSE Advance
    /\ UNCHANGED <<journal, world, history>>

\* RemoteJournal.complete: a reply with counts, without them because the
\* project is local only, the status unavailable or the command help, or none.
AnswerIt ==
    /\ at = "answer"
    /\ IF Valid(Current)
       THEN /\ SetPhase("ready")
            /\ \E t \in {FALSE, policy} : tells' = [tells EXCEPT ![Current] = t]
            /\ GoesTo("check")
       ELSE /\ SetPhase("ignored")
            /\ UNCHANGED tells
            /\ Advance
    /\ UNCHANGED <<scopeOf, world, history>>

\* The recheck of _durable_update.  Scopes may share their projects; a stored
\* reply of projects that this process was not started with ends it (Exit).
CheckEgress ==
    /\ at = "check"
    /\ permitted' = (Valid(Current) /\ (tells[Current] => policy))
    /\ at' = "claim"
    /\ UNCHANGED <<journal, batch, offset, scope, heard, world, history>>

\* Fault: claim looks at the phase alone.
Claimable_PhaseOnly == TRUE

\* RemoteJournal.claim: the scope of the receipt, unless the recheck failed,
\* and the expiry.
Claimable == permitted /\ scopeOf[Current] = scope /\ clock <= Window

Claim ==
    /\ at = "claim"
    /\ IF Claimable
       THEN /\ SetPhase("sending")
            /\ claimed' = [claimed EXCEPT ![Current] = [at |-> clock, scope |-> scope]]
            /\ GoesTo("send")
       ELSE /\ SetPhase("expired")
            /\ UNCHANGED claimed
            /\ Advance
    /\ UNCHANGED <<scopeOf, tells, world, delivered>>

\* sendMessage: delivered or not, acknowledged or not.
Send ==
    /\ at = "send"
    /\ \E got, ack \in BOOLEAN :
           /\ ack => got
           /\ delivered' = [delivered EXCEPT ![Current] = IF got THEN @ + 1 ELSE @]
           /\ heard' = ack
    /\ at' = "finish"
    /\ UNCHANGED <<journal, batch, offset, scope, permitted, world, claimed>>

\* RemoteJournal.finish after an acknowledgement.
FinishSent ==
    /\ at = "finish"
    /\ heard
    /\ SetPhase("sent")
    /\ Advance
    /\ UNCHANGED <<scopeOf, tells, world, history>>

\* Fault: an unacknowledged message is put back.
Unconfirmed_Retried == "ready"

\* What finish records without an acknowledgement.
Unconfirmed == "uncertain"

\* No acknowledgement, or finish failed once: uncertain, and the process stops.
FinishUncertain ==
    /\ at = "finish"
    /\ SetPhase(Unconfirmed)
    /\ Gone
    /\ UNCHANGED <<scopeOf, tells, world, history>>

\* The process is killed, or any other error ends it: the journal, the backend,
\* a stored reply of projects this process was not started with.
Exit ==
    /\ at \notin {"down", "poll"}
    /\ Gone
    /\ UNCHANGED <<journal, world, history>>

-----------------------------------------------------------------------------
(* The environment.                                                        *)

\* Updates are numbered in the order they are sent.
Arrive(u) ==
    /\ u \notin arrived
    /\ \A v \in Updates : v < u => v \in arrived
    /\ arrived' = arrived \cup {u}
    /\ queue' = queue \cup {u}
    /\ UNCHANGED <<journal, process, policy, clock, history>>

\* The project's sensitivity is changed.
SetPolicy ==
    /\ policy' = ~policy
    /\ UNCHANGED <<journal, process, arrived, queue, clock, history>>

Tick ==
    /\ clock < MaxClock
    /\ clock' = clock + 1
    /\ UNCHANGED <<journal, process, arrived, queue, policy, history>>

-----------------------------------------------------------------------------
Handle == ReceiveNew \/ ReceiveAgain \/ AnswerIt \/ CheckEgress \/ Claim \/ Send \/ FinishSent
              \/ FinishUncertain

ReaderNext ==
    \/ \E s \in Scopes : Start(s)
    \/ Poll
    \/ PollFails
    \/ ResetOffset
    \/ Handle
    \/ Exit
    \/ \E u \in Updates : Arrive(u)
    \/ SetPolicy
    \/ Tick

ReaderSpec == ReaderInit /\ [][ReaderNext]_readerVars

-----------------------------------------------------------------------------
(* Properties.                                                             *)

\* The disposition of an update is durable before the cursor passes it: what
\* Telegram has forgotten has a receipt.
NoUpdateLost == \A u \in arrived \ queue : phase[u] # "none"

\* A stored reply that a crash left behind does not leave later than its
\* command is good for, nor under other projects than it was prepared for.
StaleReplyStays ==
    \A u \in Updates : claimed[u] # NoClaim =>
        claimed[u].at <= Window /\ claimed[u].scope = scopeOf[u]

\* What the process relies on.  Inductive, with the properties above.
\* Updates arrive in order; what is below the offset, or below what is left of
\* the last answer, has a receipt.
OrderInv ==
    /\ \A u \in arrived, v \in Updates : v < u => v \in arrived
    /\ batch \subseteq arrived
    /\ \A u \in Updates : u < offset => u \in arrived /\ phase[u] # "none"
    /\ \A u \in arrived, v \in batch : u < v /\ u \notin batch => phase[u] # "none"

\* The receipt of the current update, by the place of the process.
PlaceInv ==
    /\ at = "answer" => phase[Current] = "received"
    /\ at \in {"check", "claim"} => phase[Current] = "ready"
    /\ at \in {"send", "finish"} => phase[Current] = "sending"

\* A message follows a claim, once, and is recorded as sent if it was delivered.
ReplyInv ==
    /\ \A u \in Updates : phase[u] = "none" => claimed[u] = NoClaim
    /\ \A u \in Updates : delivered[u] > 0 => phase[u] \in {"sending", "sent", "uncertain"}
    /\ \A u \in Updates : phase[u] = "sent" => delivered[u] > 0
    /\ at = "send" => delivered[Current] = 0
    /\ heard => at = "finish" /\ delivered[Current] > 0

ReaderInv == NoUpdateLost /\ StaleReplyStays /\ OrderInv /\ PlaceInv /\ ReplyInv

\* The journal implements the contract of ReplyContract.
RecordOf(p) ==
    CASE p \in {"none", "received", "ready"} -> "open"
      [] p \in {"ignored", "expired"}        -> "closed"
      [] p = "sending"                       -> "claimed"
      [] OTHER                               -> p

Record == [u \in Updates |-> RecordOf(phase[u])]
Got    == [u \in Updates |-> delivered[u] > 0]

Contract == INSTANCE ReplyContract WITH record <- Record, delivered <- Got

\* Every step of the poller is a step of the contract or invisible to it: one
\* claim for a command, a delivery only under its claim, sent only for a
\* delivered reply and no way back from uncertainty.
KeepsContract == Contract!ContractSpec

=============================================================================
