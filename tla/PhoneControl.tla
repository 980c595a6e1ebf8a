---------------------------- MODULE PhoneControl ----------------------------
(***************************************************************************)
(* Phone control: the owner's updates, the one-time actions they open and  *)
(* answer, and the effects of those actions on tasks, attempts and         *)
(* approvals.                                                              *)
(*                                                                         *)
(* An update may be handed to the backend again at any time, also while    *)
(* the first copy is still being handled: the gateway gives up after 30    *)
(* seconds, exits, and a new one polls from zero.  The backend may die     *)
(* between any two transactions.  The delivery of a message is one step    *)
(* here; PhoneOutbox has its own steps.                                    *)
(***************************************************************************)
EXTENDS Naturals, FiniteSets, FiniteSetsExt

CONSTANTS
    Updates,          \* update identities, 1, 2, ...
    Handlers,         \* concurrent POST /api/phone/updates requests
    MaxTokens,        \* bound: actions
    MaxOpens,         \* bound: updates that open something
    Opens,            \* what the owner may open: a prompt, an attempt, an approval
    Texts,            \* the requests an owner may write, by hash
    Decisions,        \* the decisions an approval may get
    Approval,         \* the pending approval of one task
    Attempt,          \* the active native attempt of another
    None,
    Ttl,              \* two minutes, on the model's clock
    ApprovalExpires,  \* when the approval expires
    MaxClock          \* bound: the clock

Tokens   == 1..MaxTokens
Subjects == Tokens \cup {Approval, Attempt}
Kinds    == {"compose", "submit", "cancel", "decision"}
Chosen   == {"confirm", "discard"} \cup Texts \cup Decisions

\* What an update says: open a prompt or a task, answer a prompt, press a button.
Content == [kind: {"open"}, token: {0}, choice: Opens]
               \cup [kind: {"reply"}, token: Tokens, choice: Texts]
               \cup [kind: {"press"}, token: Tokens, choice: {"confirm", "discard"} \cup Decisions]

Action   == [kind: Kinds, subject: Subjects \cup {None}, from: Tokens \cup {0}, phase: {"ready", "running", "done"},
             choice: Chosen \cup {None}, expires: Nat,
             shown: {"ready", "sent", "uncertain", "dropped"}]
Effect   == [choice: {"confirm"} \cup Decisions, actor: {"phone", "local"}, at: Nat, token: Tokens \cup {0}]
Idle     == [at |-> "idle", update |-> 0, now |-> 0]
Handler  == [at: {"idle", "begin", "describe", "store", "act", "decide", "finish"},
             update: Updates \cup {0}, now: Nat]

ASSUME PhoneAssumption ==
    /\ Updates \subseteq Nat
    /\ MaxTokens \in Nat
    /\ MaxOpens \in Nat
    /\ Opens \subseteq {"compose", "cancel", "decision"}
    /\ Ttl \in Nat
    /\ ApprovalExpires \in Nat
    /\ MaxClock \in Nat
    /\ Approval # Attempt
    /\ Approval \notin Nat /\ Attempt \notin Nat
    /\ {"confirm", "discard"} \cap (Texts \cup Decisions) = {}
    /\ None \notin Chosen \cup Action \cup Effect

VARIABLES
    clock,
    content,   \* what each update says, None before it is sent
    receipt,   \* remote_receipts.phase
    action,    \* phone_actions, with the phase of its message in phone_outbox
    effect,    \* the task created, the cancellation requested, the approval decided
    settled,   \* the attempt is settled
    handler,   \* the requests in flight
    effects    \* history: effects the phone had on a subject

vars == <<clock, content, receipt, action, effect, settled, handler, effects>>

TypeOK ==
    /\ clock \in 0..MaxClock
    /\ content \in [Updates -> Content \cup {None}]
    /\ receipt \in [Updates -> {"none", "received", "done"}]
    /\ action \in [Tokens -> Action \cup {None}]
    /\ effect \in [Subjects -> Effect \cup {None}]
    /\ settled \in BOOLEAN
    /\ handler \in [Handlers -> Handler]
    /\ effects \in [Subjects -> Nat]
    /\ \A t \in Tokens : action[t] # None =>
           (action[t].phase = "ready" <=> action[t].choice = None)

Init ==
    /\ clock = 0
    /\ content = [u \in Updates |-> None]
    /\ receipt = [u \in Updates |-> "none"]
    /\ action = [t \in Tokens |-> None]
    /\ effect = [s \in Subjects |-> None]
    /\ settled = FALSE
    /\ handler = [h \in Handlers |-> Idle]
    /\ effects = [s \in Subjects |-> 0]

Update(h)  == handler[h].update
Said(h)    == content[Update(h)]
Token(h)   == Said(h).token
Becomes(h, r)  == handler' = [handler EXCEPT ![h] = r]
Goes(h, place) == Becomes(h, [handler[h] EXCEPT !.at = place])
Answer(h)      == Becomes(h, Idle)

\* receipt_pending
Pending(u) == receipt[u] = "received"

\* complete_receipt, with the reply in the outbox if there is one.
Complete(u) == receipt' = [receipt EXCEPT ![u] = IF Pending(u) THEN "done" ELSE @]

\* add_action, queued with its message.
NewToken == Min({t \in Tokens : action[t] = None})
Added(kind, subject, from, expires) ==
    [kind |-> kind, subject |-> subject, from |-> from, phase |-> "ready", choice |-> None,
     expires |-> expires, shown |-> "ready"]

Done(t) == [action[t] EXCEPT !.phase = "done"]

SubjectOf(kind) == CASE kind = "cancel"   -> Attempt
                     [] kind = "decision" -> Approval
                     [] OTHER             -> None

-----------------------------------------------------------------------------
(* process                                                                 *)

\* RemoteJournal.receive: a copy goes on until the receipt is complete.
Receive(h, u) ==
    /\ handler[h] = Idle
    /\ content[u] # None
    /\ receipt[u] # "done"
    /\ receipt' = [receipt EXCEPT ![u] = "received"]
    /\ Becomes(h, [at |-> IF content[u].kind = "open" THEN "describe" ELSE "begin",
                   update |-> u, now |-> clock])
    /\ UNCHANGED <<settled, clock, content, action, effect, effects>>

\* owner_message: forwarded, edited, of another sender or too old.
Ignore(h) ==
    /\ handler[h].at \in {"begin", "describe"}
    /\ Complete(Update(h))
    /\ Answer(h)
    /\ UNCHANGED <<settled, clock, content, action, effect, effects>>

\* An attempt that is not settled, an approval that is pending.  Anything else
\* is answered without an action, as Fail is.
Openable(h) ==
    /\ Said(h).choice = "cancel" => ~settled
    /\ Said(h).choice = "decision" => effect[Approval] = None /\ handler[h].now < ApprovalExpires

\* An action expires with its approval.
Expires(h) ==
    IF Said(h).choice = "decision"
    THEN Min({handler[h].now + Ttl, ApprovalExpires})
    ELSE handler[h].now + Ttl

\* describe without an await, and the transaction of process.
StoreOpened(h) ==
    /\ handler[h].at = "describe"
    /\ Openable(h)
    /\ Pending(Update(h))
    /\ \E t \in Tokens : action[t] = None
    /\ action' = [action EXCEPT ![NewToken] =
           Added(Said(h).choice, SubjectOf(Said(h).choice), 0, Expires(h))]
    /\ Complete(Update(h))
    /\ Answer(h)
    /\ UNCHANGED <<settled, clock, content, effect, effects>>

-----------------------------------------------------------------------------
(* PhoneStore.begin                                                        *)

\* A press is timed when it begins, an answer when its update was received.
Arrived(h) == IF Said(h).kind = "reply" THEN handler[h].now ELSE clock

\* In time, or the choice that is recorded already.
Accepted(h) ==
    IF action[Token(h)].phase = "ready"
    THEN Arrived(h) < action[Token(h)].expires
    ELSE action[Token(h)].choice = Said(h).choice

\* Fault: an uncertain delivery counts.
Displayed_Uncertain(t) == action[t].shown \in {"sent", "uncertain"}

\* Every part of the message is known to be delivered.
Displayed(t) == action[t].shown = "sent"

\* The first choice is recorded before anything is done about it.
Record(h) == [action[Token(h)] EXCEPT !.phase = IF @ = "ready" THEN "running" ELSE @,
                                      !.choice = Said(h).choice]

Begin(h) ==
    /\ handler[h].at = "begin"
    /\ Displayed(Token(h))
    /\ Accepted(h)
    /\ action' = [action EXCEPT ![Token(h)] = Record(h)]
    /\ UNCHANGED <<settled, clock, content, receipt, effect, effects>>

\* The answer to a prompt, which must not be used up or expired.
BeginReply(h) ==
    /\ Begin(h)
    /\ Said(h).kind = "reply"
    /\ action[Token(h)].phase # "done"
    /\ handler[h].now < action[Token(h)].expires
    /\ Goes(h, "store")

BeginPress(h) ==
    /\ Begin(h)
    /\ Said(h).kind = "press"
    /\ Goes(h, "act")

\* Fault: the transaction does not look at the prompt again.
PromptUsed_Unchecked(h) == FALSE

\* By now another copy or another answer used the prompt up.
PromptUsed(h) == action[Token(h)].phase = "done"

\* The task is prepared, after an await, and stored as a new action.
StorePrepared(h) ==
    /\ handler[h].at = "store"
    /\ IF ~Pending(Update(h)) \/ PromptUsed(h)
       THEN UNCHANGED action /\ Complete(Update(h))
       ELSE /\ \E t \in Tokens : action[t] = None
            /\ action' = [action EXCEPT ![Token(h)] = Done(Token(h)),
                   ![NewToken] = Added("submit", NewToken, Token(h), handler[h].now + Ttl)]
            /\ Complete(Update(h))
    /\ Answer(h)
    /\ UNCHANGED <<settled, clock, content, effect, effects>>

-----------------------------------------------------------------------------
(* perform                                                                 *)

Subject(h) == action[Token(h)].subject

\* Fault: an action that has begun counts as done.
Spent_Begun(h) == action[Token(h)].phase # "ready" \/ Said(h).choice = "discard"

\* Nothing is left to do: the action is done, or it is to be discarded.
Spent(h) == action[Token(h)].phase = "done" \/ Said(h).choice = "discard"

\* The effect takes place.
Affect(h) ==
    /\ effect' = [effect EXCEPT ![Subject(h)] =
           [choice |-> Said(h).choice, actor |-> "phone", at |-> clock, token |-> Token(h)]]
    /\ effects' = [effects EXCEPT ![Subject(h)] = @ + 1]

Skip(h) ==
    /\ handler[h].at = "act"
    /\ Spent(h)
    /\ Goes(h, "finish")
    /\ UNCHANGED <<settled, clock, content, receipt, action, effect, effects>>

\* Fault: an effect that is on record is repeated.
Happened_Unchecked(h) == FALSE

\* The task exists, the cancellation is requested, the approval decided.
Happened(h) == effect[Subject(h)] # None

\* What has not happened yet must not happen after the action expired.
Timely(h) == clock < action[Token(h)].expires

\* commit_prepared, or the cancellation of the attempt unless it is settled.
Confirm(h) ==
    /\ handler[h].at = "act"
    /\ ~Spent(h)
    /\ action[Token(h)].kind \in {"submit", "cancel"}
    /\ Happened(h) \/ Timely(h)
    /\ IF Happened(h) \/ (Subject(h) = Attempt /\ settled)
       THEN UNCHANGED <<effect, effects>>
       ELSE Affect(h)
    /\ Goes(h, "finish")
    /\ UNCHANGED <<settled, clock, content, receipt, action>>

\* perform finds the approval undecided in time, or decided, and calls decide.
Decide(h) ==
    /\ handler[h].at = "act"
    /\ ~Spent(h)
    /\ action[Token(h)].kind = "decision"
    /\ Happened(h) \/ Timely(h)
    /\ Goes(h, "decide")
    /\ UNCHANGED <<settled, clock, content, receipt, action, effect, effects>>

\* Fault: the approval's expiry is not read again.
Unexpired_Always == TRUE

\* The approval's own expiry, read in the transaction.
Unexpired == clock < ApprovalExpires

\* ApprovalWorkflowRepository.resolve, after the await of the live diff.
Resolve(h) ==
    /\ handler[h].at = "decide"
    /\ IF Happened(h)
       THEN /\ effect[Approval].actor = "phone"
            /\ effect[Approval].choice = Said(h).choice
            /\ UNCHANGED <<effect, effects>>
       ELSE Unexpired /\ Affect(h)
    /\ Goes(h, "finish")
    /\ UNCHANGED <<settled, clock, content, receipt, action>>

\* finish_action with the reply and the receipt, in one transaction.
Finish(h) ==
    /\ handler[h].at = "finish"
    /\ action' = [action EXCEPT ![Token(h)] = Done(Token(h))]
    /\ Complete(Update(h))
    /\ Answer(h)
    /\ UNCHANGED <<settled, clock, content, effect, effects>>

\* Any error ends in an apology, if the update is still unanswered.
Fail(h) ==
    /\ handler[h] # Idle
    /\ Complete(Update(h))
    /\ Answer(h)
    /\ UNCHANGED <<settled, clock, content, action, effect, effects>>

-----------------------------------------------------------------------------
(* The environment.                                                        *)

\* The owner opens something, answers a prompt or presses a button of a
\* message that arrived, acknowledged or not.
Visible == {t \in Tokens : action[t] # None /\ action[t].shown \in {"sent", "uncertain"}}

Buttons(kind) ==
    CASE kind \in {"submit", "cancel"} -> {"confirm", "discard"}
      [] kind = "decision"             -> Decisions
      [] OTHER                         -> {}

Opening(u) == content[u] # None /\ content[u].kind = "open"

Send(u, c) ==
    /\ content[u] = None
    /\ \A v \in Updates : v < u => content[v] # None
    /\ \/ c.kind = "open" /\ Cardinality({v \in Updates : Opening(v)}) < MaxOpens
       \/ c.kind = "reply" /\ c.token \in Visible /\ action[c.token].kind = "compose"
       \/ c.kind = "press" /\ c.token \in Visible /\ c.choice \in Buttons(action[c.token].kind)
    /\ content' = [content EXCEPT ![u] = c]
    /\ UNCHANGED <<clock, receipt, action, effect, settled, handler, effects>>

\* What the outbox does with the message of an action.
Deliver(t, phase) ==
    /\ action[t] # None
    /\ action[t].shown = "ready"
    /\ action' = [action EXCEPT ![t] = [action[t] EXCEPT !.shown = phase]]
    /\ UNCHANGED <<settled, clock, content, receipt, effect, handler, effects>>

\* Somebody at the Mac decides, or cancels before the attempt settles.
ActLocally(s, d) ==
    /\ s \in {SubjectOf(kind) : kind \in Opens}
    /\ effect[s] = None
    /\ d \in IF s = Approval THEN Decisions ELSE {"confirm"}
    /\ IF s = Approval THEN Unexpired ELSE ~settled
    /\ effect' = [effect EXCEPT ![s] = [choice |-> d, actor |-> "local", at |-> clock, token |-> 0]]
    /\ UNCHANGED <<settled, clock, content, receipt, action, handler, effects>>

\* The run ends by itself or because it was cancelled.
Settle ==
    /\ "cancel" \in Opens
    /\ ~settled
    /\ settled' = TRUE
    /\ UNCHANGED <<clock, content, receipt, action, effect, handler, effects>>

\* The backend dies, or an error that process does not catch ends the request.
Abandon(h) ==
    /\ handler[h] # Idle
    /\ Answer(h)
    /\ UNCHANGED <<settled, clock, content, receipt, action, effect, effects>>

Tick ==
    /\ clock < MaxClock
    /\ clock' = clock + 1
    /\ UNCHANGED <<content, receipt, action, effect, settled, handler, effects>>

-----------------------------------------------------------------------------
Step(h) ==
    \/ \E u \in Updates : Receive(h, u)
    \/ Ignore(h) \/ StoreOpened(h)
    \/ BeginReply(h) \/ BeginPress(h) \/ StorePrepared(h)
    \/ Skip(h) \/ Confirm(h) \/ Decide(h) \/ Resolve(h) \/ Finish(h)
    \/ Fail(h) \/ Abandon(h)

Next ==
    \/ \E h \in Handlers : Step(h)
    \/ \E u \in Updates, c \in Content : Send(u, c)
    \/ \E t \in Tokens, phase \in {"sent", "uncertain", "dropped"} : Deliver(t, phase)
    \/ \E s \in {Approval, Attempt}, d \in Decisions \cup {"confirm"} : ActLocally(s, d)
    \/ Settle
    \/ Tick

Spec == Init /\ [][Next]_vars

-----------------------------------------------------------------------------
(* Properties.                                                             *)

\* A prompt yields one prepared task, although several answers, or several
\* copies of one, may be waiting for their preparation at the same time.
PromptUsedOnce ==
    \A s, t \in Tokens :
        /\ action[s] # None /\ action[t] # None
        /\ action[s].from = action[t].from /\ action[s].from # 0
        => s = t

\* A task is created, an attempt cancelled and an approval decided at most once
\* by the phone, over redelivered updates, repeated presses and crashes between
\* the effect and its record.
EffectOnce == \A s \in Subjects : effects[s] <= 1

\* What happened is the owner's first choice on a message known to be delivered
\* in full: a discarded action never has its effect.
EffectWasChosen ==
    \A s \in Subjects : effect[s] # None /\ effect[s].actor = "phone" =>
        LET a == action[effect[s].token]
        IN  a.choice = effect[s].choice /\ a.shown = "sent"

\* An effect takes place before its confirmation expires, a decision before its
\* approval does, however late the update or its retry is handled.
EffectInTime ==
    \A s \in Subjects : effect[s] # None /\ effect[s].actor = "phone" =>
        effect[s].at < IF s = Approval THEN ApprovalExpires ELSE action[effect[s].token].expires

\* The choice of an action had its effect, unless it was to discard it.
Outcome(t) ==
    LET e == effect[action[t].subject]
    IN  \/ action[t].choice = "discard"
        \/ e # None /\ e.choice = action[t].choice
        \/ action[t].kind = "cancel" /\ settled

\* The recorded outcome is true: an action that is done without being discarded
\* had its effect, by this or by an equal choice, or came too late to cancel.
OutcomeIsTrue ==
    \A t \in Tokens :
        /\ action[t] # None
        /\ action[t].kind # "compose"
        /\ action[t].phase = "done"
        => Outcome(t)

-----------------------------------------------------------------------------
(* The inductive invariant behind them.                                    *)

\* The owner answers prompts and presses the buttons of actions that exist.
Answers(u) ==
    content[u] # None /\ content[u].kind # "open" =>
        LET a == action[content[u].token]
        IN  /\ a # None
            /\ IF content[u].kind = "reply"
               THEN a.kind = "compose"
               ELSE content[u].choice \in Buttons(a.kind)

\* A request handles an update that was sent, and beyond its beginning a choice
\* that is on record, of a message that was delivered.  It finishes an action
\* that has its outcome.
Recorded(t, choice) ==
    action[t].phase # "ready" /\ action[t].choice = choice /\ action[t].shown = "sent"

Handles(h) ==
    LET place == handler[h].at
    IN  place # "idle" =>
            /\ Update(h) \in Updates
            /\ Said(h) # None
            /\ place = "describe" => Said(h).kind = "open"
            /\ place = "begin" => Said(h).kind # "open"
            /\ place = "store" => Said(h).kind = "reply"
            /\ place \in {"act", "decide", "finish"} => Said(h).kind = "press"
            /\ place \in {"store", "act", "decide", "finish"} => Recorded(Token(h), Said(h).choice)
            /\ place = "decide" => action[Token(h)].kind = "decision"
            /\ place = "finish" => Outcome(Token(h))

\* A prepared task is its own subject and comes from a prompt that is used up.
Prepared(t) ==
    action[t] # None =>
        IF action[t].kind = "submit"
        THEN LET prompt == action[t].from
             IN  /\ action[t].subject = t
                 /\ prompt \in Tokens
                 /\ action[prompt] # None
                 /\ action[prompt].kind = "compose"
                 /\ action[prompt].phase = "done"
        ELSE action[t].subject = SubjectOf(action[t].kind) /\ action[t].from = 0

\* An effect that was counted is on record, with the action it is of if it was
\* the phone's; only an approval may be decided in more than one way.
OnRecord(s) ==
    /\ effects[s] # 0 => effect[s] # None
    /\ effect[s] # None =>
           /\ s # Approval => effect[s].choice = "confirm"
           /\ effect[s].actor = "phone" => effect[s].token \in Tokens /\ action[effect[s].token] # None

PhoneInv ==
    /\ TypeOK
    /\ \A u \in Updates : Answers(u)
    /\ \A h \in Handlers : Handles(h)
    /\ \A t \in Tokens : Prepared(t)
    /\ \A s \in Subjects : OnRecord(s)
    /\ PromptUsedOnce
    /\ EffectOnce
    /\ EffectWasChosen
    /\ EffectInTime
    /\ OutcomeIsTrue

=============================================================================
