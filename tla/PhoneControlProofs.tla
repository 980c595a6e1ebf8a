-------------------------- MODULE PhoneControlProofs --------------------------
(* Proofs about phone control, for any numbers of updates, requests and    *)
(* actions.                                                                *)
EXTENDS PhoneControl, WellFoundedInduction, TLAPS

-----------------------------------------------------------------------------
(* Operators.                                                              *)

\* A set of natural numbers that is not empty has a first element.
LEMMA MinIsFirst ==
    ASSUME NEW S, S \subseteq Nat, S # {}
    PROVE  Min(S) \in S /\ \A q \in S : Min(S) <= q
<1> DEFINE R == OpToRel(<, Nat)
<1>1. IsWellFoundedOn(R, Nat)
  BY NatLessThanWellFounded
<1>2. \A i, j \in Nat : i < j => <<i, j>> \in R
  BY DEF OpToRel
<1> HIDE DEF R
<1>3. PICK m \in S : \A q \in S : <<q, m>> \notin R
  BY <1>1, WFMin
<1>4. ASSUME NEW q \in S
      PROVE  m <= q
  <2>1. m \in Nat /\ q \in Nat
    OBVIOUS
  <2>2. ~(q < m)
    BY <1>2, <1>3, <2>1
  <2> QED
    BY <2>1, <2>2
<1> QED
  BY <1>3, <1>4 DEF Min

\* What an update says, by its kind.
LEMMA ContentFields ==
    ASSUME NEW c \in Content
    PROVE  /\ c.kind \in {"open", "reply", "press"}
           /\ c.kind = "open" => c.choice \in Opens
           /\ c.kind # "open" => c.token \in Tokens
           /\ c.kind = "reply" => c.choice \in Texts
           /\ c.kind = "press" => c.choice \in {"confirm", "discard"} \cup Decisions
           /\ c.kind # "open" => c.choice \in Chosen
BY DEF Content, Chosen

\* A new action takes a place that no other has.
LEMMA NewTokenFree ==
    ASSUME \E t \in Tokens : action[t] = None
    PROVE  NewToken \in Tokens /\ action[NewToken] = None
<1> DEFINE free == {t \in Tokens : action[t] = None}
<1>1. free \subseteq Nat /\ free # {}
  BY PhoneAssumption DEF Tokens
<1>2. NewToken = Min(free)
  BY DEF NewToken
<1>3. NewToken \in free
  BY <1>1, <1>2, MinIsFirst
<1> QED
  BY <1>3

\* The subject of an action that is not a prompt.
LEMMA SubjectIs ==
    ASSUME PhoneInv, NEW t \in Tokens, action[t] # None
    PROVE  /\ action[t] \in Action
           /\ action[t].kind # "compose" => action[t].subject \in Subjects
           /\ action[t].kind \in {"submit", "cancel"} => action[t].subject # Approval
           /\ action[t].kind = "decision" => action[t].subject = Approval
<1>1. action[t] \in Action /\ Prepared(t)
  BY DEF PhoneInv, TypeOK
<1>2. action[t].kind \in Kinds
  BY <1>1 DEF Action
<1>3. t # Approval
  BY PhoneAssumption DEF Tokens
<1>4. CASE action[t].kind = "submit"
  BY <1>1, <1>3, <1>4 DEF Prepared, Subjects
<1>5. CASE action[t].kind # "submit"
  <2>1. action[t].subject = SubjectOf(action[t].kind)
    BY <1>1, <1>5 DEF Prepared
  <2>2. /\ SubjectOf("cancel") = Attempt
        /\ SubjectOf("decision") = Approval
    BY DEF SubjectOf
  <2> QED
    BY <1>1, <1>2, <1>5, <2>1, <2>2, PhoneAssumption DEF Kinds, Subjects
<1> QED
  BY <1>4, <1>5

\* A prompt has no buttons.
LEMMA ButtonsOf ==
    /\ Buttons("compose") = {}
    /\ \A kind \in {"submit", "cancel"} : Buttons(kind) = {"confirm", "discard"}
    /\ Buttons("decision") = Decisions
BY DEF Buttons

\* The action that a request is about.
LEMMA TokenIs ==
    ASSUME PhoneInv, NEW h \in Handlers, handler[h].at # "idle", Said(h).kind # "open"
    PROVE  /\ Update(h) \in Updates /\ Said(h) \in Content
           /\ Token(h) \in Tokens /\ action[Token(h)] # None
           /\ action[Token(h)] \in Action
           /\ Said(h).choice \in Chosen
           /\ Said(h).kind = "reply" => action[Token(h)].kind = "compose"
           /\ Said(h).kind = "press" => /\ action[Token(h)].kind # "compose"
                                        /\ Said(h).choice \in Buttons(action[Token(h)].kind)
<1>1. Update(h) \in Updates /\ Said(h) # None
  BY DEF PhoneInv, Handles
<1>2. Said(h) \in Content /\ Answers(Update(h))
  BY <1>1 DEF PhoneInv, TypeOK, Said
<1>3. Token(h) \in Tokens /\ Said(h).choice \in Chosen
  BY <1>2, ContentFields DEF Token
<1>4. /\ action[Token(h)] # None
      /\ Said(h).kind = "reply" => action[Token(h)].kind = "compose"
      /\ Said(h).kind # "reply" => Said(h).choice \in Buttons(action[Token(h)].kind)
  BY <1>1, <1>2 DEF Answers, Said, Token
<1>5. action[Token(h)] \in Action
  BY <1>3, <1>4 DEF PhoneInv, TypeOK
<1> QED
  BY <1>1, <1>2, <1>3, <1>4, <1>5, ButtonsOf

-----------------------------------------------------------------------------
(* What no step undoes.                                                    *)

\* An action stays, with its subject, its expiry, the first choice that is
\* recorded and what became of its message.
Kept(t) ==
    /\ action'[t] # None
    /\ action'[t].kind = action[t].kind
    /\ action'[t].subject = action[t].subject
    /\ action'[t].from = action[t].from
    /\ action'[t].expires = action[t].expires
    /\ action[t].phase # "ready" => action'[t].phase # "ready" /\ action'[t].choice = action[t].choice
    /\ action[t].phase = "done" => action'[t].phase = "done"
    /\ action[t].shown # "ready" => action'[t].shown = action[t].shown

\* Actions, effects and updates stay.
Grows ==
    /\ \A t \in Tokens : action[t] # None => Kept(t)
    /\ \A s \in Subjects : effect[s] # None => effect'[s] = effect[s]
    /\ \A u \in Updates : content[u] # None => content'[u] = content[u]
    /\ settled => settled'

\* An effect that is new, of an action in time and with the choice on record.
NewEffect(s) ==
    /\ effect'[s] # None
    /\ effects'[s] <= 1
    /\ s # Approval => effect'[s].choice = "confirm"
    /\ effect'[s].actor = "phone" =>
           LET t == effect'[s].token
           IN  /\ t \in Tokens
               /\ action[t] # None
               /\ Recorded(t, effect'[s].choice)
               /\ effect'[s].at < IF s = Approval THEN ApprovalExpires ELSE action[t].expires

\* An outcome stays.
LEMMA OutcomeKept ==
    ASSUME PhoneInv, Grows, NEW t \in Tokens, action[t] # None, action[t].kind # "compose",
           action[t].phase # "ready", Outcome(t)
    PROVE  Outcome(t)'
<1>1. action[t].subject \in Subjects
  BY SubjectIs
<1>2. /\ action'[t].subject = action[t].subject
      /\ action'[t].kind = action[t].kind
      /\ action'[t].choice = action[t].choice
  BY DEF Grows, Kept
<1>3. effect[action[t].subject] # None => effect'[action[t].subject] = effect[action[t].subject]
  BY <1>1 DEF Grows
<1> QED
  BY <1>2, <1>3 DEF Outcome, Grows

\* What is on record stays.
LEMMA RecordedKept ==
    ASSUME Grows, NEW t \in Tokens, action[t] # None, NEW choice, Recorded(t, choice)
    PROVE  action'[t].phase # "ready" /\ action'[t].choice = choice /\ action'[t].shown = "sent"
BY DEF Grows, Kept, Recorded

\* What a step has to show of what it adds.
LEMMA GrowthKeeps ==
    ASSUME PhoneInv, Grows, TypeOK', PromptUsedOnce',
           \A u \in Updates : content[u] # None \/ Answers(u)',
           \A h \in Handlers : handler'[h] = handler[h] \/ Handles(h)',
           \A t \in Tokens : \/ action[t] # None
                             \/ action'[t] = None
                             \/ Prepared(t)' /\ action'[t].phase = "ready",
           \A s \in Subjects : \/ effect'[s] = effect[s] /\ effects'[s] = effects[s]
                               \/ NewEffect(s),
           \A t \in Tokens :
               action[t] # None /\ action[t].phase # "done" /\ action'[t].phase = "done" =>
                   action[t].kind = "compose" \/ Outcome(t)'
    PROVE  PhoneInv'
<1>1. \A u \in Updates : Answers(u)'
  <2> SUFFICES ASSUME NEW u \in Updates, content[u] # None
               PROVE  Answers(u)'
    OBVIOUS
  <2>1. Answers(u) /\ content'[u] = content[u] /\ content[u] \in Content
    BY DEF PhoneInv, TypeOK, Grows
  <2>2. content[u].kind # "open" => content[u].token \in Tokens
    BY <2>1, ContentFields
  <2> QED
    BY <2>1, <2>2 DEF Answers, Grows, Kept
<1>2. \A h \in Handlers : Handles(h)'
  <2> SUFFICES ASSUME NEW h \in Handlers, handler'[h] = handler[h], handler[h].at # "idle"
               PROVE  Handles(h)'
    BY DEF Handles
  <2>1. Handles(h) /\ Update(h) \in Updates /\ Said(h) # None
    BY DEF PhoneInv, Handles
  <2>2. Update(h)' = Update(h) /\ Said(h)' = Said(h) /\ Token(h)' = Token(h)
    BY <2>1 DEF Update, Said, Token, Grows
  <2>3. ASSUME Said(h).kind # "open"
        PROVE  /\ Recorded(Token(h), Said(h).choice) =>
                      Recorded(Token(h), Said(h).choice)'
               /\ action'[Token(h)].kind = action[Token(h)].kind
    <3>1. Token(h) \in Tokens /\ action[Token(h)] # None
      BY <2>3, TokenIs
    <3> QED
      BY <2>2, <3>1, RecordedKept DEF Recorded, Grows, Kept
  <2>4. handler[h].at = "finish" => Outcome(Token(h))'
    <3>1. SUFFICES ASSUME handler[h].at = "finish"
                   PROVE  Outcome(Token(h))'
      OBVIOUS
    <3>2. Said(h).kind = "press" /\ Outcome(Token(h)) /\ Recorded(Token(h), Said(h).choice)
      BY <2>1, <3>1 DEF Handles
    <3>3. Token(h) \in Tokens /\ action[Token(h)] # None /\ action[Token(h)].kind # "compose"
      BY <3>2, TokenIs
    <3>4. PICK t \in Tokens : t = Token(h)
      BY <3>3
    <3>5. Outcome(t)'
      BY <3>2, <3>3, <3>4, OutcomeKept DEF Recorded
    <3> QED
      BY <2>2, <3>4, <3>5
  <2> QED
    BY <2>1, <2>2, <2>3, <2>4 DEF Handles
<1>3. \A t \in Tokens : Prepared(t)'
  <2> SUFFICES ASSUME NEW t \in Tokens, action[t] # None
               PROVE  Prepared(t)'
    BY DEF Prepared
  <2>1. Prepared(t) /\ Kept(t)
    BY DEF PhoneInv, Grows
  <2> QED
    BY <2>1 DEF Prepared, Grows, Kept
<1>4. ASSUME NEW s \in Subjects
      PROVE  /\ OnRecord(s)' /\ effects'[s] <= 1
             /\ effect'[s] # None /\ effect'[s].actor = "phone" =>
                    /\ action'[effect'[s].token].choice = effect'[s].choice
                    /\ action'[effect'[s].token].shown = "sent"
                    /\ effect'[s].at < IF s = Approval THEN ApprovalExpires
                                       ELSE action'[effect'[s].token].expires
  <2>1. CASE NewEffect(s)
    <3>1. /\ effect'[s] # None /\ effects'[s] <= 1
          /\ s # Approval => effect'[s].choice = "confirm"
      BY <2>1 DEF NewEffect
    <3>2. SUFFICES ASSUME effect'[s].actor = "phone"
                   PROVE  /\ effect'[s].token \in Tokens /\ action'[effect'[s].token] # None
                          /\ action'[effect'[s].token].choice = effect'[s].choice
                          /\ action'[effect'[s].token].shown = "sent"
                          /\ effect'[s].at < IF s = Approval THEN ApprovalExpires
                                             ELSE action'[effect'[s].token].expires
      BY <3>1 DEF OnRecord
    <3> DEFINE t == effect'[s].token
    <3>3. /\ t \in Tokens /\ action[t] # None /\ Recorded(t, effect'[s].choice)
          /\ effect'[s].at < IF s = Approval THEN ApprovalExpires ELSE action[t].expires
      BY <2>1, <3>2 DEF NewEffect
    <3>4. Kept(t)
      BY <3>3 DEF Grows
    <3> HIDE DEF t
    <3>5. /\ action'[t] # None /\ action'[t].choice = effect'[s].choice
          /\ action'[t].shown = "sent" /\ action'[t].expires = action[t].expires
      BY <3>3, <3>4 DEF Recorded, Kept
    <3> QED
      BY <3>3, <3>5 DEF t
  <2>2. CASE effect'[s] = effect[s] /\ effects'[s] = effects[s]
    <3>1. OnRecord(s) /\ effects[s] <= 1
      BY DEF PhoneInv, EffectOnce
    <3>2. ASSUME effect[s] # None, effect[s].actor = "phone"
          PROVE  /\ action'[effect[s].token] # None
                 /\ action'[effect[s].token].choice = effect[s].choice
                 /\ action'[effect[s].token].shown = "sent"
                 /\ effect[s].at < IF s = Approval THEN ApprovalExpires
                                   ELSE action'[effect[s].token].expires
      <4> DEFINE t == effect[s].token
      <4>1. t \in Tokens /\ action[t] # None
        BY <3>1, <3>2 DEF OnRecord
      <4>2. /\ action[t].choice = effect[s].choice /\ action[t].shown = "sent"
            /\ effect[s].at < IF s = Approval THEN ApprovalExpires ELSE action[t].expires
        BY <3>2 DEF PhoneInv, EffectWasChosen, EffectInTime
      <4>3. effect[s] \in Effect /\ effect[s].choice # None
        <5>1. effect[s] \in Effect
          BY <3>2 DEF PhoneInv, TypeOK
        <5> QED
          BY <5>1, PhoneAssumption DEF Effect, Chosen
      <4>4. action[t].phase # "ready"
        BY <4>1, <4>2, <4>3 DEF PhoneInv, TypeOK
      <4>5. Kept(t)
        BY <4>1 DEF Grows
      <4> HIDE DEF t
      <4>6. /\ action'[t] # None /\ action'[t].choice = effect[s].choice
            /\ action'[t].shown = "sent" /\ action'[t].expires = action[t].expires
        BY <4>2, <4>4, <4>5 DEF Kept
      <4> QED
        BY <4>2, <4>6 DEF t
    <3> QED
      BY <2>2, <3>1, <3>2 DEF OnRecord
  <2> QED
    BY <2>1, <2>2
<1>5. OutcomeIsTrue'
  <2> SUFFICES ASSUME NEW t \in Tokens, action'[t] # None, action'[t].kind # "compose",
                      action'[t].phase = "done"
               PROVE  Outcome(t)'
    BY DEF OutcomeIsTrue
  <2>1. action[t] # None
    OBVIOUS
  <2>2. action[t].kind # "compose"
    BY <2>1 DEF Grows, Kept
  <2>3. CASE action[t].phase = "done"
    BY <2>1, <2>2, <2>3, OutcomeKept DEF PhoneInv, OutcomeIsTrue
  <2>4. CASE action[t].phase # "done"
    BY <2>1, <2>2, <2>4
  <2> QED
    BY <2>3, <2>4
<1>6. EffectOnce' /\ EffectWasChosen' /\ EffectInTime'
  <2>1. EffectOnce'
    BY <1>4 DEF EffectOnce
  <2>2. EffectWasChosen'
    BY <1>4 DEF EffectWasChosen
  <2>3. EffectInTime'
    BY <1>4 DEF EffectInTime
  <2> QED
    BY <2>1, <2>2, <2>3
<1>7. \A s \in Subjects : OnRecord(s)'
  BY <1>4
<1> QED
  BY <1>1, <1>2, <1>3, <1>5, <1>6, <1>7 DEF PhoneInv

-----------------------------------------------------------------------------
(* What the steps share.                                                   *)

\* A request that moves changes its own record only.
LEMMA BecomesOnly ==
    ASSUME TypeOK, NEW h \in Handlers, NEW r \in Handler, Becomes(h, r)
    PROVE  /\ handler' \in [Handlers -> Handler]
           /\ handler'[h] = r
           /\ \A g \in Handlers : g # h => handler'[g] = handler[g]
BY DEF TypeOK, Becomes

\* A request that goes on handles the same update.
LEMMA GoesOnly ==
    ASSUME TypeOK, NEW h \in Handlers,
           NEW place \in {"store", "act", "decide", "finish"}, Goes(h, place)
    PROVE  /\ handler' \in [Handlers -> Handler]
           /\ handler'[h].at = place /\ Update(h)' = Update(h) /\ handler'[h].now = handler[h].now
           /\ \A g \in Handlers : g # h => handler'[g] = handler[g]
<1> DEFINE r == [handler[h] EXCEPT !.at = place]
<1>1. handler[h] \in Handler
  BY DEF TypeOK
<1>2. r \in Handler /\ r.at = place /\ r.update = handler[h].update /\ r.now = handler[h].now
  BY <1>1 DEF Handler
<1> HIDE DEF r
<1> QED
  BY <1>2, BecomesOnly DEF Goes, Update, r

\* A request that is answered is idle again.
LEMMA AnswerOnly ==
    ASSUME TypeOK, NEW h \in Handlers, Answer(h)
    PROVE  /\ handler' \in [Handlers -> Handler]
           /\ handler'[h].at = "idle"
           /\ \A g \in Handlers : g # h => handler'[g] = handler[g]
<1>1. Idle \in Handler /\ Idle.at = "idle"
  BY DEF Idle, Handler
<1> QED
  BY <1>1, BecomesOnly DEF Answer

\* A receipt only completes.
LEMMA CompleteTyped ==
    ASSUME TypeOK, NEW u, Complete(u)
    PROVE  receipt' \in [Updates -> {"none", "received", "done"}]
BY DEF TypeOK, Complete, Pending

\* Prompts stay used once while no task is prepared.
LEMMA NoNewTask ==
    ASSUME PhoneInv, Grows,
           \A t \in Tokens : action[t] # None \/ action'[t] = None \/ action'[t].from = 0
    PROVE  PromptUsedOnce'
<1> SUFFICES ASSUME NEW s \in Tokens, NEW t \in Tokens, action'[s] # None, action'[t] # None,
                    action'[s].from = action'[t].from, action'[s].from # 0
             PROVE  s = t
  BY DEF PromptUsedOnce
<1>1. action[s] # None /\ action[t] # None
  OBVIOUS
<1>2. action[s].from = action'[s].from /\ action[t].from = action'[t].from
  BY <1>1 DEF Grows, Kept
<1> QED
  BY <1>1, <1>2 DEF PhoneInv, PromptUsedOnce

\* Nothing changes for the actions.
LEMMA ActionsSame ==
    ASSUME UNCHANGED action
    PROVE  /\ \A t \in Tokens : action[t] # None => Kept(t)
           /\ \A t \in Tokens : action[t] # None \/ action'[t] = None
           /\ \A t \in Tokens : action'[t].phase = "done" => action[t].phase = "done"
BY DEF Kept

\* A step that leaves the actions, the effects and the updates alone.
LEMMA HandlerKeeps ==
    ASSUME PhoneInv, UNCHANGED <<settled, content, action, effect, effects>>,
           clock' \in 0..MaxClock, receipt' \in [Updates -> {"none", "received", "done"}],
           handler' \in [Handlers -> Handler],
           \A h \in Handlers : handler'[h] = handler[h] \/ Handles(h)'
    PROVE  PhoneInv'
<1>1. Grows
  BY ActionsSame DEF Grows
<1>2. TypeOK'
  BY DEF PhoneInv, TypeOK
<1>3. PromptUsedOnce'
  BY DEF PhoneInv, PromptUsedOnce
<1>4. \A u \in Updates : content[u] # None \/ Answers(u)'
  BY DEF Answers
<1> QED
  BY <1>1, <1>2, <1>3, <1>4, ActionsSame, GrowthKeeps

\* What a request handles is kept by a step that only lets it go on.
LEMMA GoesOnHandles ==
    ASSUME PhoneInv, NEW h \in Handlers, handler[h].at # "idle", Said(h).kind = "press",
           NEW place \in {"act", "decide", "finish"}, Goes(h, place), UNCHANGED content,
           Recorded(Token(h), Said(h).choice)',
           place = "decide" => action'[Token(h)].kind = "decision",
           place = "finish" => Outcome(Token(h))'
    PROVE  Handles(h)'
<1>1. handler'[h].at = place /\ Update(h)' = Update(h)
  BY GoesOnly DEF PhoneInv
<1>2. Update(h) \in Updates /\ Said(h) # None
  BY DEF PhoneInv, Handles
<1>3. Said(h)' = Said(h) /\ Token(h)' = Token(h)
  BY <1>1 DEF Said, Token
<1> QED
  BY <1>1, <1>2, <1>3 DEF Handles

-----------------------------------------------------------------------------
(* The steps of a request: before its action begins.                       *)

\* An update that was sent is received, or one that was not handled to its end.
LEMMA ReceiveKeeps ==
    ASSUME PhoneInv, NEW h \in Handlers, NEW u \in Updates, Receive(h, u)
    PROVE  PhoneInv'
<1>0. TypeOK /\ clock \in Nat /\ content[u] \in Content
  BY PhoneAssumption DEF PhoneInv, TypeOK, Receive
<1> DEFINE r == [at |-> IF content[u].kind = "open" THEN "describe" ELSE "begin",
                 update |-> u, now |-> clock]
<1>1. /\ r \in Handler /\ r.update = u
      /\ r.at = IF content[u].kind = "open" THEN "describe" ELSE "begin"
  BY <1>0 DEF Handler
<1> HIDE DEF r
<1>2. /\ handler' \in [Handlers -> Handler] /\ handler'[h] = r
      /\ \A g \in Handlers : g # h => handler'[g] = handler[g]
  BY <1>0, <1>1, BecomesOnly DEF Receive, r
<1>3. Handles(h)'
  <2>1. Update(h)' = u /\ Said(h)' = content[u] /\ content[u] # None
    BY <1>1, <1>2 DEF Receive, Update, Said
  <2> QED
    BY <1>1, <1>2, <2>1 DEF Handles
<1>4. receipt' \in [Updates -> {"none", "received", "done"}]
  BY <1>0 DEF Receive, TypeOK
<1>5. clock' \in 0..MaxClock /\ UNCHANGED <<settled, content, action, effect, effects>>
  BY <1>0 DEF Receive, TypeOK
<1> QED
  BY <1>2, <1>3, <1>4, <1>5, HandlerKeeps

\* A request that is answered without more leaves everything as it is.
LEMMA AnswersKeep ==
    ASSUME PhoneInv, NEW h \in Handlers, Ignore(h) \/ Fail(h) \/ Abandon(h)
    PROVE  PhoneInv'
<1>0. /\ TypeOK /\ Answer(h) /\ UNCHANGED <<clock, settled, content, action, effect, effects>>
      /\ UNCHANGED receipt \/ Complete(Update(h))
  BY DEF PhoneInv, Ignore, Fail, Abandon
<1>1. receipt' \in [Updates -> {"none", "received", "done"}] /\ clock' \in 0..MaxClock
  BY <1>0, CompleteTyped DEF TypeOK
<1>2. /\ handler' \in [Handlers -> Handler] /\ handler'[h].at = "idle"
      /\ \A g \in Handlers : g # h => handler'[g] = handler[g]
  BY <1>0, AnswerOnly
<1>3. Handles(h)'
  BY <1>2 DEF Handles
<1> QED
  BY <1>0, <1>1, <1>2, <1>3, HandlerKeeps

\* A new action, with nothing recorded and its message not yet delivered.
LEMMA AddedTyped ==
    ASSUME NEW kind \in Kinds, NEW subject \in Subjects \cup {None}, NEW from \in Tokens \cup {0},
           NEW expires \in Nat
    PROVE  LET a == Added(kind, subject, from, expires)
           IN  /\ a \in Action /\ a # None
               /\ a.kind = kind /\ a.subject = subject /\ a.from = from /\ a.expires = expires
               /\ a.phase = "ready" /\ a.choice = None /\ a.shown = "ready"
<1> DEFINE a == Added(kind, subject, from, expires)
<1>1. /\ a \in Action
      /\ a.kind = kind /\ a.subject = subject /\ a.from = from /\ a.expires = expires
      /\ a.phase = "ready" /\ a.choice = None /\ a.shown = "ready"
  BY DEF Added, Action
<1>2. a # None
  BY <1>1, PhoneAssumption
<1> QED
  BY <1>1, <1>2

\* What the owner opened becomes an action.
LEMMA StoreOpenedKeeps ==
    ASSUME PhoneInv, NEW h \in Handlers, StoreOpened(h)
    PROVE  PhoneInv'
<1>0. /\ TypeOK /\ Answer(h) /\ Complete(Update(h))
      /\ UNCHANGED <<clock, settled, content, effect, effects>>
      /\ handler[h] \in Handler /\ handler[h].at = "describe"
      /\ action \in [Tokens -> Action \cup {None}]
  BY DEF PhoneInv, TypeOK, StoreOpened
<1>1. Said(h) \in Content /\ Said(h).kind = "open" /\ Said(h).choice \in {"compose", "cancel", "decision"}
  <2>1. Update(h) \in Updates /\ Said(h) # None /\ Said(h).kind = "open"
    BY <1>0 DEF PhoneInv, Handles
  <2>2. Said(h) \in Content
    BY <1>0, <2>1 DEF TypeOK, Said
  <2> QED
    BY <2>1, <2>2, ContentFields, PhoneAssumption
<1> DEFINE kind == Said(h).choice
           a == Added(kind, SubjectOf(kind), 0, Expires(h))
<1>2. Expires(h) \in Nat
  <2>1. handler[h].now + Ttl \in Nat /\ ApprovalExpires \in Nat
    BY <1>0, PhoneAssumption DEF Handler
  <2>2. Min({handler[h].now + Ttl, ApprovalExpires}) \in {handler[h].now + Ttl, ApprovalExpires}
    BY <2>1, MinIsFirst
  <2> QED
    BY <2>1, <2>2 DEF Expires
<1>3. /\ kind \in Kinds /\ kind # "submit" /\ SubjectOf(kind) \in Subjects \cup {None}
  BY <1>1 DEF Kinds, SubjectOf, Subjects
<1>4. /\ a \in Action /\ a # None
      /\ a.kind = kind /\ a.subject = SubjectOf(kind) /\ a.from = 0
      /\ a.phase = "ready" /\ a.choice = None
  BY <1>2, <1>3, AddedTyped
<1> HIDE DEF kind
<1>5. PICK n \in Tokens : n = NewToken /\ action[n] = None
  BY NewTokenFree DEF StoreOpened
<1>6. /\ action' \in [Tokens -> Action \cup {None}] /\ action'[n] = a
      /\ \A t \in Tokens : t # n => action'[t] = action[t]
  <2>1. action' = [action EXCEPT ![n] = a]
    BY <1>5 DEF StoreOpened, kind
  <2> HIDE DEF a
  <2> QED
    BY <1>0, <1>4, <2>1
<1> HIDE DEF a
<1>7. receipt' \in [Updates -> {"none", "received", "done"}]
  BY <1>0, CompleteTyped
<1>8. /\ handler' \in [Handlers -> Handler] /\ handler'[h].at = "idle"
      /\ \A g \in Handlers : g # h => handler'[g] = handler[g]
  BY <1>0, AnswerOnly
<1>9. Grows
  BY <1>0, <1>5, <1>6 DEF Grows, Kept
<1>10. TypeOK'
  <2>1. \A t \in Tokens : action'[t] # None => (action'[t].phase = "ready" <=> action'[t].choice = None)
    BY <1>0, <1>4, <1>6 DEF TypeOK
  <2> QED
    BY <1>0, <1>6, <1>7, <1>8, <2>1 DEF TypeOK
<1>11. PromptUsedOnce'
  BY <1>4, <1>5, <1>6, <1>9, NoNewTask
<1>12. Prepared(n)'
  BY <1>3, <1>4, <1>6 DEF Prepared
<1>13. Handles(h)'
  BY <1>8 DEF Handles
<1>14. \A u \in Updates : content[u] # None \/ Answers(u)'
  BY <1>0 DEF Answers
<1>15. \A t \in Tokens : \/ action[t] # None
                         \/ action'[t] = None
                         \/ Prepared(t)' /\ action'[t].phase = "ready"
  BY <1>4, <1>6, <1>12
<1>16. \A t \in Tokens : ~(action[t] # None /\ action[t].phase # "done" /\ action'[t].phase = "done")
  BY <1>5, <1>6
<1>17. \A s \in Subjects : effect'[s] = effect[s] /\ effects'[s] = effects[s]
  BY <1>0
<1>18. \A g \in Handlers : handler'[g] = handler[g] \/ Handles(g)'
  BY <1>8, <1>13
<1> QED
  BY <1>9, <1>10, <1>11, <1>14, <1>15, <1>16, <1>17, <1>18, GrowthKeeps

-----------------------------------------------------------------------------
(* The steps of a request: the choice is recorded.                         *)

\* The first choice on a message that was delivered is recorded; a later begin
\* finds its own choice recorded.
LEMMA BeginKeeps ==
    ASSUME PhoneInv, NEW h \in Handlers, BeginReply(h) \/ BeginPress(h)
    PROVE  PhoneInv'
<1>0. /\ TypeOK /\ Begin(h) /\ UNCHANGED <<settled, clock, content, receipt, effect, effects>>
      /\ handler[h].at = "begin" /\ Displayed(Token(h)) /\ Accepted(h)
      /\ action' = [action EXCEPT ![Token(h)] = Record(h)]
      /\ action \in [Tokens -> Action \cup {None}]
  BY DEF PhoneInv, TypeOK, BeginReply, BeginPress, Begin
<1>1. PICK place \in {"store", "act"} :
          /\ Goes(h, place)
          /\ place = "store" => Said(h).kind = "reply"
          /\ place = "act" => Said(h).kind = "press"
  BY DEF BeginReply, BeginPress
<1>2. Said(h).kind # "open" /\ Said(h) # None /\ Update(h) \in Updates
  BY <1>0 DEF PhoneInv, Handles
<1>3. PICK t \in Tokens : t = Token(h)
  BY <1>0, <1>2, TokenIs
<1>4. action[t] \in Action /\ action[t] # None /\ Said(h).choice \in Chosen
  BY <1>0, <1>2, <1>3, TokenIs
<1> DEFINE r == Record(h)
<1>5. /\ r \in Action
      /\ r.kind = action[t].kind /\ r.subject = action[t].subject /\ r.from = action[t].from
      /\ r.expires = action[t].expires /\ r.shown = action[t].shown
      /\ r.choice = Said(h).choice
      /\ r.phase = IF action[t].phase = "ready" THEN "running" ELSE action[t].phase
  BY <1>3, <1>4 DEF Record, Action
<1>6. r # None /\ r.choice # None /\ r.phase # "ready" /\ r.shown = "sent"
  BY <1>0, <1>3, <1>4, <1>5, PhoneAssumption DEF Displayed
<1>7. action[t].phase # "ready" => action[t].choice = r.choice /\ r.phase = action[t].phase
  BY <1>0, <1>3, <1>5 DEF Accepted
<1>8. /\ action' \in [Tokens -> Action \cup {None}] /\ action'[t] = r
      /\ \A s \in Tokens : s # t => action'[s] = action[s]
  <2>1. action' = [action EXCEPT ![t] = r]
    BY <1>0, <1>3
  <2> HIDE DEF r
  <2> QED
    BY <1>0, <1>5, <2>1
<1> HIDE DEF r
<1>9. /\ handler' \in [Handlers -> Handler] /\ handler'[h].at = place /\ Update(h)' = Update(h)
      /\ \A g \in Handlers : g # h => handler'[g] = handler[g]
  BY <1>0, <1>1, GoesOnly
<1>10. Kept(t)
  BY <1>5, <1>6, <1>7, <1>8 DEF Kept
<1>11. Grows
  BY <1>0, <1>8, <1>10 DEF Grows, Kept
<1>12. TypeOK'
  <2>1. \A s \in Tokens : action'[s] # None => (action'[s].phase = "ready" <=> action'[s].choice = None)
    BY <1>0, <1>6, <1>8 DEF TypeOK
  <2> QED
    BY <1>0, <1>8, <1>9, <2>1 DEF TypeOK
<1>13. PromptUsedOnce'
  BY <1>4, <1>8, <1>11, NoNewTask
<1>14. Handles(h)'
  <2>1. Said(h)' = Said(h) /\ Token(h)' = Token(h)
    BY <1>0, <1>9 DEF Said, Token
  <2>2. Recorded(Token(h), Said(h).choice)'
    BY <1>3, <1>5, <1>6, <1>8, <2>1 DEF Recorded
  <2> QED
    BY <1>1, <1>2, <1>9, <2>1, <2>2 DEF Handles
<1>15. \A u \in Updates : content[u] # None \/ Answers(u)'
  BY <1>0 DEF Answers
<1>16. \A s \in Tokens : action[s] # None \/ action'[s] = None
  BY <1>4, <1>8
<1>17. \A s \in Tokens : ~(action[s] # None /\ action[s].phase # "done" /\ action'[s].phase = "done")
  BY <1>5, <1>8
<1>18. \A s \in Subjects : effect'[s] = effect[s] /\ effects'[s] = effects[s]
  BY <1>0
<1>19. \A g \in Handlers : handler'[g] = handler[g] \/ Handles(g)'
  BY <1>9, <1>14
<1> QED
  BY <1>11, <1>12, <1>13, <1>15, <1>16, <1>17, <1>18, <1>19, GrowthKeeps

\* An action that is done keeps the rest of it.
LEMMA DoneOnly ==
    ASSUME TypeOK, NEW t \in Tokens, action[t] # None
    PROVE  /\ Done(t) \in Action /\ Done(t) # None
           /\ Done(t).kind = action[t].kind /\ Done(t).subject = action[t].subject
           /\ Done(t).from = action[t].from /\ Done(t).expires = action[t].expires
           /\ Done(t).shown = action[t].shown /\ Done(t).choice = action[t].choice
           /\ Done(t).phase = "done"
<1>1. action[t] \in Action
  BY DEF TypeOK
<1>2. /\ Done(t) \in Action
      /\ Done(t).kind = action[t].kind /\ Done(t).subject = action[t].subject
      /\ Done(t).from = action[t].from /\ Done(t).expires = action[t].expires
      /\ Done(t).shown = action[t].shown /\ Done(t).choice = action[t].choice
      /\ Done(t).phase = "done"
  BY <1>1 DEF Done, Action
<1> QED
  BY <1>2, PhoneAssumption

\* The answer to a prompt becomes a task that waits for its confirmation,
\* unless the prompt is used up.
LEMMA StorePreparedKeeps ==
    ASSUME PhoneInv, NEW h \in Handlers, StorePrepared(h)
    PROVE  PhoneInv'
<1>0. /\ TypeOK /\ Answer(h) /\ Complete(Update(h))
      /\ UNCHANGED <<settled, clock, content, effect, effects>>
      /\ handler[h].at = "store" /\ handler[h] \in Handler
      /\ action \in [Tokens -> Action \cup {None}]
  BY DEF PhoneInv, TypeOK, StorePrepared
<1>1. receipt' \in [Updates -> {"none", "received", "done"}]
  BY <1>0, CompleteTyped
<1>2. /\ handler' \in [Handlers -> Handler] /\ handler'[h].at = "idle"
      /\ \A g \in Handlers : g # h => handler'[g] = handler[g]
  BY <1>0, AnswerOnly
<1>3. \A g \in Handlers : handler'[g] = handler[g] \/ Handles(g)'
  BY <1>2 DEF Handles
<1>4. CASE UNCHANGED action
  BY <1>0, <1>1, <1>2, <1>3, <1>4, HandlerKeeps DEF TypeOK
<1>5. CASE ~UNCHANGED action
  <2>1. /\ ~PromptUsed(h) /\ \E t \in Tokens : action[t] = None
        /\ action' = [action EXCEPT ![Token(h)] = Done(Token(h)),
               ![NewToken] = Added("submit", NewToken, Token(h), handler[h].now + Ttl)]
    BY <1>5 DEF StorePrepared
  <2>2. /\ Said(h).kind = "reply" /\ Recorded(Token(h), Said(h).choice)
    BY <1>0 DEF PhoneInv, Handles
  <2>3. PICK t \in Tokens : t = Token(h)
    BY <1>0, <2>2, TokenIs
  <2>4. /\ action[t] # None /\ action[t].kind = "compose" /\ action[t].phase \notin {"ready", "done"}
        /\ action[t].choice # None
    <3>1. action[t] # None /\ action[t].kind = "compose"
      BY <1>0, <2>2, <2>3, TokenIs
    <3> QED
      BY <1>0, <2>1, <2>2, <2>3, <3>1 DEF Recorded, PromptUsed, TypeOK
  <2>5. PICK n \in Tokens : n = NewToken /\ action[n] = None
    BY <2>1, NewTokenFree
  <2> DEFINE a == Added("submit", n, t, handler[h].now + Ttl)
             d == Done(t)
  <2>6. handler[h].now + Ttl \in Nat
    BY <1>0, PhoneAssumption DEF Handler
  <2>7. /\ a \in Action /\ a # None
        /\ a.kind = "submit" /\ a.subject = n /\ a.from = t
        /\ a.phase = "ready" /\ a.choice = None
    BY <2>6, AddedTyped DEF Kinds, Subjects
  <2>8. /\ d \in Action /\ d # None
        /\ d.kind = "compose" /\ d.subject = action[t].subject /\ d.from = action[t].from
        /\ d.expires = action[t].expires /\ d.shown = action[t].shown
        /\ d.choice = action[t].choice /\ d.phase = "done"
    BY <1>0, <2>4, DoneOnly
  <2>9. /\ action' \in [Tokens -> Action \cup {None}] /\ action'[n] = a /\ action'[t] = d /\ t # n
        /\ \A s \in Tokens : s # n /\ s # t => action'[s] = action[s]
    <3>1. action' = [action EXCEPT ![t] = d, ![n] = a]
      BY <2>1, <2>3, <2>5
    <3> HIDE DEF a, d
    <3>2. t # n
      BY <2>4, <2>5
    <3> QED
      BY <1>0, <2>7, <2>8, <3>1, <3>2
  <2> HIDE DEF a, d
  <2>10. Kept(t)
    BY <2>4, <2>8, <2>9 DEF Kept
  <2>11. Grows
    BY <1>0, <2>5, <2>9, <2>10 DEF Grows, Kept
  <2>12. TypeOK'
    <3>1. \A s \in Tokens : action'[s] # None => (action'[s].phase = "ready" <=> action'[s].choice = None)
      BY <1>0, <2>4, <2>7, <2>8, <2>9 DEF TypeOK
    <3> QED
      BY <1>0, <1>1, <1>2, <2>9, <3>1 DEF TypeOK
  <2>13. PromptUsedOnce'
    <3> SUFFICES ASSUME NEW p \in Tokens, NEW q \in Tokens, action'[p] # None, action'[q] # None,
                        action'[p].from = action'[q].from, action'[p].from # 0
                 PROVE  p = q
      BY DEF PromptUsedOnce
    <3>1. ASSUME NEW s \in Tokens, s # n, action'[s] # None
          PROVE  action[s] # None /\ action'[s].from = action[s].from /\ action[s].from # t
      <4>1. action[s] # None /\ action'[s].from = action[s].from
        BY <2>4, <2>8, <2>9, <3>1
      <4>2. Prepared(s)
        BY DEF PhoneInv
      <4>3. t # 0
        BY PhoneAssumption DEF Tokens
      <4>4. action[s].from # t
        BY <2>4, <4>1, <4>2, <4>3 DEF Prepared
      <4> QED
        BY <4>1, <4>4
    <3> QED
      BY <2>7, <2>9, <3>1 DEF PhoneInv, PromptUsedOnce
  <2>14. Prepared(n)'
    BY <2>7, <2>8, <2>9 DEF Prepared
  <2>15. \A u \in Updates : content[u] # None \/ Answers(u)'
    BY <1>0 DEF Answers
  <2>16. \A s \in Tokens : \/ action[s] # None
                           \/ action'[s] = None
                           \/ Prepared(s)' /\ action'[s].phase = "ready"
    BY <2>4, <2>7, <2>9, <2>14
  <2>17. \A s \in Tokens :
             action[s] # None /\ action[s].phase # "done" /\ action'[s].phase = "done" =>
                 action[s].kind = "compose"
    BY <2>4, <2>5, <2>9
  <2>18. \A s \in Subjects : effect'[s] = effect[s] /\ effects'[s] = effects[s]
    BY <1>0
  <2> QED
    BY <1>3, <2>11, <2>12, <2>13, <2>15, <2>16, <2>17, <2>18, GrowthKeeps
<1> QED
  BY <1>4, <1>5

-----------------------------------------------------------------------------
(* The steps of a request: the effect.                                     *)

\* A request in perform, or in decide, is about a choice that is on record.
LEMMA ActingOn ==
    ASSUME PhoneInv, NEW h \in Handlers, handler[h].at \in {"act", "decide", "finish"}
    PROVE  /\ Update(h) \in Updates /\ Said(h).kind = "press" /\ handler[h].at # "idle"
           /\ Recorded(Token(h), Said(h).choice)
           /\ Token(h) \in Tokens /\ action[Token(h)] \in Action /\ action[Token(h)] # None
           /\ action[Token(h)].kind # "compose"
           /\ Said(h).choice \in Buttons(action[Token(h)].kind)
           /\ Subject(h) \in Subjects
           /\ action[Token(h)].kind \in {"submit", "cancel"} => Subject(h) # Approval
           /\ action[Token(h)].kind = "decision" => Subject(h) = Approval
<1>1. /\ Update(h) \in Updates /\ Said(h).kind = "press" /\ handler[h].at # "idle"
      /\ Recorded(Token(h), Said(h).choice)
  BY DEF PhoneInv, Handles
<1>2. /\ Token(h) \in Tokens /\ action[Token(h)] \in Action /\ action[Token(h)] # None
      /\ action[Token(h)].kind # "compose"
      /\ Said(h).choice \in Buttons(action[Token(h)].kind)
  BY <1>1, TokenIs
<1>3. PICK t \in Tokens : t = Token(h)
  BY <1>2
<1>4. /\ Subject(h) \in Subjects
      /\ action[t].kind \in {"submit", "cancel"} => Subject(h) # Approval
      /\ action[t].kind = "decision" => Subject(h) = Approval
  BY <1>2, <1>3, SubjectIs DEF Subject
<1> QED
  BY <1>1, <1>2, <1>3, <1>4

\* A request goes on without an effect of its own.
LEMMA PassingKeeps ==
    ASSUME PhoneInv, NEW h \in Handlers, handler[h].at \in {"act", "decide"},
           NEW place \in {"decide", "finish"}, Goes(h, place),
           UNCHANGED <<settled, clock, content, receipt, action, effect, effects>>,
           place = "decide" => action[Token(h)].kind = "decision",
           place = "finish" => Outcome(Token(h))
    PROVE  PhoneInv'
<1>1. /\ Said(h).kind = "press" /\ Recorded(Token(h), Said(h).choice) /\ TypeOK
      /\ handler[h].at # "idle" /\ Update(h) \in Updates
  BY ActingOn DEF PhoneInv
<1>2. /\ handler' \in [Handlers -> Handler] /\ Update(h)' = Update(h)
      /\ \A g \in Handlers : g # h => handler'[g] = handler[g]
  BY <1>1, GoesOnly
<1>3. Said(h)' = Said(h) /\ Token(h)' = Token(h)
  BY <1>2 DEF Said, Token
<1>4. Recorded(Token(h), Said(h).choice)' /\ (place = "finish" => Outcome(Token(h))')
  BY <1>1, <1>3 DEF Recorded, Outcome
<1>5. Handles(h)'
  BY <1>1, <1>4, GoesOnHandles
<1> QED
  BY <1>1, <1>2, <1>5, HandlerKeeps DEF TypeOK

\* An effect takes place where none did.
LEMMA AffectKeeps ==
    ASSUME PhoneInv, NEW h \in Handlers, handler[h].at \in {"act", "decide"}, ~Happened(h),
           Affect(h), Goes(h, "finish"), UNCHANGED <<settled, clock, content, receipt, action>>,
           Said(h).choice \in {"confirm"} \cup Decisions,
           Subject(h) # Approval => Said(h).choice = "confirm",
           clock < IF Subject(h) = Approval THEN ApprovalExpires ELSE action[Token(h)].expires
    PROVE  PhoneInv'
<1>0. /\ TypeOK /\ clock \in Nat
      /\ effect \in [Subjects -> Effect \cup {None}] /\ effects \in [Subjects -> Nat]
  BY PhoneAssumption DEF PhoneInv, TypeOK
<1>1. /\ Said(h).kind = "press" /\ Recorded(Token(h), Said(h).choice)
      /\ handler[h].at # "idle" /\ Update(h) \in Updates
      /\ Token(h) \in Tokens /\ action[Token(h)] # None /\ Subject(h) \in Subjects
  BY ActingOn
<1>2. PICK s \in Subjects : s = Subject(h)
  BY <1>1
<1> DEFINE e == [choice |-> Said(h).choice, actor |-> "phone", at |-> clock, token |-> Token(h)]
<1>3. /\ e \in Effect /\ e.choice = Said(h).choice /\ e.at = clock /\ e.token = Token(h)
  BY <1>0, <1>1 DEF Effect
<1>4. e # None
  BY <1>3, PhoneAssumption
<1>5. effect[s] = None /\ effects[s] = 0
  BY <1>2 DEF Happened, PhoneInv, OnRecord
<1>6. /\ effect' \in [Subjects -> Effect \cup {None}] /\ effect'[s] = e
      /\ effects' \in [Subjects -> Nat] /\ effects'[s] = 1
      /\ \A x \in Subjects : x # s => effect'[x] = effect[x] /\ effects'[x] = effects[x]
  <2>1. effect' = [effect EXCEPT ![s] = e] /\ effects' = [effects EXCEPT ![s] = effects[s] + 1]
    BY <1>2 DEF Affect
  <2> HIDE DEF e
  <2> QED
    BY <1>0, <1>3, <1>5, <2>1
<1> HIDE DEF e
<1>7. /\ handler' \in [Handlers -> Handler] /\ Update(h)' = Update(h)
      /\ \A g \in Handlers : g # h => handler'[g] = handler[g]
  BY <1>0, GoesOnly
<1>8. Said(h)' = Said(h) /\ Token(h)' = Token(h)
  BY <1>7 DEF Said, Token
<1>9. Recorded(Token(h), Said(h).choice)' /\ Outcome(Token(h))'
  <2>1. Recorded(Token(h), Said(h).choice)'
    BY <1>1, <1>8 DEF Recorded
  <2>2. action[Token(h)].subject = s /\ action[Token(h)].choice = Said(h).choice
    BY <1>1, <1>2 DEF Subject, Recorded
  <2>3. Outcome(Token(h))'
    BY <1>3, <1>4, <1>6, <1>8, <2>2 DEF Outcome
  <2> QED
    BY <2>1, <2>3
<1>10. Handles(h)'
  BY <1>1, <1>9, GoesOnHandles
<1>11. Grows
  BY <1>5, <1>6, ActionsSame DEF Grows
<1>12. TypeOK'
  BY <1>0, <1>6, <1>7 DEF TypeOK
<1>13. NewEffect(s)
  <2>1. effect'[s] # None /\ effects'[s] <= 1 /\ (s # Approval => effect'[s].choice = "confirm")
    BY <1>2, <1>3, <1>4, <1>6
  <2>2. effect'[s].token = Token(h) /\ effect'[s].choice = Said(h).choice /\ effect'[s].at = clock
    BY <1>3, <1>6
  <2> QED
    BY <1>1, <1>2, <2>1, <2>2 DEF NewEffect
<1>14. PromptUsedOnce'
  BY DEF PhoneInv, PromptUsedOnce
<1>15. \A u \in Updates : content[u] # None \/ Answers(u)'
  BY DEF Answers
<1>16. \A x \in Subjects : \/ effect'[x] = effect[x] /\ effects'[x] = effects[x]
                           \/ NewEffect(x)
  BY <1>6, <1>13
<1>17. \A g \in Handlers : handler'[g] = handler[g] \/ Handles(g)'
  BY <1>7, <1>10
<1> QED
  BY <1>11, <1>12, <1>14, <1>15, <1>16, <1>17, ActionsSame, GrowthKeeps

\* perform: nothing is left to do, the task or the cancellation, or the way to
\* the approval.
LEMMA PerformKeeps ==
    ASSUME PhoneInv, NEW h \in Handlers, Skip(h) \/ Confirm(h) \/ Decide(h)
    PROVE  PhoneInv'
<1>0. /\ handler[h].at = "act" /\ handler[h].at \in {"act", "decide"}
      /\ UNCHANGED <<settled, clock, content, receipt, action>>
  BY DEF Skip, Confirm, Decide
<1>1. /\ Said(h).kind = "press" /\ Recorded(Token(h), Said(h).choice)
      /\ Token(h) \in Tokens /\ action[Token(h)] # None /\ action[Token(h)].kind # "compose"
      /\ Said(h).choice \in Buttons(action[Token(h)].kind) /\ Subject(h) \in Subjects
      /\ action[Token(h)].kind \in {"submit", "cancel"} => Subject(h) # Approval
      /\ action[Token(h)].kind = "decision" => Subject(h) = Approval
  BY <1>0, ActingOn
<1>2. action[Token(h)].choice = Said(h).choice
  BY <1>1 DEF Recorded
<1>3. CASE Skip(h)
  <2>1. Goes(h, "finish") /\ UNCHANGED <<effect, effects>> /\ Spent(h)
    BY <1>3 DEF Skip
  <2>2. Outcome(Token(h))
    <3>1. CASE action[Token(h)].phase = "done"
      BY <1>1, <3>1 DEF PhoneInv, OutcomeIsTrue
    <3>2. CASE Said(h).choice = "discard"
      BY <1>2, <3>2 DEF Outcome
    <3> QED
      BY <2>1, <3>1, <3>2 DEF Spent
  <2> QED
    BY <1>0, <2>1, <2>2, PassingKeeps
<1>4. CASE Decide(h)
  BY <1>0, <1>4, PassingKeeps DEF Decide
<1>5. CASE Confirm(h)
  <2>1. /\ action[Token(h)].kind \in {"submit", "cancel"} /\ ~Spent(h) /\ Goes(h, "finish")
        /\ Subject(h) # Approval
    BY <1>1, <1>5 DEF Confirm
  <2>2. Said(h).choice = "confirm"
    BY <1>1, <2>1, ButtonsOf DEF Spent
  <2>3. CASE Happened(h) \/ (Subject(h) = Attempt /\ settled)
    <3>1. UNCHANGED <<effect, effects>>
      BY <1>5, <2>3 DEF Confirm
    <3>2. Happened(h) => effect[Subject(h)] # None /\ effect[Subject(h)].choice = "confirm"
      BY <1>1, <2>1 DEF Happened, PhoneInv, OnRecord
    <3>3. Subject(h) = Attempt => action[Token(h)].kind = "cancel"
      <4>1. action[Token(h)].kind = "submit" => Subject(h) = Token(h)
        BY <1>1 DEF PhoneInv, Prepared, Subject
      <4>2. Token(h) # Attempt
        BY <1>1, PhoneAssumption DEF Tokens
      <4> QED
        BY <2>1, <4>1, <4>2
    <3>4. Outcome(Token(h))
      BY <1>2, <2>2, <2>3, <3>2, <3>3 DEF Outcome, Subject
    <3> QED
      BY <1>0, <2>1, <3>1, <3>4, PassingKeeps
  <2>4. CASE ~(Happened(h) \/ (Subject(h) = Attempt /\ settled))
    <3>1. Affect(h) /\ ~Happened(h) /\ clock < action[Token(h)].expires
      BY <1>5, <2>4 DEF Confirm, Timely
    <3> QED
      BY <1>0, <2>1, <2>2, <3>1, AffectKeeps
  <2> QED
    BY <2>3, <2>4
<1> QED
  BY <1>3, <1>4, <1>5

\* The approval is decided by this, or was by an equal choice.
LEMMA ResolveKeeps ==
    ASSUME PhoneInv, NEW h \in Handlers, Resolve(h)
    PROVE  PhoneInv'
<1>0. /\ handler[h].at = "decide" /\ handler[h].at \in {"act", "decide"} /\ Goes(h, "finish")
      /\ UNCHANGED <<settled, clock, content, receipt, action>>
  BY DEF Resolve
<1>1. action[Token(h)].kind = "decision"
  BY <1>0 DEF PhoneInv, Handles
<1>2. /\ Recorded(Token(h), Said(h).choice) /\ Subject(h) = Approval
      /\ Said(h).choice \in Decisions
  BY <1>0, <1>1, ActingOn, ButtonsOf
<1>3. CASE Happened(h)
  <2>1. effect[Approval] # None /\ effect[Approval].choice = Said(h).choice /\ UNCHANGED <<effect, effects>>
    BY <1>2, <1>3 DEF Resolve, Happened
  <2>2. Outcome(Token(h))
    BY <1>2, <2>1 DEF Outcome, Recorded, Subject
  <2> QED
    BY <1>0, <2>1, <2>2, PassingKeeps
<1>4. CASE ~Happened(h)
  <2>1. Affect(h) /\ clock < ApprovalExpires
    BY <1>4 DEF Resolve, Unexpired
  <2> QED
    BY <1>0, <1>2, <1>4, <2>1, AffectKeeps
<1> QED
  BY <1>3, <1>4

\* The action is done when it has its outcome.
LEMMA FinishKeeps ==
    ASSUME PhoneInv, NEW h \in Handlers, Finish(h)
    PROVE  PhoneInv'
<1>0. /\ TypeOK /\ Answer(h) /\ Complete(Update(h)) /\ handler[h].at = "finish"
      /\ UNCHANGED <<settled, clock, content, effect, effects>>
      /\ action' = [action EXCEPT ![Token(h)] = Done(Token(h))]
      /\ action \in [Tokens -> Action \cup {None}]
  BY DEF PhoneInv, TypeOK, Finish
<1>1. /\ Recorded(Token(h), Said(h).choice) /\ Token(h) \in Tokens /\ action[Token(h)] # None
      /\ action[Token(h)].kind # "compose" /\ Outcome(Token(h))
  BY <1>0, ActingOn DEF PhoneInv, Handles
<1>2. PICK t \in Tokens : t = Token(h)
  BY <1>1
<1>3. action[t].phase # "ready" /\ action[t].choice # None
  BY <1>0, <1>1, <1>2 DEF Recorded, TypeOK
<1> DEFINE d == Done(t)
<1>4. /\ d \in Action /\ d # None
      /\ d.kind = action[t].kind /\ d.subject = action[t].subject /\ d.from = action[t].from
      /\ d.expires = action[t].expires /\ d.shown = action[t].shown
      /\ d.choice = action[t].choice /\ d.phase = "done"
  BY <1>0, <1>1, <1>2, DoneOnly
<1>5. /\ action' \in [Tokens -> Action \cup {None}] /\ action'[t] = d
      /\ \A s \in Tokens : s # t => action'[s] = action[s]
  <2>1. action' = [action EXCEPT ![t] = d]
    BY <1>0, <1>2
  <2> HIDE DEF d
  <2> QED
    BY <1>0, <1>4, <2>1
<1> HIDE DEF d
<1>6. receipt' \in [Updates -> {"none", "received", "done"}]
  BY <1>0, CompleteTyped
<1>7. /\ handler' \in [Handlers -> Handler] /\ handler'[h].at = "idle"
      /\ \A g \in Handlers : g # h => handler'[g] = handler[g]
  BY <1>0, AnswerOnly
<1>8. Kept(t)
  BY <1>4, <1>5 DEF Kept
<1>9. Grows
  BY <1>0, <1>5, <1>8 DEF Grows, Kept
<1>10. TypeOK'
  <2>1. \A s \in Tokens : action'[s] # None => (action'[s].phase = "ready" <=> action'[s].choice = None)
    BY <1>0, <1>3, <1>4, <1>5 DEF TypeOK
  <2> QED
    BY <1>0, <1>5, <1>6, <1>7, <2>1 DEF TypeOK
<1>11. PromptUsedOnce'
  BY <1>1, <1>2, <1>5, <1>9, NoNewTask
<1>12. Outcome(t)'
  BY <1>1, <1>2, <1>3, <1>9, OutcomeKept
<1>13. \A u \in Updates : content[u] # None \/ Answers(u)'
  BY <1>0 DEF Answers
<1>14. \A g \in Handlers : handler'[g] = handler[g] \/ Handles(g)'
  BY <1>7 DEF Handles
<1>15. \A s \in Tokens : action[s] # None \/ action'[s] = None
  BY <1>1, <1>2, <1>5
<1>16. \A s \in Tokens :
           action[s] # None /\ action[s].phase # "done" /\ action'[s].phase = "done" => Outcome(s)'
  BY <1>5, <1>12
<1>17. \A s \in Subjects : effect'[s] = effect[s] /\ effects'[s] = effects[s]
  BY <1>0
<1> QED
  BY <1>9, <1>10, <1>11, <1>13, <1>14, <1>15, <1>16, <1>17, GrowthKeeps

-----------------------------------------------------------------------------
(* The environment.                                                        *)

\* The owner writes about what exists.
LEMMA SendKeeps ==
    ASSUME PhoneInv, NEW u \in Updates, NEW c \in Content, Send(u, c)
    PROVE  PhoneInv'
<1>0. /\ TypeOK /\ content \in [Updates -> Content \cup {None}] /\ content[u] = None
      /\ content' = [content EXCEPT ![u] = c]
      /\ UNCHANGED <<clock, receipt, action, effect, settled, handler, effects>>
  BY DEF PhoneInv, TypeOK, Send
<1>1. /\ content' \in [Updates -> Content \cup {None}] /\ content'[u] = c
      /\ \A v \in Updates : v # u => content'[v] = content[v]
  BY <1>0
<1>2. TypeOK'
  BY <1>0, <1>1 DEF TypeOK
<1>3. Grows
  BY <1>0, <1>1, ActionsSame DEF Grows
<1>4. Answers(u)'
  <2>1. CASE c.kind = "open"
    BY <1>1, <2>1 DEF Answers
  <2>2. CASE c.kind = "reply"
    BY <1>0, <1>1, <2>2 DEF Send, Answers, Visible
  <2>3. CASE c.kind = "press"
    BY <1>0, <1>1, <2>3 DEF Send, Answers, Visible
  <2> QED
    BY <2>1, <2>2, <2>3, ContentFields
<1>5. \A v \in Updates : content[v] # None \/ Answers(v)'
  <2> SUFFICES ASSUME NEW v \in Updates, content[v] = None, v # u
               PROVE  Answers(v)'
    BY <1>4
  <2> QED
    BY <1>1 DEF Answers
<1>6. PromptUsedOnce'
  BY <1>0 DEF PhoneInv, PromptUsedOnce
<1>7. \A h \in Handlers : handler'[h] = handler[h]
  BY <1>0
<1>8. \A s \in Subjects : effect'[s] = effect[s] /\ effects'[s] = effects[s]
  BY <1>0
<1> QED
  BY <1>0, <1>2, <1>3, <1>5, <1>6, <1>7, <1>8, ActionsSame, GrowthKeeps

\* The message of an action arrives, or not, or nobody knows.
LEMMA DeliverKeeps ==
    ASSUME PhoneInv, NEW t \in Tokens, NEW phase \in {"sent", "uncertain", "dropped"},
           Deliver(t, phase)
    PROVE  PhoneInv'
<1>0. /\ TypeOK /\ action \in [Tokens -> Action \cup {None}]
      /\ action[t] # None /\ action[t].shown = "ready"
      /\ UNCHANGED <<settled, clock, content, receipt, effect, handler, effects>>
  BY DEF PhoneInv, TypeOK, Deliver
<1> DEFINE a == [action[t] EXCEPT !.shown = phase]
<1>1. /\ a \in Action
      /\ a.kind = action[t].kind /\ a.subject = action[t].subject /\ a.from = action[t].from
      /\ a.expires = action[t].expires /\ a.phase = action[t].phase
      /\ a.choice = action[t].choice
  BY <1>0 DEF Action
<1>2. a # None
  BY <1>1, PhoneAssumption
<1>3. /\ action' \in [Tokens -> Action \cup {None}] /\ action'[t] = a
      /\ \A s \in Tokens : s # t => action'[s] = action[s]
  <2>1. action' = [action EXCEPT ![t] = a]
    BY DEF Deliver
  <2> HIDE DEF a
  <2> QED
    BY <1>0, <1>1, <2>1
<1> HIDE DEF a
<1>4. Kept(t)
  BY <1>0, <1>1, <1>2, <1>3 DEF Kept
<1>5. Grows
  BY <1>0, <1>3, <1>4 DEF Grows, Kept
<1>6. TypeOK'
  <2>1. \A s \in Tokens : action'[s] # None => (action'[s].phase = "ready" <=> action'[s].choice = None)
    BY <1>0, <1>1, <1>3 DEF TypeOK
  <2> QED
    BY <1>0, <1>3, <2>1 DEF TypeOK
<1>7. PromptUsedOnce'
  BY <1>0, <1>3, <1>5, NoNewTask
<1>8. \A u \in Updates : content[u] # None \/ Answers(u)'
  BY <1>0 DEF Answers
<1>9. \A s \in Tokens : /\ action[s] # None \/ action'[s] = None
                        /\ ~(action[s] # None /\ action[s].phase # "done" /\ action'[s].phase = "done")
  BY <1>0, <1>1, <1>3
<1>10. \A s \in Subjects : effect'[s] = effect[s] /\ effects'[s] = effects[s]
  BY <1>0
<1>11. \A h \in Handlers : handler'[h] = handler[h]
  BY <1>0
<1> QED
  BY <1>5, <1>6, <1>7, <1>8, <1>9, <1>10, <1>11, GrowthKeeps

\* Somebody at the Mac is first.
LEMMA ActLocallyKeeps ==
    ASSUME PhoneInv, NEW s \in {Approval, Attempt}, NEW d \in Decisions \cup {"confirm"},
           ActLocally(s, d)
    PROVE  PhoneInv'
<1>0. /\ TypeOK /\ clock \in Nat /\ effect \in [Subjects -> Effect \cup {None}]
      /\ effect[s] = None /\ (s # Approval => d = "confirm") /\ s \in Subjects
      /\ UNCHANGED <<settled, clock, content, receipt, action, handler, effects>>
  BY PhoneAssumption DEF PhoneInv, TypeOK, ActLocally, Subjects
<1> DEFINE e == [choice |-> d, actor |-> "local", at |-> clock, token |-> 0]
<1>1. e \in Effect /\ e.choice = d /\ e.actor = "local"
  BY <1>0 DEF Effect
<1>2. e # None
  BY <1>1, PhoneAssumption
<1>3. /\ effect' \in [Subjects -> Effect \cup {None}] /\ effect'[s] = e
      /\ \A x \in Subjects : x # s => effect'[x] = effect[x]
  <2>1. effect' = [effect EXCEPT ![s] = e]
    BY DEF ActLocally
  <2> HIDE DEF e
  <2> QED
    BY <1>0, <1>1, <2>1
<1> HIDE DEF e
<1>4. TypeOK'
  BY <1>0, <1>3 DEF TypeOK
<1>5. Grows
  BY <1>0, <1>3, ActionsSame DEF Grows
<1>6. PromptUsedOnce'
  BY <1>0 DEF PhoneInv, PromptUsedOnce
<1>7. \A u \in Updates : content[u] # None \/ Answers(u)'
  BY <1>0 DEF Answers
<1>8. NewEffect(s)
  BY <1>0, <1>1, <1>2, <1>3 DEF NewEffect, PhoneInv, EffectOnce
<1>9. \A x \in Subjects : \/ effect'[x] = effect[x] /\ effects'[x] = effects[x]
                          \/ NewEffect(x)
  BY <1>0, <1>3, <1>8
<1>10. \A h \in Handlers : handler'[h] = handler[h]
  BY <1>0
<1> QED
  BY <1>0, <1>4, <1>5, <1>6, <1>7, <1>9, <1>10, ActionsSame, GrowthKeeps

\* The attempt settles.
LEMMA SettleKeeps ==
    ASSUME PhoneInv, Settle
    PROVE  PhoneInv'
<1>0. TypeOK /\ settled' = TRUE
      /\ UNCHANGED <<clock, content, receipt, action, effect, handler, effects>>
  BY DEF PhoneInv, Settle
<1>1. TypeOK' /\ Grows
  BY <1>0, ActionsSame DEF TypeOK, Grows
<1>2. PromptUsedOnce'
  BY <1>0 DEF PhoneInv, PromptUsedOnce
<1>3. \A u \in Updates : content[u] # None \/ Answers(u)'
  BY <1>0 DEF Answers
<1> QED
  BY <1>0, <1>1, <1>2, <1>3, ActionsSame, GrowthKeeps

\* Time passes, or nothing happens.
LEMMA TickKeeps ==
    ASSUME PhoneInv, Tick \/ UNCHANGED vars
    PROVE  PhoneInv'
<1>0. /\ UNCHANGED <<content, receipt, action, effect, settled, handler, effects>> /\ TypeOK
      /\ clock' \in {clock, clock + 1} /\ clock' <= MaxClock
  BY PhoneAssumption DEF PhoneInv, TypeOK, Tick, vars
<1>1. clock' \in 0..MaxClock
  BY <1>0, PhoneAssumption DEF TypeOK
<1> QED
  BY <1>0, <1>1, HandlerKeeps DEF TypeOK

-----------------------------------------------------------------------------
(* What phone control promises.                                            *)

\* Before the first update nothing exists that could be acted on.
LEMMA PhoneStarts == Init => PhoneInv
<1> SUFFICES ASSUME Init
             PROVE  PhoneInv
  OBVIOUS
<1>1. Idle \in Handler /\ Idle.at = "idle"
  BY DEF Idle, Handler
<1>2. TypeOK
  <2>1. clock \in 0..MaxClock /\ effects \in [Subjects -> Nat]
    BY PhoneAssumption DEF Init
  <2>2. \A t \in Tokens : action[t] = None
    BY DEF Init
  <2>3. /\ content \in [Updates -> Content \cup {None}]
        /\ receipt \in [Updates -> {"none", "received", "done"}]
        /\ action \in [Tokens -> Action \cup {None}]
        /\ effect \in [Subjects -> Effect \cup {None}]
    BY DEF Init
  <2>4. settled \in BOOLEAN /\ handler \in [Handlers -> Handler]
    BY <1>1 DEF Init
  <2> QED
    BY <2>1, <2>2, <2>3, <2>4 DEF TypeOK
<1>3. \A u \in Updates : Answers(u)
  BY DEF Init, Answers
<1>4. \A h \in Handlers : Handles(h)
  BY <1>1 DEF Init, Handles
<1>5. \A t \in Tokens : Prepared(t)
  BY DEF Init, Prepared
<1>6. \A s \in Subjects : OnRecord(s)
  BY DEF Init, OnRecord
<1>7. PromptUsedOnce /\ EffectOnce /\ EffectWasChosen /\ EffectInTime /\ OutcomeIsTrue
  BY DEF Init, PromptUsedOnce, EffectOnce, EffectWasChosen, EffectInTime, OutcomeIsTrue
<1> QED
  BY <1>2, <1>3, <1>4, <1>5, <1>6, <1>7 DEF PhoneInv

\* Every step keeps the invariant.
LEMMA PhoneKept == PhoneInv /\ [Next]_vars => PhoneInv'
<1> SUFFICES ASSUME PhoneInv, [Next]_vars
             PROVE  PhoneInv'
  OBVIOUS
<1>1. ASSUME NEW h \in Handlers, Step(h)
      PROVE  PhoneInv'
  BY <1>1, ReceiveKeeps, AnswersKeep, StoreOpenedKeeps, BeginKeeps, StorePreparedKeeps,
     PerformKeeps, ResolveKeeps, FinishKeeps DEF Step
<1> QED
  BY <1>1, SendKeeps, DeliverKeeps, ActLocallyKeeps, SettleKeeps, TickKeeps DEF Next

\* The inductive invariant of phone control holds in every state.
THEOREM PhoneSafe == Spec => []PhoneInv
BY PhoneStarts, PhoneKept, PTL DEF Spec

\* store_prepared looks at the prompt again: it yields one prepared task, however
\* many answers wait for their preparation.
THEOREM PromptOnce == Spec => []PromptUsedOnce
<1>1. PhoneInv => PromptUsedOnce
  BY DEF PhoneInv
<1> QED
  BY <1>1, PhoneSafe, PTL

\* perform and resolve look at the effect before they repeat it: each happens
\* once, over redelivered updates, repeated presses and crashes.
THEOREM EffectsOnce == Spec => []EffectOnce
<1>1. PhoneInv => EffectOnce
  BY DEF PhoneInv
<1> QED
  BY <1>1, PhoneSafe, PTL

\* begin records the first choice on a delivered message: no other takes effect.
THEOREM ChosenEffects == Spec => []EffectWasChosen
<1>1. PhoneInv => EffectWasChosen
  BY DEF PhoneInv
<1> QED
  BY <1>1, PhoneSafe, PTL

\* perform and resolve read the clock: nothing takes effect after it expired.
THEOREM TimelyEffects == Spec => []EffectInTime
<1>1. PhoneInv => EffectInTime
  BY DEF PhoneInv
<1> QED
  BY <1>1, PhoneSafe, PTL

\* finish_action comes after the effect: what is recorded as done has happened.
THEOREM TrueOutcomes == Spec => []OutcomeIsTrue
<1>1. PhoneInv => OutcomeIsTrue
  BY DEF PhoneInv
<1> QED
  BY <1>1, PhoneSafe, PTL

=============================================================================
