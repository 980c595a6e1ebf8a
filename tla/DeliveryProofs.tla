---------------------------- MODULE DeliveryProofs --------------------------
(* Proofs about what is delivered: the messages of the phone's outbox, for *)
(* any number of rows and gateways, and the events of a job to its page,   *)
(* for any number of jobs, events, batches and broken connections.         *)
EXTENDS PhoneOutbox, EventStream, FiniteSetTheorems, WellFoundedInduction, TLAPS

\* There are finitely many rows, so that ids are numbers.
LEMMA QueuedFinite == Cardinality(Queued) \in Nat
<1>1. IsFiniteSet(Notices) /\ IsFiniteSet(1..MaxParts)
  BY OutboxAssumption, FS_Interval DEF Notices
<1>2. IsFiniteSet(Groups)
  BY <1>1, OutboxAssumption, FS_Union DEF Groups
<1>3. IsFiniteSet(Groups \X (1..MaxParts))
  BY <1>1, <1>2, FS_Product
<1>4. Queued \subseteq Groups \X (1..MaxParts)
  BY DEF Queued, Rows
<1>5. IsFiniteSet(Queued)
  BY <1>3, <1>4, FS_Subset
<1> QED
  BY <1>5, FS_CardinalityType

\* A row's part is a number.
LEMMA PartType == \A r \in Rows : r[2] \in Nat /\ r[1] \in Groups
  BY OutboxAssumption DEF Rows

\* Queuing changes rows that were never queued, and makes them ready.
LEMMA QueueStep ==
  ASSUME TypeOK, NEW g, Queue(g)
  PROVE  /\ phase' \in [Rows -> Phases]
         /\ id' \in [Rows -> Nat]
         /\ \A r \in Rows : phase'[r] = phase[r] \/ (phase[r] = "absent" /\ phase'[r] = "ready")
<1>1. CASE \E r \in Queued : r[1] = g
  BY <1>1 DEF Queue, TypeOK
<1>2. CASE ~ \E r \in Queued : r[1] = g
  <2>1. /\ phase' = [r \in Rows |-> IF r[1] = g THEN "ready" ELSE phase[r]]
        /\ id' = [r \in Rows |-> IF r[1] = g THEN Cardinality(Queued) + r[2] ELSE id[r]]
    BY <1>2 DEF Queue
  <2>2. \A r \in Rows : Cardinality(Queued) + r[2] \in Nat
    BY QueuedFinite, PartType
  <2>3. \A r \in Rows : r[1] = g => phase[r] = "absent"
    BY <1>2 DEF Queued
  <2> QED
    BY <2>1, <2>2, <2>3 DEF TypeOK, Phases
<1> QED
  BY <1>1, <1>2

\* Closing a request, whoever waits for it, leaves types and waiting in order.
LEMMA CloseStep ==
  ASSUME TypeOK, NEW s \in Slots, request[s] # None, Closed(s),
         NEW g \in Gateway, Answered(s, g)
  PROVE  /\ request' \in [Slots -> Request \cup {None}]
         /\ gateway' \in Gateway
         /\ \A t, u \in Slots : Awaited(t)' /\ Awaited(u)' => t = u
         /\ \A t \in Slots : Awaited(t)' => gateway'.at \in {"connect", "next", "ack", "nack"}
<1>1. request' = [request EXCEPT ![s] = None]
  BY DEF Closed
<1>2. \A t \in Slots : Awaited(t)' => Awaited(t) /\ t # s
  BY <1>1 DEF Awaited, TypeOK
<1>3. request' \in [Slots -> Request \cup {None}]
  BY <1>1 DEF TypeOK
<1>4. gateway' \in Gateway
  BY DEF Answered, TypeOK
<1>5. ASSUME NEW t \in Slots, Awaited(t)' PROVE gateway' = gateway
  <2>1. Awaited(t) /\ t # s
    BY <1>2, <1>5
  <2>2. ~ request[s].awaited
    BY <2>1 DEF TypeOK, Awaited
  <2> QED
    BY <2>2 DEF Answered
<1> QED
  BY <1>2, <1>3, <1>4, <1>5 DEF TypeOK

\* Asking is done by a gateway that waits for nothing yet.
LEMMA AskStep ==
  ASSUME TypeOK, NEW op, NEW row, Ask(op, row),
         \A b \in BOOLEAN : [op |-> op, row |-> row, awaited |-> b] \in Request,
         gateway.at \in {"off", "poll", "sending"},
         gateway'.at \in {"connect", "next", "ack", "nack"}
  PROVE  /\ request' \in [Slots -> Request \cup {None}]
         /\ \A t, u \in Slots : Awaited(t)' /\ Awaited(u)' => t = u
         /\ \A t \in Slots : Awaited(t)' => gateway'.at \in {"connect", "next", "ack", "nack"}
         /\ \A t \in Slots : request'[t] = request[t]
                              \/ request'[t] = [op |-> op, row |-> row, awaited |-> TRUE]
<1>1. PICK s \in Slots : request' = [request EXCEPT ![s] = [op |-> op, row |-> row, awaited |-> TRUE]]
  BY DEF Ask
<1>2. \A t \in Slots : ~Awaited(t)
  BY DEF TypeOK
<1>3. [op |-> op, row |-> row, awaited |-> TRUE] \in Request
  OBVIOUS
<1>4. request' \in [Slots -> Request \cup {None}]
  BY <1>1, <1>3 DEF TypeOK
<1>5. \A t \in Slots : Awaited(t)' => t = s
  BY <1>1, <1>2 DEF Awaited, TypeOK
<1>6. \A t \in Slots : request'[t] = request[t]
                        \/ request'[t] = [op |-> op, row |-> row, awaited |-> TRUE]
  BY <1>1 DEF TypeOK
<1> QED
  BY <1>4, <1>5, <1>6

\* Every step keeps the variables in their types and lets the gateway wait for
\* one request.
LEMMA TypeStep == TypeOK /\ [Next]_vars => TypeOK'
<1> SUFFICES ASSUME TypeOK, [Next]_vars PROVE TypeOK'
  OBVIOUS
<1> USE DEF store, telegram
<1>g. Polling \in Gateway /\ Off \in Gateway
  BY DEF Polling, Off, Gateway
<1>1. ASSUME NEW s \in Slots, Connect(s) PROVE TypeOK'
  <2>1. phase' \in [Rows -> Phases]
    BY <1>1 DEF Connect, Recovered, TypeOK, Phases
  <2> QED
    BY <1>1, <1>g, <2>1, CloseStep DEF Connect, At, TypeOK, Awaited
<1>2. ASSUME NEW s \in Slots, Project(s) PROVE TypeOK'
  <2>1. phase' \in [Rows -> Phases] /\ id' \in [Rows -> Nat]
    <3>1. CASE Queue(Projected)
      BY <3>1, QueueStep
    <3>2. CASE UNCHANGED <<phase, id>>
      BY <3>2 DEF TypeOK
    <3> QED
      BY <1>2, <3>1, <3>2 DEF Project
  <2>2. request[s] \in Request /\ request[s] # None
    BY <1>2 DEF Project, At, TypeOK
  <2>3. request' = [request EXCEPT ![s] = [op |-> "delivery", row |-> None, awaited |-> request[s].awaited]]
    BY <1>2 DEF Project
  <2>4. request' \in [Slots -> Request \cup {None}]
    BY <2>2, <2>3 DEF TypeOK, Request
  <2>5. \A t \in Slots : Awaited(t)' => Awaited(t)
    BY <2>2, <2>3 DEF Awaited, TypeOK
  <2> QED
    BY <1>2, <2>1, <2>4, <2>5 DEF Project, TypeOK
<1>3. ASSUME NEW s \in Slots, Delivery(s) PROVE TypeOK'
  <2>1. phase' \in [Rows -> Phases]
    BY <1>3 DEF Delivery, TypeOK, Phases
  <2>2. PICK g \in Gateway : Answered(s, g)
    <3>1. \A r \in Claimed : [at |-> "send", row |-> r] \in Gateway
      BY DEF Claimed, Claimable, Ready, Gateway
    <3> QED
      BY <1>3, <1>g, <3>1 DEF Delivery
  <2>3. request[s] # None /\ Closed(s)
    BY <1>3 DEF Delivery, At
  <2>4. rested' \in BOOLEAN /\ UNCHANGED <<id, stale, version, cursor, muted, telegram>>
    BY <1>3 DEF Delivery
  <2>5. /\ request' \in [Slots -> Request \cup {None}]
        /\ gateway' \in Gateway
        /\ \A t, u \in Slots : Awaited(t)' /\ Awaited(u)' => t = u
        /\ \A t \in Slots : Awaited(t)' => gateway'.at \in {"connect", "next", "ack", "nack"}
    BY <2>2, <2>3, CloseStep
  <2> QED
    BY <2>1, <2>4, <2>5 DEF TypeOK
<1>4. ASSUME NEW s \in Slots, DeliveryTooSoon(s) PROVE TypeOK'
  BY <1>4, <1>g, CloseStep DEF DeliveryTooSoon, At, TypeOK, Awaited
<1>5. ASSUME NEW s \in Slots, Ack(s) PROVE TypeOK'
  <2>1. phase' \in [Rows -> Phases] /\ \E g \in Gateway : Answered(s, g)
    BY <1>5, <1>g DEF Ack, TypeOK, Phases
  <2> QED
    BY <1>5, <2>1, CloseStep DEF Ack, At, TypeOK, Awaited
<1>6. ASSUME NEW s \in Slots, Nack(s) PROVE TypeOK'
  <2>1. phase' \in [Rows -> Phases]
    BY <1>6 DEF Nack, TypeOK, Phases
  <2> QED
    BY <1>6, <1>g, <2>1, CloseStep DEF Nack, At, TypeOK, Awaited
<1>7. CASE Start
  <2>1. gateway' \in Gateway /\ gateway.at = "off" /\ gateway'.at = "connect"
    BY <1>7 DEF Start, Off, Gateway
  <2>2. \A b \in BOOLEAN : [op |-> "connect", row |-> None, awaited |-> b] \in Request
    BY DEF Request
  <2> QED
    BY <1>7, <2>1, <2>2, AskStep DEF Start, TypeOK, Awaited
<1>8. CASE AskNext
  <2>1. gateway' \in Gateway /\ gateway.at = "poll" /\ gateway'.at = "next"
    BY <1>8 DEF AskNext, Polling, Gateway
  <2>2. \A b \in BOOLEAN : [op |-> "project", row |-> None, awaited |-> b] \in Request
    BY DEF Request
  <2> QED
    BY <1>8, <2>1, <2>2, AskStep DEF AskNext, TypeOK, Awaited
<1>9. CASE Send
  <2>1. gateway \in Gateway /\ gateway.at = "send" /\ gateway.row \in Rows
    BY <1>9 DEF Send, TypeOK, Gateway
  <2>2. gateway' = [at |-> "sending", row |-> gateway.row]
    BY <1>9 DEF Send
  <2>3. gateway' \in Gateway
    BY <2>1, <2>2 DEF Gateway
  <2>4. sends' \in [Rows -> Nat] /\ flight' \in SUBSET Rows
    BY <1>9, <2>1 DEF Send, TypeOK
  <2>5. \A t \in Slots : ~Awaited(t)
    BY <2>1 DEF TypeOK
  <2> QED
    BY <1>9, <2>3, <2>4, <2>5 DEF Send, TypeOK, Awaited
<1>10. CASE AskAck
  <2>1. gateway' \in Gateway /\ gateway.at = "sending" /\ gateway'.at = "ack" /\ gateway.row \in Rows
    BY <1>10 DEF AskAck, Gateway, TypeOK
  <2>2. \A b \in BOOLEAN : [op |-> "ack", row |-> gateway.row, awaited |-> b] \in Request
    BY <2>1 DEF Request
  <2> QED
    BY <1>10, <2>1, <2>2, AskStep DEF AskAck, TypeOK, Awaited
<1>11. CASE AskNack
  <2>1. gateway' \in Gateway /\ gateway.at = "sending" /\ gateway'.at = "nack" /\ gateway.row \in Rows
    BY <1>11 DEF AskNack, Gateway, TypeOK
  <2>2. \A b \in BOOLEAN : [op |-> "nack", row |-> gateway.row, awaited |-> b] \in Request
    BY <2>1 DEF Request
  <2> QED
    BY <1>11, <2>1, <2>2, AskStep DEF AskNack, TypeOK, Awaited
<1>12. CASE Exit
  <2>1. \A s \in Slots : request[s] # None =>
            [op |-> request[s].op, row |-> request[s].row, awaited |-> FALSE] \in Request
    BY DEF TypeOK, Request
  <2>2. request' \in [Slots -> Request \cup {None}]
    BY <1>12, <2>1 DEF Exit, Free
  <2>3. \A t \in Slots : ~Awaited(t)'
    BY <1>12 DEF Exit, Awaited, Free
  <2> QED
    BY <1>12, <1>g, <2>2, <2>3 DEF Exit, TypeOK
<1>13. ASSUME NEW g \in Groups, Reply(g) PROVE TypeOK'
  BY <1>13, QueueStep DEF Reply, TypeOK, Awaited
<1>14. ASSUME NEW g \in Groups, Outdate(g) PROVE TypeOK'
  BY <1>14 DEF Outdate, TypeOK, Awaited
<1>15. CASE Advance
  BY <1>15, OutboxAssumption DEF Advance, TypeOK, Awaited
<1>16. CASE Mute
  BY <1>16 DEF Mute, TypeOK, Awaited
<1>17. CASE Rest
  BY <1>17 DEF Rest, TypeOK, Awaited
<1>18. ASSUME NEW r \in Rows, Arrive(r) PROVE TypeOK'
  <2>1. delivered' \in [Rows -> BOOLEAN]
    BY <1>18, Zenon DEF Arrive, TypeOK
  <2> QED
    BY <1>18, <2>1 DEF Arrive, TypeOK, Awaited
<1>19. CASE Die
  <2>1. request' = [s \in Slots |-> None]
    BY <1>19 DEF Die
  <2> QED
    BY <1>19, <2>1 DEF Die, TypeOK, Awaited
<1>20. CASE UNCHANGED vars
  BY <1>20 DEF vars, TypeOK, Awaited
<1> QED
  BY <1>1, <1>2, <1>3, <1>4, <1>5, <1>6, <1>7, <1>8, <1>9, <1>10, <1>11, <1>12, <1>13, <1>14,
     <1>15, <1>16, <1>17, <1>18, <1>19, <1>20, Zenon DEF Next, Backend

-----------------------------------------------------------------------------
\* What a step may do to the phase of a row.
Moves(r) ==
    \/ phase'[r] = phase[r]
    \/ phase[r] \in {"absent", "ready"} /\ phase'[r] \in {"ready", "dropped"}
    \/ phase[r] = "ready" /\ phase'[r] = "sending" /\ EarlierSent(r)
    \/ phase[r] = "sending" /\ phase'[r] = "uncertain"
    \/ phase[r] = "sending" /\ phase'[r] = "sent" /\ delivered[r]

\* Every step moves every row along: from queued to claimed or dropped, and from
\* claimed to sent, if it was delivered, or uncertain.
LEMMA RowsMove == TypeOK /\ MessageInv /\ [Next]_vars => \A r \in Rows : Moves(r)
<1> SUFFICES ASSUME TypeOK, MessageInv, [Next]_vars, NEW r \in Rows PROVE Moves(r)
  OBVIOUS
<1> USE DEF store, telegram
<1>q. ASSUME NEW g, Queue(g) PROVE Moves(r)
  BY <1>q, QueueStep DEF Moves
<1>0. ASSUME UNCHANGED phase PROVE Moves(r)
  BY <1>0 DEF Moves
<1>1. ASSUME NEW s \in Slots, Connect(s) PROVE Moves(r)
  BY <1>1 DEF Connect, Recovered, Moves, TypeOK
<1>2. ASSUME NEW s \in Slots, Project(s) PROVE Moves(r)
  BY <1>2, <1>q, <1>0 DEF Project
<1>3. ASSUME NEW s \in Slots, Delivery(s) PROVE Moves(r)
  <2>1. phase'[r] = IF r \in Claimed THEN "sending" ELSE IF r \in Dropped THEN "dropped" ELSE phase[r]
    BY <1>3 DEF Delivery
  <2>2. r \in Claimed => phase[r] = "ready" /\ EarlierSent(r)
    BY DEF Claimed, Claimable, Ready
  <2>3. r \in Dropped => phase[r] = "ready"
    BY DEF Dropped, Ready
  <2> QED
    BY <2>1, <2>2, <2>3 DEF Moves
<1>4. ASSUME NEW s \in Slots, DeliveryTooSoon(s) PROVE Moves(r)
  BY <1>4, <1>0 DEF DeliveryTooSoon
<1>5. ASSUME NEW s \in Slots, Ack(s) PROVE Moves(r)
  <2>1. delivered[request[s].row]
    BY <1>5 DEF Ack, MessageInv
  <2>2. CASE Acknowledgeable(request[s].row)
    <3>1. phase' = [phase EXCEPT ![request[s].row] = "sent"] /\ phase[request[s].row] = "sending"
      BY <1>5, <2>2 DEF Ack, Acknowledgeable
    <3> QED
      BY <2>1, <3>1 DEF Moves, TypeOK
  <2>3. CASE ~Acknowledgeable(request[s].row)
    BY <1>5, <2>3, <1>0 DEF Ack
  <2> QED
    BY <2>2, <2>3
<1>6. ASSUME NEW s \in Slots, Nack(s) PROVE Moves(r)
  BY <1>6 DEF Nack, Acknowledgeable, Moves, TypeOK
<1>7. CASE Start \/ AskNext \/ Send \/ AskAck \/ AskNack \/ Exit
  BY <1>7, <1>0 DEF Start, AskNext, Send, AskAck, AskNack, Exit
<1>8. ASSUME NEW g \in Groups, Reply(g) PROVE Moves(r)
  BY <1>8, <1>q DEF Reply
<1>9. ASSUME NEW g \in Groups, Outdate(g) PROVE Moves(r)
  BY <1>9, <1>0 DEF Outdate
<1>10. CASE Advance \/ Mute \/ Rest \/ Die
  BY <1>10, <1>0 DEF Advance, Mute, Rest, Die
<1>11. ASSUME NEW q \in Rows, Arrive(q) PROVE Moves(r)
  BY <1>11, <1>0 DEF Arrive
<1>12. CASE UNCHANGED vars
  BY <1>12, <1>0 DEF vars
<1> QED
  BY <1>1, <1>2, <1>3, <1>4, <1>5, <1>6, <1>7, <1>8, <1>9, <1>10, <1>11, <1>12, Zenon
     DEF Next, Backend

\* What was claimed stays claimed, what was sent stays sent.
LEMMA PursuedStays ==
  ASSUME TypeOK, TypeOK', \A r \in Rows : Moves(r), NEW r \in Rows
  PROVE  /\ Pursued(r) => Pursued(r)'
         /\ phase[r] = "sent" => phase'[r] = "sent"
         /\ EarlierSent(r) => EarlierSent(r)'
         /\ Pursued(r)' => Pursued(r) \/ EarlierSent(r)
         /\ phase'[r] = "sent" => phase[r] = "sent" \/ delivered[r]
<1>1. \A q \in Rows : phase[q] = "sent" => phase'[q] = "sent"
  BY DEF Moves
<1>2. EarlierSent(r) => EarlierSent(r)'
  BY <1>1 DEF EarlierSent
<1>3. Pursued(r) => Pursued(r)'
  BY DEF Moves, Pursued
<1>4. Pursued(r)' => Pursued(r) \/ EarlierSent(r)
  BY DEF Moves, Pursued
<1>5. phase'[r] = "sent" => phase[r] = "sent" \/ delivered[r]
  BY DEF Moves
<1> QED
  BY <1>1, <1>2, <1>3, <1>4, <1>5

\* A step that sends nothing, starts no acknowledgement and gives the gateway no
\* row but a freshly claimed one preserves the invariant.
LEMMA QuietStep ==
  ASSUME TypeOK, TypeOK', OutboxInv, \A r \in Rows : Moves(r),
         UNCHANGED telegram,
         \A s \in Slots : At(s, "ack")' => At(s, "ack") /\ request'[s].row = request[s].row,
         gateway'.at = "send" => \/ gateway' = gateway
                                 \/ ~Pursued(gateway'.row) /\ Pursued(gateway.row)'
  PROVE  OutboxInv'
<1>1. SentOnce'
  BY DEF OutboxInv, SentOnce, telegram
<1>2. \A r \in Rows : sends[r] \in Nat /\ (~Pursued(r) => sends[r] = 0)
  BY DEF TypeOK, OutboxInv, ClaimInv
<1>3. ClaimInv'
  <2>1. \A r \in Rows : Pursued(r)' => EarlierSent(r)'
    BY PursuedStays DEF OutboxInv, ClaimInv
  <2>2. \A r \in Rows : sends'[r] > 0 => Pursued(r)'
    BY PursuedStays DEF OutboxInv, ClaimInv, telegram
  <2>3. gateway'.at = "send" => gateway'.row \in Rows
    BY DEF TypeOK, Gateway
  <2>4. ASSUME gateway'.at = "send" PROVE Pursued(gateway.row)' /\ sends'[gateway'.row] = 0
    <3>1. CASE gateway' = gateway
      BY <2>3, <2>4, <3>1, PursuedStays DEF OutboxInv, ClaimInv, telegram
    <3>2. CASE ~Pursued(gateway'.row) /\ Pursued(gateway.row)'
      BY <2>3, <2>4, <3>2, <1>2 DEF telegram
    <3> QED
      BY <2>4, <3>1, <3>2
  <2> QED
    BY <2>1, <2>2, <2>4 DEF ClaimInv, Pursued
<1>4. MessageInv'
  <2>1. \A r \in Rows : phase'[r] = "sent" => delivered'[r]
    BY PursuedStays DEF OutboxInv, MessageInv, telegram
  <2>2. \A s \in Slots : At(s, "ack")' => delivered'[request'[s].row]
    BY DEF OutboxInv, MessageInv, telegram
  <2> QED
    BY <2>1, <2>2 DEF OutboxInv, MessageInv, telegram, At
<1> QED
  BY <1>1, <1>3, <1>4 DEF OutboxInv

\* Closing a request starts no acknowledgement.
LEMMA CloseAcks ==
  ASSUME TypeOK, NEW s \in Slots, Closed(s)
  PROVE  \A t \in Slots : At(t, "ack")' => At(t, "ack") /\ request'[t].row = request[t].row
  BY DEF TypeOK, Closed, At

\* The gateway calls sendMessage for a row it holds a fresh claim of.
LEMMA SendStep == TypeOK /\ TypeOK' /\ OutboxInv /\ Send => OutboxInv'
<1> SUFFICES ASSUME TypeOK, TypeOK', OutboxInv, Send PROVE OutboxInv'
  OBVIOUS
<1> USE DEF store
<1>1. gateway.row \in Rows /\ Pursued(gateway.row) /\ sends[gateway.row] = 0
  BY DEF Send, TypeOK, Gateway, OutboxInv, ClaimInv
<1>2. /\ sends' = [sends EXCEPT ![gateway.row] = sends[gateway.row] + 1]
      /\ flight' = flight \cup {gateway.row}
      /\ gateway' = [at |-> "sending", row |-> gateway.row]
      /\ UNCHANGED <<phase, request, delivered>>
  BY DEF Send
<1>3. \A r \in Rows : IF r = gateway.row THEN sends'[r] = 1 ELSE sends'[r] = sends[r]
  BY <1>1, <1>2 DEF TypeOK
<1>4. ~delivered[gateway.row]
  BY <1>1 DEF OutboxInv, MessageInv
<1>5. SentOnce'
  BY <1>3 DEF OutboxInv, SentOnce
<1>6. ClaimInv'
  BY <1>1, <1>2, <1>3 DEF OutboxInv, ClaimInv, Pursued, EarlierSent
<1>7. \A r \in Rows : delivered'[r] => sends'[r] > 0
  BY <1>2, <1>3 DEF OutboxInv, MessageInv
<1>8. \A r \in flight' : sends'[r] > 0 /\ ~delivered'[r]
  BY <1>1, <1>2, <1>3, <1>4 DEF OutboxInv, MessageInv, TypeOK
<1>9. MessageInv'
  BY <1>2, <1>7, <1>8 DEF OutboxInv, MessageInv, At
<1> QED
  BY <1>5, <1>6, <1>9 DEF OutboxInv

\* A message on its way reaches the owner or is lost.
LEMMA ArriveStep ==
  ASSUME TypeOK, TypeOK', OutboxInv, NEW q \in Rows, Arrive(q)
  PROVE  OutboxInv'
<1> USE DEF store
<1>1. UNCHANGED <<phase, gateway, request, sends>> /\ q \in flight /\ flight' = flight \ {q}
  BY DEF Arrive
<1>2. sends[q] > 0
  BY <1>1 DEF OutboxInv, MessageInv
<1>3. \A r \in Rows : delivered[r] => delivered'[r]
  BY Zenon DEF Arrive, TypeOK
<1>4. \A r \in Rows : r # q => delivered'[r] = delivered[r]
  BY Zenon DEF Arrive, TypeOK
<1>5. SentOnce'
  BY <1>1 DEF OutboxInv, SentOnce
<1>6. ClaimInv'
  BY <1>1 DEF OutboxInv, ClaimInv, Pursued, EarlierSent
<1>7. \A r \in Rows : delivered'[r] => sends'[r] > 0
  BY <1>1, <1>2, <1>4 DEF OutboxInv, MessageInv
<1>8. \A r \in flight' : sends'[r] > 0 /\ ~delivered'[r]
  BY <1>1, <1>4 DEF OutboxInv, MessageInv, TypeOK
<1>9. \A r \in Rows : phase'[r] = "sent" => delivered'[r]
  BY <1>1, <1>3 DEF OutboxInv, MessageInv
<1>10. \A s \in Slots : At(s, "ack")' => delivered'[request'[s].row]
  <2>1. \A s \in Slots : At(s, "ack") => request[s].row \in Rows
    BY DEF At, TypeOK, Request
  <2> QED
    BY <1>1, <1>3, <2>1 DEF OutboxInv, MessageInv, At
<1>11. MessageInv'
  BY <1>7, <1>8, <1>9, <1>10 DEF MessageInv, At
<1> QED
  BY <1>5, <1>6, <1>11 DEF OutboxInv

\* Every step preserves the inductive invariant.
LEMMA InvStep == TypeOK /\ TypeOK' /\ OutboxInv /\ [Next]_vars => OutboxInv'
<1> SUFFICES ASSUME TypeOK, TypeOK', OutboxInv, [Next]_vars PROVE OutboxInv'
  OBVIOUS
<1> USE DEF store
<1>m. \A r \in Rows : Moves(r)
  BY RowsMove DEF OutboxInv
<1>q. ASSUME UNCHANGED <<gateway, request, telegram>> PROVE OutboxInv'
  BY <1>m, <1>q, QuietStep DEF At
<1>c. ASSUME NEW s \in Slots, Closed(s), UNCHANGED telegram, gateway' = gateway \/ gateway'.at # "send"
      PROVE  OutboxInv'
  BY <1>m, <1>c, CloseAcks, QuietStep
<1>a. ASSUME NEW op, NEW row, Ask(op, row), op # "ack", gateway'.at # "send", UNCHANGED telegram
      PROVE  OutboxInv'
  <2>1. PICK s \in Slots : request' = [request EXCEPT ![s] = [op |-> op, row |-> row, awaited |-> TRUE]]
    BY <1>a DEF Ask
  <2>2. \A t \in Slots : At(t, "ack")' => At(t, "ack") /\ request'[t].row = request[t].row
    BY <1>a, <2>1 DEF TypeOK, At
  <2> QED
    BY <1>m, <1>a, <2>2, QuietStep
<1>1. ASSUME NEW s \in Slots, Connect(s) PROVE OutboxInv'
  BY <1>1, <1>c DEF Connect, Answered, Polling
<1>2. ASSUME NEW s \in Slots, Project(s) PROVE OutboxInv'
  <2>1. \A t \in Slots : At(t, "ack")' => At(t, "ack") /\ request'[t].row = request[t].row
    BY <1>2 DEF Project, TypeOK, At
  <2> QED
    BY <1>m, <1>2, <2>1, QuietStep DEF Project
<1>3. ASSUME NEW s \in Slots, Delivery(s) PROVE OutboxInv'
  <2>1. gateway'.at = "send" => \/ gateway' = gateway
                                \/ ~Pursued(gateway'.row) /\ Pursued(gateway.row)'
    <3>1. CASE Claimed = {} /\ Answered(s, Polling)
      BY <3>1 DEF Answered, Polling
    <3>2. ASSUME NEW r \in Claimed, Answered(s, [at |-> "send", row |-> r])
          PROVE  gateway' = gateway \/ (~Pursued(gateway'.row) /\ Pursued(gateway.row)')
      <4>1. r \in Rows /\ phase[r] = "ready"
        BY DEF Claimed, Claimable, Ready
      <4>2. phase'[r] = "sending"
        BY <1>3, <4>1 DEF Delivery
      <4>3. gateway' = gateway \/ gateway' = [at |-> "send", row |-> r]
        BY <3>2 DEF Answered
      <4> QED
        BY <4>1, <4>2, <4>3 DEF Pursued
    <3> QED
      BY <1>3, <3>1, <3>2 DEF Delivery
  <2> QED
    BY <1>m, <1>3, <2>1, CloseAcks, QuietStep DEF Delivery
<1>4. ASSUME NEW s \in Slots, DeliveryTooSoon(s) PROVE OutboxInv'
  BY <1>4, <1>c DEF DeliveryTooSoon, Answered, Polling
<1>5. ASSUME NEW s \in Slots, Ack(s) PROVE OutboxInv'
  BY <1>5, <1>c DEF Ack, Answered, Polling, Off
<1>6. ASSUME NEW s \in Slots, Nack(s) PROVE OutboxInv'
  BY <1>6, <1>c DEF Nack, Answered, Off
<1>7. CASE Start
  BY <1>7, <1>a DEF Start
<1>8. CASE AskNext
  BY <1>8, <1>a DEF AskNext
<1>9. CASE Send
  BY <1>9, SendStep
<1>10. CASE AskAck
  <2>1. gateway.row \in Rows /\ delivered[gateway.row] /\ Ask("ack", gateway.row)
    BY <1>10 DEF AskAck, Confirmed, TypeOK, Gateway
  <2>2. PICK s \in Slots :
            request' = [request EXCEPT ![s] = [op |-> "ack", row |-> gateway.row, awaited |-> TRUE]]
    BY <2>1 DEF Ask
  <2>3. \A t \in Slots : At(t, "ack")' => delivered'[request'[t].row]
    BY <1>10, <2>1, <2>2 DEF AskAck, At, TypeOK, OutboxInv, MessageInv, telegram
  <2>4. UNCHANGED <<phase, telegram>> /\ gateway'.at # "send"
    BY <1>10 DEF AskAck
  <2>5. SentOnce' /\ ClaimInv'
    BY <2>4 DEF OutboxInv, SentOnce, ClaimInv, Pursued, EarlierSent, telegram
  <2>6. MessageInv'
    BY <2>3, <2>4 DEF OutboxInv, MessageInv, At, telegram
  <2> QED
    BY <2>5, <2>6 DEF OutboxInv
<1>11. CASE AskNack
  BY <1>11, <1>a DEF AskNack
<1>12. CASE Exit
  <2>1. \A t \in Slots : At(t, "ack")' => At(t, "ack") /\ request'[t].row = request[t].row
    BY <1>12 DEF Exit, TypeOK, At, Free
  <2> QED
    BY <1>m, <1>12, <2>1, QuietStep DEF Exit, Off
<1>13. ASSUME NEW g \in Groups, Reply(g) PROVE OutboxInv'
  BY <1>13, <1>q DEF Reply
<1>14. ASSUME NEW g \in Groups, Outdate(g) PROVE OutboxInv'
  BY <1>14, <1>q DEF Outdate
<1>15. CASE Advance \/ Mute \/ Rest
  BY <1>15, <1>q DEF Advance, Mute, Rest
<1>16. CASE Die
  BY <1>16, <1>m, QuietStep DEF Die, At
<1>17. ASSUME NEW r \in Rows, Arrive(r) PROVE OutboxInv'
  BY <1>17, ArriveStep
<1>18. CASE UNCHANGED vars
  BY <1>18, <1>q DEF vars, telegram
<1> QED
  BY <1>1, <1>2, <1>3, <1>4, <1>5, <1>6, <1>7, <1>8, <1>9, <1>10, <1>11, <1>12, <1>13, <1>14,
     <1>15, <1>16, <1>17, <1>18, Zenon DEF Next, Backend

-----------------------------------------------------------------------------
\* The outbox starts empty.
LEMMA InitOK == Init => TypeOK /\ OutboxInv
<1> SUFFICES ASSUME Init PROVE TypeOK /\ OutboxInv
  OBVIOUS
<1>1. TypeOK
  <2>1. delivered \in [Rows -> BOOLEAN] /\ muted \in BOOLEAN /\ rested \in BOOLEAN
    BY Zenon DEF Init
  <2>2. gateway \in Gateway /\ \A s \in Slots : ~Awaited(s)
    BY DEF Init, Gateway, Awaited
  <2>3. /\ phase \in [Rows -> Phases] /\ id \in [Rows -> Nat] /\ sends \in [Rows -> Nat]
        /\ version \in 0..MaxVersion /\ cursor \in 0..MaxVersion
        /\ request \in [Slots -> Request \cup {None}]
    BY OutboxAssumption DEF Init, Phases
  <2>4. stale \in SUBSET Groups /\ flight \in SUBSET Rows
    BY DEF Init
  <2> QED
    BY <2>1, <2>2, <2>3, <2>4, Zenon DEF TypeOK
<1>2. OutboxInv
  BY DEF Init, OutboxInv, SentOnce, ClaimInv, MessageInv, Pursued, At
<1> QED
  BY <1>1, <1>2

\* Every reachable state of the outbox is well typed, and a gateway waits for
\* the answer to one request.
THEOREM TypeCorrect == Spec => []TypeOK
<1>1. Init => TypeOK
  BY InitOK
<1> QED
  BY <1>1, TypeStep, PTL DEF Spec

\* The inductive invariant holds in every reachable state.
THEOREM InvCorrect == Spec => []OutboxInv
<1>1. Init => OutboxInv
  BY InitOK
<1> QED
  BY <1>1, TypeCorrect, InvStep, PTL DEF Spec

\* No row of the outbox is sent to Telegram twice, for any number of gateways,
\* lost answers and requests that outlive their gateway.
THEOREM NeverSentTwice == Spec => []SentOnce
<1>1. OutboxInv => SentOnce
  BY DEF OutboxInv
<1> QED
  BY <1>1, InvCorrect, PTL

\* A part of a review is sent only after every earlier part has arrived and is
\* recorded as sent, for reviews of any length.
THEOREM PartsCorrect == Spec => []PartsInOrder
<1>1. TypeOK /\ OutboxInv => PartsInOrder
  <2> SUFFICES ASSUME TypeOK, OutboxInv, NEW q \in Rows, NEW r \in Rows,
                      q[1] = r[1], q[2] < r[2], sends[r] > 0
               PROVE  delivered[q] /\ phase[q] = "sent"
    BY DEF PartsInOrder
  <2>1. EarlierSent(r)
    BY DEF OutboxInv, ClaimInv
  <2>2. phase[q] = "sent"
    BY <2>1 DEF EarlierSent
  <2> QED
    BY <2>2 DEF OutboxInv, MessageInv
<1> QED
  BY <1>1, TypeCorrect, InvCorrect, PTL

\* A projection that finds a state to tell of leaves its notice queued: it queues
\* it, or a row of the group is queued, and a notice has one part only.
LEMMA ProjectNotices ==
  ASSUME TypeOK, NEW g \in Labelled, Queue(g)
  PROVE  <<g, 1>> \in Rows /\ phase'[<<g, 1>>] # "absent"
<1>1. g \in Notices /\ g \in Groups /\ g \notin Reviews
  BY OutboxAssumption DEF Groups
<1>2. \A r \in Rows : r[1] = g <=> r = <<g, 1>>
  BY <1>1 DEF Rows, Parts
<1>3. <<g, 1>> \in Rows
  BY <1>1, OutboxAssumption DEF Rows, Parts
<1>4. CASE \E r \in Queued : r[1] = g
  BY <1>2, <1>3, <1>4 DEF Queue, Queued
<1>5. CASE ~ \E r \in Queued : r[1] = g
  BY <1>3, <1>5 DEF Queue
<1> QED
  BY <1>3, <1>4, <1>5

\* Every step keeps the projection behind the job and the notice of the latest
\* state queued.
LEMMA NoticeStep == TypeOK /\ OutboxInv /\ NoticeInv /\ [Next]_vars => NoticeInv'
<1> SUFFICES ASSUME TypeOK, OutboxInv, NoticeInv, [Next]_vars PROVE NoticeInv'
  OBVIOUS
<1> USE DEF store, telegram
<1>t. cursor \in Nat /\ version \in Nat /\ cursor <= version
  BY OutboxAssumption DEF TypeOK, NoticeInv
<1>q. \A r \in Queued : r \in Queued'
  BY RowsMove, Zenon DEF OutboxInv, Moves, Queued
<1>0. ASSUME UNCHANGED <<version, cursor>>, stale \subseteq stale' PROVE NoticeInv'
  BY <1>0, <1>q DEF NoticeInv, LatestNoticed
<1>1. ASSUME NEW s \in Slots, Project(s) PROVE NoticeInv'
  <2>1. cursor' = version /\ UNCHANGED <<version, stale>>
    BY <1>1 DEF Project
  <2>2. ASSUME version \in Labelled \ stale PROVE <<version, 1>> \in Queued'
    <3>1. CASE cursor = version
      BY <2>2, <3>1, <1>q DEF NoticeInv, LatestNoticed
    <3>2. CASE cursor < version
      <4>1. Queue(version)
        BY <1>1, <2>2, <3>2 DEF Project, Projected
      <4> QED
        BY <2>2, <4>1, ProjectNotices DEF Queued
    <3> QED
      BY <1>t, <3>1, <3>2
  <2> QED
    BY <1>t, <2>1, <2>2 DEF NoticeInv, LatestNoticed
<1>2. CASE Advance
  BY <1>2, <1>t DEF Advance, NoticeInv, LatestNoticed
<1>3. CASE \E s \in Slots : Connect(s) \/ Delivery(s) \/ DeliveryTooSoon(s) \/ Ack(s) \/ Nack(s)
  BY <1>3, <1>0 DEF Connect, Delivery, DeliveryTooSoon, Ack, Nack
<1>4. CASE Start \/ AskNext \/ Send \/ AskAck \/ AskNack \/ Exit
  BY <1>4, <1>0 DEF Start, AskNext, Send, AskAck, AskNack, Exit
<1>5. CASE \E g \in Groups : Reply(g) \/ Outdate(g)
  BY <1>5, <1>0 DEF Reply, Outdate
<1>6. CASE Mute \/ Rest \/ Die
  BY <1>6, <1>0 DEF Mute, Rest, Die
<1>7. CASE \E r \in Rows : Arrive(r)
  BY <1>7, <1>0 DEF Arrive
<1>8. CASE UNCHANGED vars
  BY <1>8, <1>0 DEF vars
<1> QED
  BY <1>1, <1>2, <1>3, <1>4, <1>5, <1>6, <1>7, <1>8, Zenon DEF Next, Backend

\* When the projection has caught up with the job, the state the owner should
\* hear of has its notice, for any number of states and concurrent requests.
THEOREM LatestIsNoticed == Spec => []LatestNoticed
<1>1. Init => NoticeInv
  BY OutboxAssumption DEF Init, NoticeInv, LatestNoticed, Notices
<1>2. NoticeInv => LatestNoticed
  BY DEF NoticeInv
<1> QED
  BY <1>1, <1>2, TypeCorrect, InvCorrect, NoticeStep, PTL DEF Spec

\* A step of the outbox is, for each row, a step of the contract or none.
LEMMA ContractStep == TypeOK /\ TypeOK' /\ OutboxInv /\ OutboxInv' /\ [Next]_vars => Contract!ContractNext
<1> SUFFICES ASSUME TypeOK, TypeOK', OutboxInv, OutboxInv', [Next]_vars, NEW r \in Rows
             PROVE  \/ Contract!CloseReply(r) \/ Contract!ClaimReply(r) \/ Contract!Deliver(r)
                    \/ Contract!Acknowledge(r) \/ Contract!GiveUp(r)
                    \/ Contract!Becomes(r, Record[r])
  BY DEF Contract!ContractNext
<1>1. Moves(r)
  BY RowsMove DEF OutboxInv
<1>2. Record[r] = RecordOf(phase[r]) /\ Record'[r] = RecordOf(phase'[r])
  BY DEF Record
<1>3. CASE delivered'[r] = delivered[r]
  BY <1>1, <1>2, <1>3 DEF Moves, RecordOf, Contract!CloseReply, Contract!ClaimReply,
     Contract!Acknowledge, Contract!GiveUp, Contract!Becomes
<1>4. CASE delivered'[r] # delivered[r]
  <2>1. Arrive(r)
    <3>1. \E q \in Rows : Arrive(q)
      BY <1>4, Zenon DEF Next, Backend, vars, store, telegram, Connect, Project, Delivery, DeliveryTooSoon,
         Ack, Nack, Start, AskNext, Send, AskAck, AskNack, Exit, Reply, Outdate, Advance, Mute, Rest, Die
    <3>2. ASSUME NEW q \in Rows, Arrive(q), q # r PROVE FALSE
      BY <1>4, <3>2, Zenon DEF Arrive, TypeOK
    <3> QED
      BY <3>1, <3>2
  <2>2. r \in flight /\ phase' = phase
    BY <2>1 DEF Arrive, store
  <2>3. sends[r] > 0 /\ ~delivered[r]
    BY <2>2 DEF OutboxInv, MessageInv
  <2>4. phase[r] \in {"sending", "uncertain"}
    BY <2>3 DEF OutboxInv, ClaimInv, MessageInv, Pursued
  <2>5. delivered'[r]
    BY <1>4, <2>3, Zenon DEF TypeOK
  <2> QED
    BY <1>2, <2>2, <2>3, <2>4, <2>5 DEF RecordOf, Contract!Deliver
<1> QED
  BY <1>3, <1>4

\* The outbox implements ReplyContract, row by row: one claim, at most one
\* message after it, sent recorded only for what arrived, and no way back.
THEOREM ImplementsContract == Spec => KeepsContract
<1>1. Init => Contract!ContractInit
  BY DEF Init, Contract!ContractInit, Record, RecordOf
<1>2. TypeOK /\ TypeOK' /\ OutboxInv /\ OutboxInv' /\ [Next]_vars
        => [Contract!ContractNext]_Contract!contractVars
  BY ContractStep
<1> QED
  BY <1>1, <1>2, TypeCorrect, InvCorrect, PTL DEF Spec, KeepsContract, Contract!ContractSpec

-----------------------------------------------------------------------------
(* The event ledger and the stream of a job.                               *)

\* What an event of a job is.
LEMMA EventIs ==
  ASSUME StreamTypeOK, NEW j, NEW i \in EventsOf(j)
  PROVE  /\ i \in Nat /\ 1 <= i /\ i <= Len(events)
         /\ events[i].sequence \in Nat /\ events[i].job = j
<1>1. i \in DOMAIN events /\ events[i].job = j
  BY DEF EventsOf
<1>2. DOMAIN events = 1..Len(events) /\ Len(events) \in Nat
  BY DEF StreamTypeOK
<1>3. events[i] \in [job : Jobs, sequence : Nat, key : Keys \cup {NoKey}]
  <2> DEFINE E == [job : Jobs, sequence : Nat, key : Keys \cup {NoKey}]
  <2>1. events \in Seq(E)
    BY DEF StreamTypeOK
  <2> HIDE DEF E
  <2>2. events[i] \in E
    BY <1>1, <2>1
  <2> QED
    BY <2>2 DEF E
<1> QED
  BY <1>1, <1>2, <1>3

\* A new sequence is above those of the job's events.
LEMMA NextIsNext ==
  ASSUME StreamTypeOK, LedgerInOrder, NEW j
  PROVE  /\ NextSequence(j) \in Nat /\ NextSequence(j) > 0
         /\ \A i \in EventsOf(j) : events[i].sequence < NextSequence(j)
<1>1. CASE EventsOf(j) = {}
  BY <1>1 DEF NextSequence
<1>2. CASE EventsOf(j) # {}
  <2> DEFINE R == OpToRel(<, Nat)
             T == {Len(events) - i : i \in EventsOf(j)}
             S == {events[i].sequence : i \in EventsOf(j)}
  <2>0. T \subseteq Nat /\ T # {} /\ Len(events) \in Nat
    BY <1>2, EventIs DEF StreamTypeOK
  <2>1. IsWellFoundedOn(R, Nat)
    BY NatLessThanWellFounded
  <2>2. \A a, b \in Nat : a < b => <<a, b>> \in R
    BY DEF OpToRel
  <2> HIDE DEF R
  <2>3. PICK t \in T : \A q \in T : <<q, t>> \notin R
    BY <2>0, <2>1, WFMin
  <2>4. PICK top \in EventsOf(j) : t = Len(events) - top
    BY <2>3
  <2>5. ASSUME NEW i \in EventsOf(j) PROVE i <= top
    <3>1. Len(events) - i \in T /\ Len(events) - i \in Nat
      BY <2>0
    <3>2. ~(Len(events) - i < t)
      BY <2>0, <2>2, <2>3, <3>1
    <3> QED
      BY <2>0, <2>4, <3>2, EventIs
  <2>6. ASSUME NEW i \in EventsOf(j) PROVE events[i].sequence <= events[top].sequence
    <3>1. CASE i = top
      BY <3>1, EventIs
    <3>2. CASE i < top
      BY <3>2, EventIs DEF LedgerInOrder, EventsOf
    <3> QED
      BY <2>5, <3>1, <3>2, EventIs
  <2>7. \A a \in S : a \in Nat
    BY EventIs
  <2>8. \E x \in S : \A y \in S : x >= y
    BY <2>6, <2>7
  <2>9. Max(S) \in S /\ \A y \in S : Max(S) >= y
    BY <2>8 DEF Max
  <2>10. NextSequence(j) = 1 + Max(S)
    BY <1>2 DEF NextSequence
  <2>11. \A i \in EventsOf(j) : events[i].sequence \in S
    OBVIOUS
  <2> HIDE DEF S
  <2>12. Max(S) \in Nat
    BY <2>7, <2>9
  <2>13. ASSUME NEW i \in EventsOf(j) PROVE events[i].sequence < NextSequence(j)
    BY <2>7, <2>9, <2>10, <2>11, <2>12
  <2> QED
    BY <2>10, <2>12, <2>13
<1> QED
  BY <1>1, <1>2

\* What an appended event changes.
LEMMA AppendedIs ==
  ASSUME StreamTypeOK, NEW j \in Jobs, NEW k \in Keys \cup {NoKey}, AppendEvent(j, k)
  PROVE  /\ Len(events') = Len(events) + 1
         /\ \A i \in DOMAIN events : i \in DOMAIN events' /\ events'[i] = events[i]
         /\ \A i \in DOMAIN events' : i \in DOMAIN events \/ i = Len(events) + 1
         /\ events'[Len(events) + 1] = [job |-> j, sequence |-> NextSequence(j), key |-> k]
BY DEF StreamTypeOK, AppendEvent

\* The type is preserved.
LEMMA StreamTypeStep == StreamTypeOK /\ StreamInv /\ [StreamNext]_streamVars => StreamTypeOK'
<1> SUFFICES ASSUME StreamTypeOK, StreamInv, [StreamNext]_streamVars
             PROVE  StreamTypeOK'
  OBVIOUS
<1> USE DEF StreamTypeOK
<1>1. ASSUME NEW j \in Jobs, NEW k \in Keys \cup {NoKey}, AppendEvent(j, k) PROVE StreamTypeOK'
  <2>1. NextSequence(j) \in Nat
    BY NextIsNext DEF StreamInv
  <2>2. [job |-> j, sequence |-> NextSequence(j), key |-> k]
            \in [job : Jobs, sequence : Nat, key : Keys \cup {NoKey}]
    BY <2>1
  <2> QED
    BY <1>1, <2>2 DEF AppendEvent
<1>2. ASSUME NEW j \in Jobs, Select(j) PROVE StreamTypeOK'
  BY <1>2 DEF Select, NoSource, Source
<1>3. CASE Subscribe
  <2>1. source.cursor # 0 => events[source.cursor].sequence \in Nat
    BY EventIs DEF StreamInv, LastIsShown
  <2> QED
    BY <1>3, <2>1 DEF Subscribe, StartAfter, Source
<1>4. CASE Query
  <2>1. ListAfter(page.job, source.sequence) \subseteq Nat
    BY EventIs DEF ListAfter, Later
  <2> QED
    BY <1>4, <2>1 DEF Query, Source
<1>5. CASE SendFrame
  <2>1. PICK i \in source.batch :
            /\ wire' = Append(wire, i)
            /\ source' = [source EXCEPT !.at = IF source.batch = {i} THEN "query" ELSE "send",
                                        !.sequence = events[i].sequence,
                                        !.batch = @ \ {i}]
    BY <1>5 DEF SendFrame
  <2>2. i \in Nat /\ events[i].sequence \in Nat
    BY <1>5, EventIs DEF SendFrame, StreamInv, GeneratorKnows, Later
  <2>3. source' \in Source
    BY <2>1, <2>2 DEF Source
  <2>4. wire' \in Seq(Nat)
    BY <2>1, <2>2
  <2> QED
    BY <1>5, <2>3, <2>4 DEF SendFrame
<1>6. CASE Fail
  <2>1. source' \in Source
    BY <1>6 DEF Fail, Source
  <2>2. wire' \in Seq(Nat)
    BY <1>6 DEF Fail, Error
  <2> QED
    BY <1>6, <2>1, <2>2 DEF Fail
<1>7. CASE ConnectStream
  BY <1>7 DEF ConnectStream, NoSource, Source
<1>8. CASE Break
  <2>1. source' \in Source
    BY <1>8 DEF Break, Source
  <2> QED
    BY <1>8, <2>1 DEF Break
<1>9. CASE Show
  <2>1. Head(wire) \in Nat /\ Tail(wire) \in Seq(Nat)
    BY <1>9 DEF Show
  <2>2. source' \in Source
    BY <1>9, <2>1 DEF Show, Source
  <2>3. page' \in [job : Jobs, shown : Seq(Nat), last : Nat]
    <3>1. Append(page.shown, Head(wire)) \in Seq(Nat)
      BY <2>1
    <3> QED
      BY <1>9, <2>1, <3>1 DEF Show
  <2> QED
    BY <1>9, <2>1, <2>2, <2>3 DEF Show
<1>10. CASE ShowError
  <2>1. source' \in Source
    BY <1>10 DEF ShowError, NoSource, Source
  <2> QED
    BY <1>10, <2>1 DEF ShowError
<1>11. CASE RefuseSubscription
  <2>1. source' \in Source
    BY <1>11 DEF RefuseSubscription, Source
  <2> QED
    BY <1>11, <2>1 DEF RefuseSubscription
<1>12. CASE UNCHANGED streamVars
  BY <1>12 DEF streamVars
<1> QED
  BY <1>1, <1>2, <1>3, <1>4, <1>5, <1>6, <1>7, <1>8, <1>9, <1>10, <1>11, <1>12 DEF StreamNext

\* The ledger stays in order.
LEMMA LedgerStep == StreamTypeOK /\ LedgerInOrder /\ [StreamNext]_streamVars => LedgerInOrder'
<1> SUFFICES ASSUME StreamTypeOK, LedgerInOrder, [StreamNext]_streamVars
             PROVE  LedgerInOrder'
  OBVIOUS
<1>1. ASSUME NEW j \in Jobs, NEW k \in Keys \cup {NoKey}, AppendEvent(j, k) PROVE LedgerInOrder'
  <2>1. \A i \in DOMAIN events : i \in Nat /\ i <= Len(events)
    BY DEF StreamTypeOK
  <2>2. ASSUME NEW i \in DOMAIN events, events[i].job = j
        PROVE  events[i].sequence < NextSequence(j)
    BY <2>2, NextIsNext DEF EventsOf
  <2>3. NextSequence(j) \in Nat /\ NextSequence(j) > 0
    BY NextIsNext
  <2>4. Len(events) \in Nat
    BY DEF StreamTypeOK
  <2> DEFINE n == Len(events) + 1
  <2>5. /\ \A i \in DOMAIN events' : i = n \/ (i \in DOMAIN events /\ events'[i] = events[i])
        /\ events'[n].job = j /\ events'[n].sequence = NextSequence(j)
    <3>1. events'[n] = [job |-> j, sequence |-> NextSequence(j), key |-> k]
      BY <1>1, AppendedIs
    <3> QED
      BY <1>1, <3>1, AppendedIs
  <2>6. \A i \in DOMAIN events' : events'[i].sequence > 0
    BY <2>3, <2>5 DEF LedgerInOrder
  <2>7. ASSUME NEW i \in DOMAIN events', NEW m \in DOMAIN events', i < m, events'[i].job = events'[m].job
        PROVE  events'[i].sequence < events'[m].sequence
    <3>1. i \in DOMAIN events /\ events'[i] = events[i]
      BY <2>1, <2>4, <2>5, <2>7
    <3>2. CASE m = n
      BY <2>2, <2>5, <2>7, <3>1, <3>2
    <3>3. CASE m \in DOMAIN events /\ events'[m] = events[m]
      BY <2>7, <3>1, <3>3 DEF LedgerInOrder
    <3> QED
      BY <2>5, <3>2, <3>3
  <2> QED
    BY <2>6, <2>7 DEF LedgerInOrder
<1>2. CASE UNCHANGED events
  BY <1>2 DEF LedgerInOrder
<1> QED
  BY <1>1, <1>2 DEF StreamNext, streamVars, Select, Subscribe, Query, SendFrame, Fail,
                    RefuseSubscription, ConnectStream, Break, Show, ShowError

\* What a sequence of ids is, and what is appended to it or taken from it.
LEMMA IdsAre ==
  ASSUME NEW q \in Seq(Nat)
  PROVE  /\ Len(q) \in Nat /\ DOMAIN q = 1..Len(q)
         /\ \A n \in DOMAIN q : q[n] \in Nat
         /\ \A x \in Nat :
                /\ DOMAIN Append(q, x) = 1..(Len(q) + 1)
                /\ Append(q, x)[Len(q) + 1] = x
                /\ \A n \in DOMAIN q : Append(q, x)[n] = q[n]
         /\ q # <<>> =>
                /\ 1 \in DOMAIN q /\ Head(q) = q[1]
                /\ DOMAIN Tail(q) = 1..(Len(q) - 1)
                /\ \A n \in DOMAIN Tail(q) : n + 1 \in DOMAIN q /\ Tail(q)[n] = q[n + 1]
OBVIOUS

\* An event that is appended comes after all that has been read.
LEMMA AppendKeeps ==
  ASSUME StreamTypeOK, StreamInv,
         NEW j \in Jobs, NEW k \in Keys \cup {NoKey}, AppendEvent(j, k)
  PROVE  StreamIsPrefix' /\ LastIsShown' /\ WireInOrder' /\ GeneratorKnows'
<1> DEFINE E == EventsOf(page.job)
           n == Len(events) + 1
<1>0. page' = page /\ source' = source /\ wire' = wire
  BY DEF AppendEvent
<1>1. \A i \in E : /\ i \in EventsOf(page.job)' /\ events'[i] = events[i]
                   /\ i \in Nat /\ i < n /\ events[i].sequence \in Nat
  <2>1. ASSUME NEW i \in E PROVE i \in EventsOf(page.job)' /\ events'[i] = events[i]
    BY <1>0, AppendedIs DEF EventsOf
  <2>2. ASSUME NEW i \in E PROVE i \in Nat /\ i < n /\ events[i].sequence \in Nat
    BY EventIs DEF StreamTypeOK
  <2> QED
    BY <2>1, <2>2
<1>2. LedgerInOrder'
  BY LedgerStep DEF StreamInv, StreamNext
<1>3. n \in Nat
  BY DEF StreamTypeOK
<1>4. ASSUME NEW i \in EventsOf(page.job)', i \notin E
      PROVE  /\ i = n /\ events'[n].sequence > 0 /\ events'[n].sequence \in Nat
             /\ \A e \in E : events[e].sequence < events'[n].sequence
  <2>1. i \in DOMAIN events' /\ events'[i].job = page.job
    BY <1>0 DEF EventsOf
  <2>2. i = n
    BY <1>4, <2>1, AppendedIs DEF EventsOf
  <2>3. events'[n] = [job |-> j, sequence |-> NextSequence(j), key |-> k]
    BY AppendedIs
  <2>4. j = page.job
    BY <2>1, <2>2, <2>3
  <2>5. /\ NextSequence(j) \in Nat /\ NextSequence(j) > 0
        /\ \A e \in E : events[e].sequence < NextSequence(j)
    BY <2>4, NextIsNext DEF StreamInv
  <2>6. events'[n].sequence = NextSequence(j)
    BY <2>3
  <2> QED
    BY <2>2, <2>5, <2>6
<1>5. StreamIsPrefix'
  <2>1. ASSUME NEW m \in DOMAIN page.shown, NEW i \in EventsOf(page.job)', i < page.shown[m]
        PROVE  Shown(i)
    <3>1. page.shown[m] \in E
      BY DEF StreamInv, StreamIsPrefix
    <3>2. i \in E
      BY <1>1, <1>3, <1>4, <2>1, <3>1
    <3> QED
      BY <2>1, <3>2 DEF StreamInv, StreamIsPrefix
  <2> QED
    BY <1>0, <1>1, <2>1 DEF StreamInv, StreamIsPrefix, Shown
<1>6. LastIsShown'
  BY <1>0, <1>1 DEF StreamInv, LastIsShown, Shown
<1>7. WireInOrder'
  <2>1. ASSUME NEW m \in DOMAIN wire, wire[m] # Error, NEW i \in EventsOf(page.job)', i < wire[m]
        PROVE  i \in E
    <3>1. wire[m] \in E
      BY <2>1 DEF StreamInv, WireInOrder
    <3> QED
      BY <1>1, <1>3, <1>4, <2>1, <3>1
  <2> QED
    BY <1>0, <1>1, <2>1 DEF StreamInv, WireInOrder
<1>8. GeneratorKnows'
  <2> SUFFICES ASSUME source.at \in {"query", "send"} PROVE GeneratorKnows'
    BY <1>0 DEF GeneratorKnows
  <2>0. source.sequence \in Nat /\ source.cursor \in Nat
    BY DEF StreamTypeOK, Source
  <2>1. source.sequence # 0 => \E i \in EventsOf(page.job)' : events'[i].sequence = source.sequence
    BY <1>1 DEF StreamInv, GeneratorKnows
  <2>2. ASSUME NEW i \in E PROVE Passed(i) <=> ~Follows(i, source.sequence)'
    BY <1>0, <1>1 DEF StreamInv, GeneratorKnows, Follows
  <2>3. ASSUME NEW i \in EventsOf(page.job)', i \notin E
        PROVE  ~Passed(i) /\ events'[i].sequence > source.sequence
    <3>1. i = n
      BY <1>4, <2>3
    <3>2. events'[n].sequence > source.sequence
      BY <1>4, <2>0, <2>3 DEF StreamInv, GeneratorKnows
    <3>3. source.cursor < n
      BY <1>1, <1>3, <2>0 DEF StreamInv, LastIsShown
    <3>4. \A m \in DOMAIN wire : wire[m] # n
      BY <1>1, <1>3 DEF StreamInv, WireInOrder, Error
    <3> QED
      BY <1>3, <2>0, <3>1, <3>2, <3>3, <3>4 DEF Passed, OnWire
  <2>4. ASSUME NEW i \in source.batch, source.at = "send"
        PROVE  /\ i \in Later(page.job, source.sequence)'
               /\ Earlier(page.job, source.sequence, i)' \subseteq source.batch
    <3>1. i \in E /\ events[i].sequence > source.sequence
      BY <2>4 DEF StreamInv, GeneratorKnows, Later, Follows
    <3>2. ASSUME NEW e \in Earlier(page.job, source.sequence, i)'
          PROVE  e \in source.batch
      <4>1. e \in EventsOf(page.job)' /\ events'[e].sequence > source.sequence
                /\ events'[e].sequence < events'[i].sequence
        BY <1>0, <3>2 DEF Earlier, Later, Follows
      <4>2. e \in E
        BY <1>1, <1>4, <3>1, <4>1
      <4> QED
        BY <1>1, <2>4, <3>1, <4>1, <4>2 DEF StreamInv, GeneratorKnows, Earlier, Later, Follows
    <3> QED
      BY <1>0, <1>1, <3>1, <3>2 DEF Later, Follows
  <2> QED
    BY <1>0, <2>1, <2>2, <2>3, <2>4 DEF GeneratorKnows, Passed, OnWire, Follows
<1> QED
  BY <1>5, <1>6, <1>7, <1>8

\* A page that keeps what it shows.
LEMMA PageKeeps ==
  ASSUME StreamInv, UNCHANGED <<events, page>>
  PROVE  StreamIsPrefix'
BY DEF StreamInv, StreamIsPrefix, Shown, EventsOf

\* Nothing is read or on its way while there is no stream.
LEMMA NoStreamKeeps ==
  ASSUME StreamInv, UNCHANGED <<events, page>>, wire' = <<>>,
         source'.at \notin {"query", "send"}, source'.cursor \in {0, source.cursor}
  PROVE  StreamIsPrefix' /\ LastIsShown' /\ WireInOrder' /\ GeneratorKnows'
<1>1. LastIsShown'
  BY DEF StreamInv, LastIsShown, Shown, EventsOf
<1>2. WireInOrder'
  BY DEF WireInOrder
<1>3. GeneratorKnows'
  BY DEF GeneratorKnows
<1> QED
  BY <1>1, <1>2, <1>3, PageKeeps

\* A generator begins after the event of its cursor, of which the browser has
\* all that come before.
LEMMA SubscribeKeeps ==
  ASSUME StreamTypeOK, StreamInv, Subscribe
  PROVE  StreamIsPrefix' /\ LastIsShown' /\ WireInOrder' /\ GeneratorKnows'
<1> DEFINE c == source.cursor
<1>1. /\ UNCHANGED <<events, page, wire>> /\ wire = <<>>
      /\ source'.at = "query" /\ source'.cursor = c /\ source'.sequence = StartAfter
      /\ c \in Nat
  BY DEF Subscribe, StreamTypeOK, Source, StreamInv, WireInOrder
<1>2. LastIsShown'
  BY <1>1 DEF StreamInv, LastIsShown, Shown, EventsOf
<1>3. WireInOrder'
  BY <1>1 DEF WireInOrder
<1>4. c # 0 => c \in EventsOf(page.job) /\ StartAfter = events[c].sequence
  BY DEF StreamInv, LastIsShown, StartAfter
<1>5. ASSUME NEW i \in EventsOf(page.job) PROVE i <= c <=> ~(events[i].sequence > StartAfter)
  <2>1. CASE c = 0
    <3>1. i \in Nat /\ 1 <= i /\ events[i].sequence > 0
      BY EventIs DEF StreamInv, LedgerInOrder, EventsOf
    <3> QED
      BY <2>1, <3>1 DEF StartAfter
  <2>2. CASE c # 0
    <3>1. i < c => events[i].sequence < events[c].sequence
      BY <1>4, <2>2, EventIs DEF StreamInv, LedgerInOrder, EventsOf
    <3>2. c < i => events[c].sequence < events[i].sequence
      BY <1>4, <2>2, EventIs DEF StreamInv, LedgerInOrder, EventsOf
    <3>3. /\ i \in Nat /\ c \in Nat
          /\ events[i].sequence \in Nat /\ events[c].sequence \in Nat
      BY <1>4, <2>2, EventIs
    <3> QED
      BY <1>4, <2>2, <3>1, <3>2, <3>3
  <2> QED
    BY <2>1, <2>2
<1>6. GeneratorKnows'
  <2>1. StartAfter # 0 => \E i \in EventsOf(page.job) : events[i].sequence = StartAfter
    BY <1>4 DEF StartAfter
  <2>2. \A i : ~OnWire(i)'
    BY <1>1 DEF OnWire
  <2> QED
    BY <1>1, <1>5, <2>1, <2>2 DEF GeneratorKnows, Passed, Follows, EventsOf
<1> QED
  BY <1>1, <1>2, <1>3, <1>6, PageKeeps

\* A batch has the events that come first.
LEMMA BatchIsFirst ==
  ASSUME StreamTypeOK, NEW j, NEW s \in Nat, NEW i \in ListAfter(j, s)
  PROVE  i \in Later(j, s) /\ Earlier(j, s, i) \subseteq ListAfter(j, s)
<1>1. i \in Later(j, s) /\ Cardinality(Earlier(j, s, i)) < BatchSize
  BY DEF ListAfter
<1>2. ASSUME NEW e \in Earlier(j, s, i) PROVE e \in ListAfter(j, s)
  <2>1. e \in Later(j, s) /\ events[e].sequence < events[i].sequence
    BY <1>2 DEF Earlier
  <2>2. \A l \in Later(j, s) : events[l].sequence \in Nat /\ l \in 1..Len(events)
    BY EventIs DEF Later, StreamTypeOK
  <2>3. Earlier(j, s, e) \subseteq Earlier(j, s, i)
    BY <1>1, <2>1, <2>2 DEF Earlier
  <2>4. IsFiniteSet(Earlier(j, s, i))
    <3>1. IsFiniteSet(1..Len(events))
      BY FS_Interval DEF StreamTypeOK
    <3>2. Earlier(j, s, i) \subseteq 1..Len(events)
      BY <2>2 DEF Earlier
    <3> QED
      BY <3>1, <3>2, FS_Subset
  <2>5. /\ Cardinality(Earlier(j, s, e)) <= Cardinality(Earlier(j, s, i))
        /\ IsFiniteSet(Earlier(j, s, e))
    BY <2>3, <2>4, FS_Subset
  <2>6. Cardinality(Earlier(j, s, e)) \in Nat /\ Cardinality(Earlier(j, s, i)) \in Nat
    BY <2>4, <2>5, FS_CardinalityType
  <2> QED
    BY <1>1, <2>1, <2>5, <2>6, StreamAssumption DEF ListAfter
<1> QED
  BY <1>1, <1>2

LEMMA QueryKeeps ==
  ASSUME StreamTypeOK, StreamInv, Query
  PROVE  StreamIsPrefix' /\ LastIsShown' /\ WireInOrder' /\ GeneratorKnows'
<1>1. /\ UNCHANGED <<events, page, wire>> /\ source.at = "query"
      /\ source'.at = "send" /\ source'.cursor = source.cursor
      /\ source'.sequence = source.sequence /\ source.sequence \in Nat
      /\ source'.batch = ListAfter(page.job, source.sequence)
  BY DEF Query, StreamTypeOK, Source
<1>2. LastIsShown'
  BY <1>1 DEF StreamInv, LastIsShown, Shown, EventsOf
<1>3. WireInOrder'
  BY <1>1 DEF StreamInv, WireInOrder, EventsOf
<1>4. GeneratorKnows'
  <2>1. \A i \in source'.batch : /\ i \in Later(page.job, source.sequence)
                                 /\ Earlier(page.job, source.sequence, i) \subseteq source'.batch
    BY <1>1, BatchIsFirst
  <2>2. Later(page.job, source.sequence)' = Later(page.job, source.sequence)
    BY <1>1 DEF Later, Follows, EventsOf
  <2>3. \A i : Earlier(page.job, source.sequence, i)' = Earlier(page.job, source.sequence, i)
    BY <1>1, <2>2 DEF Earlier
  <2> QED
    BY <1>1, <2>1, <2>2, <2>3 DEF StreamInv, GeneratorKnows, Passed, OnWire, Follows, EventsOf
<1> QED
  BY <1>1, <1>2, <1>3, <1>4, PageKeeps

\* In a job, the order of ids and that of sequences agree.
LEMMA SameOrder ==
  ASSUME StreamTypeOK, LedgerInOrder, NEW j, NEW i \in EventsOf(j), NEW e \in EventsOf(j)
  PROVE  /\ e < i <=> events[e].sequence < events[i].sequence
         /\ e = i <=> events[e].sequence = events[i].sequence
<1>1. /\ i \in Nat /\ e \in Nat
      /\ events[i].sequence \in Nat /\ events[e].sequence \in Nat
  BY EventIs
<1>2. e < i => events[e].sequence < events[i].sequence
  BY DEF LedgerInOrder, EventsOf
<1>3. i < e => events[i].sequence < events[e].sequence
  BY DEF LedgerInOrder, EventsOf
<1> QED
  BY <1>1, <1>2, <1>3

\* The frame that is sent is the event after those the generator has passed.
LEMMA SendFrameKeeps ==
  ASSUME StreamTypeOK, StreamInv, SendFrame
  PROVE  StreamIsPrefix' /\ LastIsShown' /\ WireInOrder' /\ GeneratorKnows'
<1> DEFINE E == EventsOf(page.job)
           c == source.cursor
           s == source.sequence
<1>1. PICK i \in source.batch :
          /\ \A e \in source.batch : events[i].sequence <= events[e].sequence
          /\ wire' = Append(wire, i)
          /\ source' = [source EXCEPT !.at = IF source.batch = {i} THEN "query" ELSE "send",
                                      !.sequence = events[i].sequence,
                                      !.batch = @ \ {i}]
  BY DEF SendFrame
<1>2. UNCHANGED <<events, page>> /\ source.at = "send"
  BY DEF SendFrame
<1>3. /\ source'.at \in {"query", "send"} /\ source'.cursor = c
      /\ source'.sequence = events[i].sequence /\ source'.batch = source.batch \ {i}
      /\ c \in Nat /\ s \in Nat
  BY <1>1 DEF StreamTypeOK, Source
<1>4. \A b \in source.batch : /\ b \in E /\ events[b].sequence > s
                              /\ \A e \in E : events[e].sequence > s /\ events[e].sequence < events[b].sequence
                                                  => e \in source.batch
  BY <1>2 DEF StreamInv, GeneratorKnows, Later, Earlier, Follows
<1>5. i \in E /\ i \in Nat /\ i # Error /\ events[i].sequence \in Nat /\ events[i].sequence > s
  BY <1>1, <1>4, EventIs DEF Error
<1>6. \A e \in E : e \in Nat /\ events[e].sequence \in Nat
  BY EventIs
<1>7. \A e \in E : /\ e < i <=> events[e].sequence < events[i].sequence
                   /\ e = i <=> events[e].sequence = events[i].sequence
  BY <1>5, SameOrder DEF StreamInv
<1>8. ASSUME NEW e \in E, events[e].sequence > s PROVE events[i].sequence <= events[e].sequence
  BY <1>1, <1>4, <1>5, <1>6, <1>8
<1>9. \A e \in E : Passed(e) <=> ~(events[e].sequence > s)
  BY <1>2 DEF StreamInv, GeneratorKnows, Follows
<1>10. ASSUME NEW e \in E PROVE Passed(e) <=> e < i
  BY <1>3, <1>5, <1>6, <1>7, <1>8, <1>9
<1>11. /\ DOMAIN wire' = 1..(Len(wire) + 1) /\ wire'[Len(wire) + 1] = i
       /\ DOMAIN wire = 1..Len(wire) /\ Len(wire) \in Nat
       /\ \A n \in DOMAIN wire : wire'[n] = wire[n] /\ wire[n] \in Nat
  BY <1>1, <1>5, IdsAre DEF StreamTypeOK
<1>12. LastIsShown'
  BY <1>2, <1>3 DEF StreamInv, LastIsShown, Shown, EventsOf
<1>13. WireInOrder'
  <2> DEFINE l == Len(wire) + 1
  <2>0. /\ \A m, n \in DOMAIN wire : m < n /\ wire[m] # Error /\ wire[n] # Error => wire[m] < wire[n]
        /\ \A n \in DOMAIN wire : wire[n] # Error =>
               /\ wire[n] \in E /\ c < wire[n]
               /\ \A e \in E : c < e /\ e < wire[n] => \E m \in DOMAIN wire : m < n /\ wire[m] = e
    BY DEF StreamInv, WireInOrder
  <2>1. /\ \A n \in DOMAIN wire' : n = l \/ (n \in DOMAIN wire /\ wire'[n] = wire[n])
        /\ \A n \in DOMAIN wire : n \in DOMAIN wire' /\ n < l
        /\ wire'[l] = i
    BY <1>11
  <2> HIDE DEF l
  <2>2. c < i
    BY <1>3, <1>5, <1>10 DEF Passed
  <2>3. ASSUME NEW m \in DOMAIN wire, wire[m] # Error PROVE wire[m] \in E /\ wire[m] < i
    BY <1>10, <2>3 DEF StreamInv, WireInOrder, Passed, OnWire
  <2>4. ASSUME NEW e \in E, c < e, e < i PROVE \E m \in DOMAIN wire' : m < l /\ wire'[m] = e
    <3>1. OnWire(e)
      BY <1>3, <1>6, <1>10, <2>4 DEF Passed
    <3> QED
      BY <1>11, <2>1, <3>1 DEF OnWire
  <2>5. ASSUME NEW m \in DOMAIN wire', NEW n \in DOMAIN wire', m < n, Error \notin {wire'[m], wire'[n]}
        PROVE  wire'[m] < wire'[n]
    <3>1. m \in DOMAIN wire
      <4>1. m # l
        BY <1>11, <2>1, <2>5 DEF l
      <4> QED
        BY <2>1, <2>5, <4>1
    <3>2. CASE n = l
      <4>1. wire'[m] = wire[m] /\ wire'[n] = i /\ wire[m] # Error
        BY <1>11, <2>1, <2>5, <3>1, <3>2
      <4> QED
        BY <2>3, <3>1, <4>1
    <3>3. CASE n \in DOMAIN wire
      <4>1. wire'[m] = wire[m] /\ wire'[n] = wire[n] /\ wire[m] # Error /\ wire[n] # Error
        BY <1>11, <2>5, <3>1, <3>3
      <4> QED
        BY <2>0, <2>5, <3>1, <3>3, <4>1
    <3> QED
      BY <2>1, <3>2, <3>3
  <2>6. ASSUME NEW n \in DOMAIN wire', wire'[n] # Error
        PROVE  /\ wire'[n] \in E /\ c < wire'[n]
               /\ \A e \in E : c < e /\ e < wire'[n] => \E m \in DOMAIN wire' : m < n /\ wire'[m] = e
    <3>1. CASE n = l
      BY <1>5, <2>1, <2>2, <2>4, <3>1
    <3>2. CASE n \in DOMAIN wire
      <4>1. wire[n] # Error /\ wire'[n] = wire[n]
        BY <1>11, <2>6, <3>2
      <4>2. ASSUME NEW e \in E, c < e, e < wire[n]
            PROVE  \E m \in DOMAIN wire' : m < n /\ wire'[m] = e
        <5>1. PICK m \in DOMAIN wire : m < n /\ wire[m] = e
          BY <2>0, <3>2, <4>1, <4>2
        <5> QED
          BY <1>11, <2>1, <5>1
      <4> QED
        BY <2>0, <3>2, <4>1, <4>2
    <3> QED
      BY <2>1, <3>1, <3>2
  <2>7. E' = E
    BY <1>2 DEF EventsOf
  <2> QED
    BY <1>2, <1>3, <2>5, <2>6, <2>7 DEF WireInOrder
<1>14. GeneratorKnows'
  <2>1. E' = E
    BY <1>2 DEF EventsOf
  <2>2. ASSUME NEW e \in E PROVE Passed(e)' <=> ~(events[e].sequence > events[i].sequence)
    <3>1. OnWire(e)' <=> OnWire(e) \/ e = i
      BY <1>11 DEF OnWire
    <3>2. Passed(e)' <=> Passed(e) \/ e = i
      BY <1>3, <3>1 DEF Passed
    <3> QED
      <4>1. Passed(e)' <=> events[e].sequence < events[i].sequence \/ events[e].sequence = events[i].sequence
        BY <1>7, <1>10, <3>2
      <4>2. events[e].sequence \in Nat /\ events[i].sequence \in Nat
        BY <1>5, <1>6
      <4> QED
        BY <4>1, <4>2
  <2>3. ASSUME NEW b \in source.batch, b # i
        PROVE  /\ b \in E /\ events[b].sequence > events[i].sequence
               /\ \A e \in E : events[e].sequence > events[i].sequence /\ events[e].sequence < events[b].sequence
                                   => e \in source.batch \ {i}
    <3>1. b \in E /\ events[b].sequence > events[i].sequence
      <4>1. b \in E /\ events[b].sequence > s
        BY <1>4
      <4>2. events[i].sequence <= events[b].sequence /\ events[i].sequence # events[b].sequence
        BY <1>1, <1>7, <2>3, <4>1
      <4>3. events[b].sequence \in Nat /\ events[i].sequence \in Nat
        BY <1>5, <1>6, <4>1
      <4> QED
        BY <4>1, <4>2, <4>3
    <3>2. ASSUME NEW e \in E, events[e].sequence > events[i].sequence, events[e].sequence < events[b].sequence
          PROVE  e \in source.batch \ {i}
      <4>1. events[e].sequence > s
        <5>1. events[e].sequence \in Nat /\ events[i].sequence \in Nat /\ s \in Nat
          BY <1>3, <1>5, <1>6
        <5> QED
          BY <1>5, <3>2, <5>1
      <4>2. e \in source.batch
        BY <1>4, <3>2, <4>1
      <4>3. events[e].sequence # events[i].sequence
        BY <1>5, <1>6, <3>2
      <4> QED
        BY <4>2, <4>3
    <3> QED
      BY <3>1, <3>2
  <2> QED
    BY <1>2, <1>3, <1>5, <2>1, <2>2, <2>3 DEF GeneratorKnows, Later, Earlier, Follows
<1> QED
  BY <1>2, <1>12, <1>13, <1>14, PageKeeps

\* An error frame is no event.
LEMMA FailKeeps ==
  ASSUME StreamTypeOK, StreamInv, Fail
  PROVE  StreamIsPrefix' /\ LastIsShown' /\ WireInOrder' /\ GeneratorKnows'
<1>1. /\ UNCHANGED <<events, page>> /\ wire' = Append(wire, Error)
      /\ source'.at = "ended" /\ source'.cursor = source.cursor
  BY DEF Fail, StreamTypeOK, Source
<1>2. LastIsShown'
  BY <1>1 DEF StreamInv, LastIsShown, Shown, EventsOf
<1>3. WireInOrder'
  <2>1. /\ \A n \in DOMAIN wire : n \in DOMAIN wire' /\ wire'[n] = wire[n]
        /\ \A n \in DOMAIN wire' : wire'[n] # Error => n \in DOMAIN wire
    <3>1. Error \in Nat
      BY DEF Error
    <3> QED
      BY <1>1, <3>1, IdsAre DEF StreamTypeOK
  <2>2. EventsOf(page.job)' = EventsOf(page.job)
    BY <1>1 DEF EventsOf
  <2>3. ASSUME NEW m \in DOMAIN wire', NEW n \in DOMAIN wire', m < n, Error \notin {wire'[m], wire'[n]}
        PROVE  wire'[m] < wire'[n]
    <3>1. /\ m \in DOMAIN wire /\ n \in DOMAIN wire
          /\ wire'[m] = wire[m] /\ wire'[n] = wire[n] /\ Error \notin {wire[m], wire[n]}
      BY <2>1, <2>3
    <3> QED
      BY <2>3, <3>1 DEF StreamInv, WireInOrder
  <2>4. ASSUME NEW n \in DOMAIN wire', wire'[n] # Error
        PROVE  /\ wire'[n] \in EventsOf(page.job) /\ source.cursor < wire'[n]
               /\ \A e \in EventsOf(page.job) : source.cursor < e /\ e < wire'[n] =>
                      \E m \in DOMAIN wire' : m < n /\ wire'[m] = e
    <3>1. n \in DOMAIN wire /\ wire'[n] = wire[n] /\ wire[n] # Error
      BY <2>1, <2>4
    <3>2. ASSUME NEW e \in EventsOf(page.job), source.cursor < e, e < wire[n]
          PROVE  \E m \in DOMAIN wire' : m < n /\ wire'[m] = e
      <4>1. PICK m \in DOMAIN wire : m < n /\ wire[m] = e
        BY <3>1, <3>2 DEF StreamInv, WireInOrder
      <4> QED
        BY <2>1, <4>1
    <3> QED
      BY <3>1, <3>2 DEF StreamInv, WireInOrder
  <2> QED
    BY <1>1, <2>2, <2>3, <2>4 DEF WireInOrder
<1>4. GeneratorKnows'
  BY <1>1 DEF GeneratorKnows
<1> QED
  BY <1>1, <1>2, <1>3, <1>4, PageKeeps

\* The frame that is shown is the event after the last one shown, or one that
\* had been shown before.
LEMMA ShowKeeps ==
  ASSUME StreamTypeOK, StreamInv, Show
  PROVE  StreamIsPrefix' /\ LastIsShown' /\ WireInOrder' /\ GeneratorKnows'
<1> DEFINE E == EventsOf(page.job)
           c == source.cursor
           l == Len(page.shown) + 1
<1>0. PICK i : i = Head(wire)
  OBVIOUS
<1>1. /\ wire # <<>> /\ i # Error /\ wire' = Tail(wire) /\ UNCHANGED events
      /\ page' = IF Fresh(i) THEN [page EXCEPT !.shown = Append(@, i), !.last = i] ELSE page
  BY <1>0 DEF Show
<1>2. /\ source'.at = source.at /\ source'.cursor = i /\ source'.sequence = source.sequence
      /\ source'.batch = source.batch /\ c \in Nat
  BY <1>0 DEF Show, StreamTypeOK, Source
<1>3. /\ 1 \in DOMAIN wire /\ i = wire[1]
      /\ DOMAIN wire = 1..Len(wire) /\ Len(wire) \in Nat
      /\ DOMAIN wire' = 1..(Len(wire) - 1)
      /\ \A n \in DOMAIN wire' : n + 1 \in DOMAIN wire /\ wire'[n] = wire[n + 1]
  BY <1>0, <1>1, IdsAre DEF StreamTypeOK
<1>4. /\ i \in E /\ c < i
      /\ \A e \in E : c < e /\ e < i => FALSE
  <2>1. /\ i \in E /\ c < i
        /\ \A e \in E : c < e /\ e < i => \E m \in DOMAIN wire : m < 1 /\ wire[m] = e
    BY <1>1, <1>3 DEF StreamInv, WireInOrder
  <2> QED
    BY <1>3, <2>1
<1>5. \A e \in E : e \in Nat /\ 1 <= e
  BY EventIs
<1>6. /\ page.last \in Nat /\ Len(page.shown) \in Nat /\ DOMAIN page.shown = 1..Len(page.shown)
      /\ \A n \in DOMAIN page.shown : page.shown[n] \in Nat
      /\ page.job \in Jobs
  BY IdsAre DEF StreamTypeOK
<1>7. page'.job = page.job /\ E' = E
  BY <1>1, <1>6 DEF EventsOf, StreamTypeOK
<1>8. c <= page.last
  BY <1>2, <1>6 DEF StreamInv, LastIsShown
<1>9. StreamIsPrefix' /\ LastIsShown'
  <2>1. CASE ~Fresh(i)
    <3>1. page' = page /\ i <= page.last
      BY <1>1, <1>4, <1>5, <1>6, <2>1 DEF Fresh
    <3>2. LastIsShown'
      BY <1>2, <1>4, <1>7, <3>1 DEF StreamInv, LastIsShown, Shown
    <3> QED
      BY <1>1, <3>1, <3>2, PageKeeps
  <2>2. CASE Fresh(i)
    <3>1. /\ page'.shown = Append(page.shown, i) /\ page'.last = i /\ page.last < i
          /\ i \in Nat
      BY <1>1, <1>4, <1>5, <2>2 DEF Fresh, StreamTypeOK
    <3>2. /\ DOMAIN page'.shown = 1..l /\ page'.shown[l] = i
          /\ \A n \in DOMAIN page.shown : page'.shown[n] = page.shown[n]
      BY <3>1, IdsAre DEF StreamTypeOK
    <3>3. /\ \A n \in 1..l : n = l \/ (n \in DOMAIN page.shown /\ page'.shown[n] = page.shown[n])
          /\ \A n \in DOMAIN page.shown : n \in 1..l /\ n < l /\ page'.shown[n] = page.shown[n]
          /\ l \in 1..l /\ l \in Nat
      BY <1>6, <3>2
    <3>4. /\ \A m, n \in DOMAIN page.shown : m < n => page.shown[m] < page.shown[n]
          /\ \A n \in DOMAIN page.shown :
                 /\ page.shown[n] \in E /\ page.shown[n] <= page.last
                 /\ \A e \in E : e < page.shown[n] => Shown(e)
          /\ page.last # 0 => Shown(page.last)
      BY DEF StreamInv, StreamIsPrefix, LastIsShown
    <3> HIDE DEF l
    <3>5. \A e : Shown(e) => Shown(e)'
      BY <3>1, <3>2, <3>3 DEF Shown
    <3>6. ASSUME NEW e \in E, e < i PROVE Shown(e)
      <4>1. e <= page.last
        BY <1>2, <1>4, <1>5, <1>6, <1>8, <3>6
      <4>2. page.last # 0
        BY <1>5, <4>1
      <4>3. PICK n \in DOMAIN page.shown : page.shown[n] = page.last
        BY <3>4, <4>2 DEF Shown
      <4>4. CASE e = page.last
        BY <4>3, <4>4 DEF Shown
      <4>5. CASE e < page.last
        BY <3>4, <4>3, <4>5
      <4> QED
        BY <1>5, <1>6, <4>1, <4>4, <4>5
    <3>7. ASSUME NEW m \in 1..l, NEW n \in 1..l, m < n
          PROVE  page'.shown[m] < page'.shown[n]
      <4>1. m \in DOMAIN page.shown /\ page'.shown[m] = page.shown[m]
        BY <3>3, <3>7
      <4>2. CASE n = l
        BY <1>6, <3>1, <3>2, <3>4, <4>1, <4>2
      <4>3. CASE n \in DOMAIN page.shown
        BY <3>3, <3>4, <3>7, <4>1, <4>3
      <4> QED
        BY <3>3, <4>2, <4>3
    <3>8. ASSUME NEW n \in 1..l
          PROVE  /\ page'.shown[n] \in E
                 /\ \A e \in E : e < page'.shown[n] => Shown(e)'
      <4>1. CASE n = l
        BY <1>4, <3>2, <3>5, <3>6, <4>1
      <4>2. CASE n \in DOMAIN page.shown
        BY <3>3, <3>4, <3>5, <4>2
      <4> QED
        BY <3>3, <4>1, <4>2
    <3>9. StreamIsPrefix'
      BY <1>7, <3>2, <3>7, <3>8 DEF StreamIsPrefix
    <3>10. \A n \in 1..l : page'.shown[n] <= i
      <4>1. ASSUME NEW n \in DOMAIN page.shown PROVE page.shown[n] <= i
        BY <1>6, <3>1, <3>4
      <4> QED
        BY <3>1, <3>2, <3>3, <4>1
    <3>11. Shown(page.last)'
      BY <3>1, <3>2, <3>3 DEF Shown
    <3>12. LastIsShown'
      <4>1. (\A n \in DOMAIN page.shown : page.shown[n] <= page.last)'
        BY <3>1, <3>2, <3>10
      <4>2. source'.cursor \in E' /\ source'.cursor <= page'.last
        BY <1>2, <1>4, <1>7, <3>1
      <4> QED
        BY <3>11, <4>1, <4>2 DEF LastIsShown
    <3> QED
      BY <3>9, <3>12
  <2> QED
    BY <2>1, <2>2
<1>10. /\ \A m, n \in DOMAIN wire : m < n /\ wire[m] # Error /\ wire[n] # Error => wire[m] < wire[n]
       /\ \A n \in DOMAIN wire : wire[n] # Error =>
              /\ wire[n] \in E /\ c < wire[n]
              /\ \A e \in E : c < e /\ e < wire[n] => \E m \in DOMAIN wire : m < n /\ wire[m] = e
       /\ source.at \notin {"none", "connecting", "closed", "failed"}
  BY <1>1 DEF StreamInv, WireInOrder
<1>11. WireInOrder'
  <2>1. ASSUME NEW m \in DOMAIN wire', NEW n \in DOMAIN wire', m < n, wire'[m] # Error, wire'[n] # Error
        PROVE  wire'[m] < wire'[n]
    <3>1. m + 1 \in DOMAIN wire /\ n + 1 \in DOMAIN wire /\ m + 1 < n + 1
      BY <1>3, <2>1
    <3> QED
      BY <1>3, <1>10, <2>1, <3>1
  <2>2. ASSUME NEW n \in DOMAIN wire', wire'[n] # Error
        PROVE  /\ wire'[n] \in E /\ i < wire'[n]
               /\ \A e \in E : i < e /\ e < wire'[n] => \E m \in DOMAIN wire' : m < n /\ wire'[m] = e
    <3>1. n + 1 \in DOMAIN wire /\ wire'[n] = wire[n + 1] /\ 1 < n + 1
      BY <1>3, <2>2
    <3>2. wire'[n] \in E /\ i < wire'[n]
      BY <1>1, <1>3, <1>10, <2>2, <3>1
    <3>3. ASSUME NEW e \in E, i < e, e < wire'[n]
          PROVE  \E m \in DOMAIN wire' : m < n /\ wire'[m] = e
      <4>1. c < e
        BY <1>2, <1>4, <1>5, <3>3
      <4>2. PICK m \in DOMAIN wire : m < n + 1 /\ wire[m] = e
        BY <1>10, <2>2, <3>1, <3>3, <4>1
      <4>3. m # 1
        BY <1>3, <1>4, <1>5, <3>3, <4>2
      <4>4. m - 1 \in DOMAIN wire' /\ m - 1 < n /\ (m - 1) + 1 = m
        BY <1>3, <4>2, <4>3
      <4> QED
        BY <1>3, <4>2, <4>4
    <3> QED
      BY <3>2, <3>3
  <2> QED
    BY <1>2, <1>7, <1>10, <2>1, <2>2 DEF WireInOrder
<1>12. GeneratorKnows'
  <2>1. ASSUME NEW e \in E PROVE Passed(e)' <=> Passed(e)
    <3>1. OnWire(e) <=> e = i \/ OnWire(e)'
      <4>1. OnWire(e)' => OnWire(e)
        BY <1>3 DEF OnWire
      <4>2. ASSUME NEW m \in DOMAIN wire, wire[m] = e, e # i PROVE OnWire(e)'
        <5>1. m - 1 \in DOMAIN wire' /\ (m - 1) + 1 = m
          BY <1>3, <4>2
        <5> QED
          BY <1>3, <4>2, <5>1 DEF OnWire
      <4> QED
        BY <1>3, <4>1, <4>2 DEF OnWire
    <3>2. e <= i <=> e <= c \/ e = i
      BY <1>2, <1>4, <1>5
    <3> QED
      BY <1>2, <3>1, <3>2 DEF Passed
  <2>2. \A e : Follows(e, source.sequence)' <=> Follows(e, source.sequence)
    BY <1>1, <1>2 DEF Follows
  <2>3. Later(page.job, source.sequence)' = Later(page.job, source.sequence)
    BY <1>1, <1>2, <1>7, <2>2 DEF Later
  <2>4. \A b : Earlier(page.job, source.sequence, b)' = Earlier(page.job, source.sequence, b)
    BY <1>1, <2>3 DEF Earlier
  <2> QED
    BY <1>1, <1>2, <1>7, <2>1, <2>2, <2>3, <2>4 DEF StreamInv, GeneratorKnows
<1> QED
  BY <1>9, <1>11, <1>12

\* Another job is selected: nothing of it is shown yet.
LEMMA SelectKeeps ==
  ASSUME StreamTypeOK, NEW j \in Jobs, Select(j)
  PROVE  StreamIsPrefix' /\ LastIsShown' /\ WireInOrder' /\ GeneratorKnows'
BY DEF Select, NoSource, StreamIsPrefix, LastIsShown, WireInOrder, GeneratorKnows

\* The stream is safe over batches, appended events, broken connections and
\* streams that begin again.
THEOREM StreamSafe == StreamSpec => [](StreamTypeOK /\ StreamInv)
<1>1. StreamInit => StreamTypeOK /\ StreamInv
  BY DEF StreamInit, NoSource, Source, StreamTypeOK, StreamInv, StreamIsPrefix, LedgerInOrder,
         LastIsShown, WireInOrder, GeneratorKnows
<1>2. StreamTypeOK /\ StreamInv /\ [StreamNext]_streamVars => (StreamTypeOK /\ StreamInv)'
  <2> SUFFICES ASSUME StreamTypeOK, StreamInv, [StreamNext]_streamVars
               PROVE  StreamIsPrefix' /\ LastIsShown' /\ WireInOrder' /\ GeneratorKnows'
    BY StreamTypeStep, LedgerStep DEF StreamInv
  <2>1. ASSUME NEW j \in Jobs, NEW k \in Keys \cup {NoKey}, AppendEvent(j, k)
        PROVE  StreamIsPrefix' /\ LastIsShown' /\ WireInOrder' /\ GeneratorKnows'
    BY <2>1, AppendKeeps
  <2>2. ASSUME NEW j \in Jobs, Select(j)
        PROVE  StreamIsPrefix' /\ LastIsShown' /\ WireInOrder' /\ GeneratorKnows'
    BY <2>2, SelectKeeps
  <2>3. CASE ConnectStream
    <3>1. /\ UNCHANGED <<events, page>> /\ wire' = <<>>
          /\ source'.at = "connecting" /\ source'.cursor = 0
      BY <2>3 DEF ConnectStream, NoSource, StreamInv, WireInOrder
    <3> QED
      BY <3>1, NoStreamKeeps
  <2>4. CASE Break
    <3>1. /\ UNCHANGED <<events, page>> /\ wire' = <<>>
          /\ source'.at = "connecting" /\ source'.cursor = source.cursor
      BY <2>4 DEF Break, StreamTypeOK, Source
    <3> QED
      BY <3>1, NoStreamKeeps
  <2>5. CASE ShowError
    <3>1. /\ UNCHANGED <<events, page>> /\ wire' = <<>>
          /\ source'.at = "closed" /\ source'.cursor = 0
      BY <2>5 DEF ShowError, NoSource
    <3> QED
      BY <3>1, NoStreamKeeps
  <2>6. CASE RefuseSubscription
    <3>1. /\ UNCHANGED <<events, page>> /\ wire' = <<>>
          /\ source'.at = "failed" /\ source'.cursor = source.cursor
      BY <2>6 DEF RefuseSubscription, StreamTypeOK, Source, StreamInv, WireInOrder
    <3> QED
      BY <3>1, NoStreamKeeps
  <2>7. CASE UNCHANGED streamVars
    BY <2>7 DEF streamVars, StreamInv, StreamIsPrefix, LastIsShown, WireInOrder, GeneratorKnows,
                Shown, EventsOf, OnWire, Passed, Follows, Later, Earlier
  <2> QED
    BY <2>1, <2>2, <2>3, <2>4, <2>5, <2>6, <2>7, SubscribeKeeps, QueryKeeps, SendFrameKeeps, FailKeeps,
       ShowKeeps DEF StreamNext
<1> QED
  BY <1>1, <1>2, PTL DEF StreamSpec

\* StreamIsPrefix: the workspace page shows a job's events in order, without a
\* gap or a duplicate, however the stream is interrupted and resumed.
THEOREM StreamInOrder == StreamSpec => []StreamIsPrefix
<1>1. StreamInv => StreamIsPrefix
  BY DEF StreamInv
<1> QED
  BY <1>1, StreamSafe, PTL

=============================================================================
