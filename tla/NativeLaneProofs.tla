-------------------------- MODULE NativeLaneProofs --------------------------
(* Proofs about the native execution lane, for any number of jobs,         *)
(* projects, profiles and requests and any bounds.                         *)
EXTENDS NativeLane, TLAPS

\* Appending one of the lane's events keeps a ledger a sequence of events.
LEMMA RecordType ==
  ASSUME ledger \in [Jobs -> Seq(Event)], NEW j \in Jobs, NEW e \in Event, Record(j, e)
  PROVE  ledger' \in [Jobs -> Seq(Event)]
<1>1. ledger[j] \in Seq(Event)
  OBVIOUS
<1>2. Append(ledger[j], e) \in Seq(Event)
  BY <1>1
<1> QED
  BY <1>2 DEF Record

\* Every step of the lane keeps its variables in their types.
LEMMA TypeStep == TypeOK /\ [Next]_vars => TypeOK'
<1> SUFFICES ASSUME TypeOK, [Next]_vars PROVE TypeOK'
  OBVIOUS
<1> USE DEF durable, memory, history
<1>t. /\ attempt \in [Jobs -> Attempt]
      /\ team \in [Projects -> Team]
      /\ ledger \in [Jobs -> Seq(Event)]
      /\ task \in [Jobs -> Task]
      /\ turn \in [Jobs -> Turn]
      /\ group \in [Jobs -> Group]
      /\ launches \in [Jobs -> Nat]
      /\ revoked \in [Jobs -> BOOLEAN]
      /\ owner \in Nat
  BY DEF TypeOK
<1>e. {"admitted", "bound", "event", "completion", "cancel", "settled", "reconcile"} \subseteq Event
  BY DEF Event
<1>1. ASSUME NEW h \in Handlers, NEW j \in Jobs, Start(h, j) PROVE TypeOK'
  BY <1>1 DEF TypeOK, Start
<1>2. ASSUME NEW h \in Handlers, Claim(h) PROVE TypeOK'
  <2>1. handler[h] \in Jobs
    BY <1>2 DEF TypeOK, Claim
  <2>2. ASSUME NEW j \in Jobs, handler[h] = j, Admit(h, j) PROVE TypeOK'
    <3>1. attempt' \in [Jobs -> Attempt]
      BY <2>2, <1>t DEF Admit, Attempt, Phases
    <3>2. task' \in [Jobs -> Task]
      BY <2>2, <1>t DEF Admit, Task, Consuming, Outcomes
    <3>3. ledger' \in [Jobs -> Seq(Event)]
      BY <2>2, <1>e, RecordType, <1>t DEF Admit
    <3> QED
      BY <1>2, <2>2, <3>1, <3>2, <3>3 DEF TypeOK, Claim, Admit
  <2>3. CASE Refuse(h)
    BY <1>2, <2>3 DEF TypeOK, Claim, Refuse
  <2> QED
    BY <1>2, <2>1, <2>2, <2>3 DEF Claim
<1>3. ASSUME NEW j \in Jobs, Fail(j) PROVE TypeOK'
  <2>1. task' \in [Jobs -> Task]
    BY <1>3, <1>t DEF Fail, Abandon, Task, Outcomes
  <2> QED
    BY <1>3, <2>1 DEF TypeOK, Fail
<1>4. ASSUME NEW j \in Jobs, Advance(j) PROVE TypeOK'
  <2>1. task' \in [Jobs -> Task]
    BY <1>4, <1>t DEF Advance, Task, Consuming
  <2> QED
    BY <1>4, <2>1 DEF TypeOK, Advance
<1>5. ASSUME NEW j \in Jobs, OpenTurn(j) PROVE TypeOK'
  <2>1. task' \in [Jobs -> Task] /\ turn' \in [Jobs -> Turn]
    BY <1>5, <1>t DEF OpenTurn, Task, Turn, Consuming
  <2> QED
    BY <1>5, <2>1 DEF TypeOK, OpenTurn
<1>6. ASSUME NEW j \in Jobs, Bind(j) PROVE TypeOK'
  <2>1. attempt' \in [Jobs -> Attempt]
    BY <1>6, <1>t DEF Bind, Attempt, Phases
  <2>2. task' \in [Jobs -> Task]
    BY <1>6, <1>t DEF Bind, Task, Consuming
  <2>3. ledger' \in [Jobs -> Seq(Event)]
    BY <1>6, <1>e, RecordType, <1>t DEF Bind
  <2> QED
    BY <1>6, <2>1, <2>2, <2>3 DEF TypeOK, Bind
<1>7. ASSUME NEW j \in Jobs, Complete(j) PROVE TypeOK'
  <2>1. (IF turn[j].stopped THEN turn[j].status ELSE "failed") \in Outcomes
    BY <1>t DEF Turn, Outcomes
  <2>2. task' \in [Jobs -> Task]
    BY <1>7, <2>1, <1>t DEF Complete, Abandon, Task
  <2>3. ledger' \in [Jobs -> Seq(Event)]
    BY <1>7, <1>e, RecordType, <1>t DEF Complete
  <2> QED
    BY <1>7, <2>2, <2>3 DEF TypeOK, Complete
<1>8. ASSUME NEW j \in Jobs, Stream(j) PROVE TypeOK'
  <2>1. ledger' \in [Jobs -> Seq(Event)]
    BY <1>8, <1>e, RecordType, <1>t DEF Stream
  <2> QED
    BY <1>8, <2>1 DEF TypeOK, Stream
<1>9. ASSUME NEW j \in Jobs, Launch(j) PROVE TypeOK'
  <2>1. CASE Spawn(j)
    <3>1. turn' \in [Jobs -> Turn]
      BY <2>1, <1>t DEF Spawn, Turn
    <3>2. group' \in [Jobs -> Group]
      BY <2>1, <1>t DEF Spawn, Group
    <3>3. launches' \in [Jobs -> Nat]
      BY <2>1, <1>t DEF Spawn
    <3> QED
      BY <1>9, <3>1, <3>2, <3>3 DEF TypeOK, Launch
  <2>2. CASE SpawnFails(j)
    <3>1. turn' \in [Jobs -> Turn]
      BY <2>2, <1>t DEF SpawnFails, Turn, Outcomes
    <3> QED
      BY <1>9, <2>2, <3>1 DEF TypeOK, Launch, SpawnFails
  <2> QED
    BY <1>9, <2>1, <2>2 DEF Launch
<1>10. ASSUME NEW j \in Jobs, EndTurn(j) PROVE TypeOK'
  <2>1. PICK confirmed \in BOOLEAN, status \in {"completed", "failed"} :
            /\ turn' = [turn EXCEPT ![j] =
                   [at |-> "ended", status |-> status, stopped |-> confirmed]]
            /\ group' = [group EXCEPT ![j] = IF confirmed THEN "gone" ELSE "orphans"]
    BY <1>10, Zenon DEF EndTurn
  <2>2. turn' \in [Jobs -> Turn]
    BY <2>1, <1>t DEF Turn, Outcomes
  <2>3. group' \in [Jobs -> Group]
    BY <2>1, <1>t DEF Group
  <2> QED
    BY <1>10, <2>2, <2>3 DEF TypeOK, EndTurn
<1>11. ASSUME NEW j \in Jobs, StopJob(j) PROVE TypeOK'
  <2>1. turn' \in [Jobs -> Turn]
    BY <1>11, <1>t DEF StopJob, Turn, Outcomes
  <2>2. group' \in [Jobs -> Group]
    BY <1>11, <1>t DEF StopJob, Group
  <2>3. task' \in [Jobs -> Task]
    BY <1>11, <1>t DEF StopJob, SettleNext, Task
  <2> QED
    BY <1>11, <2>1, <2>2, <2>3 DEF TypeOK, StopJob
<1>12. ASSUME NEW j \in Jobs, StopUnconfirmed(j) PROVE TypeOK'
  <2>1. task' \in [Jobs -> Task]
    BY <1>12, <1>t DEF StopUnconfirmed, SettleNext, Task
  <2> QED
    BY <1>12, <2>1 DEF TypeOK, StopUnconfirmed
<1>13. ASSUME NEW j \in Jobs, StopEscapes(j) PROVE TypeOK'
  <2>1. task' \in [Jobs -> Task]
    BY <1>13, <1>t DEF StopEscapes, NoTask, Task, Outcomes
  <2> QED
    BY <1>13, <2>1 DEF TypeOK, StopEscapes
<1>14. ASSUME NEW j \in Jobs, Settle(j) PROVE TypeOK'
  <2>1. SettledOutcome(j) \in Outcomes
    BY <1>t DEF SettledOutcome, Task, Outcomes
  <2>2. OutcomeState(SettledOutcome(j)) \in {"verifying", "failed", "cancelled"}
    BY <2>1 DEF OutcomeState, Outcomes
  <2>3. task' \in [Jobs -> Task]
    BY <1>14, <1>t DEF Settle, NoTask, Task, Outcomes
  <2>4. CASE Finish(j)
    <3>1. attempt' \in [Jobs -> Attempt]
      BY <2>1, <2>4, <1>t DEF Finish, Attempt, Phases
    <3>2. ledger' \in [Jobs -> Seq(Event)]
      BY <2>4, <1>e, RecordType, <1>t DEF Finish
    <3> QED
      BY <1>14, <2>2, <2>3, <2>4, <3>1, <3>2 DEF TypeOK, Settle, Finish
  <2>5. CASE Quarantine(j)
    <3>1. attempt' \in [Jobs -> Attempt]
      BY <2>5, <1>t DEF Quarantine, Attempt, Phases
    <3>2. ledger' \in [Jobs -> Seq(Event)]
      BY <2>5, <1>e, RecordType, <1>t DEF Quarantine
    <3> QED
      BY <1>14, <2>3, <2>5, <3>1, <3>2 DEF TypeOK, Settle, Quarantine
  <2>6. CASE LeaveHeld
    BY <1>14, <2>3, <2>6 DEF TypeOK, Settle, LeaveHeld
  <2> QED
    BY <1>14, <2>4, <2>5, <2>6 DEF Settle
<1>15. ASSUME NEW j \in Jobs, Cancel(j) PROVE TypeOK'
  <2>1. attempt' \in [Jobs -> Attempt]
    BY <1>15, <1>t DEF Cancel, Attempt
  <2>2. ledger' \in [Jobs -> Seq(Event)]
    BY <1>15, <1>e, RecordType, <1>t DEF Cancel
  <2> QED
    BY <1>15, <2>1, <2>2 DEF TypeOK, Cancel
<1>16. ASSUME NEW j \in Jobs, GroupExits(j) PROVE TypeOK'
  <2>1. group' \in [Jobs -> Group]
    BY <1>16, <1>t DEF GroupExits, Group
  <2> QED
    BY <1>16, <2>1 DEF TypeOK, GroupExits
<1>17. ASSUME NEW p \in Projects, NEW revision \in 1..MaxRevision,
              NEW enabled \in BOOLEAN, NEW agents \in SUBSET Profiles,
              PutTeam(p, revision, enabled, agents)
       PROVE  TypeOK'
  <2>1. team' \in [Projects -> Team]
    BY <1>17, <1>t DEF PutTeam, Team
  <2>2. attempt' \in [Jobs -> Attempt]
    BY <1>17, <1>t DEF PutTeam, Revoke, Attempt
  <2>3. revoked' \in [Jobs -> BOOLEAN]
    BY <1>17, <1>t, Zenon DEF PutTeam
  <2> QED
    BY <1>17, <2>1, <2>2, <2>3 DEF TypeOK, PutTeam
<1>18. CASE Close
  <2>1. task' \in [Jobs -> Task]
    BY <1>18, <1>t DEF Close, Task, Outcomes
  <2> QED
    BY <1>18, <2>1 DEF TypeOK, Close
<1>f. ForgetMemory => /\ handler' \in [Handlers -> Jobs \cup {NoJob}]
                      /\ task' \in [Jobs -> Task]
                      /\ turn' \in [Jobs -> Turn]
  BY DEF ForgetMemory, NoTask, NoTurn, Task, Turn, Outcomes
<1>19. CASE Exit
  BY <1>19, <1>f DEF TypeOK, Exit
<1>20. CASE Crash
  BY <1>20, <1>f DEF TypeOK, Crash
<1>21. CASE Restart
  BY <1>21 DEF TypeOK, Restart
<1>22. CASE UNCHANGED vars
  BY <1>22 DEF TypeOK, vars
<1> QED
  <2>1. CASE Next
    BY <2>1, <1>1, <1>2, <1>3, <1>4, <1>5, <1>6, <1>7, <1>8, <1>9, <1>10, <1>11, <1>12,
       <1>13, <1>14, <1>15, <1>16, <1>17, <1>18, <1>19, <1>20, <1>21, Zenon
    DEF Next, Consumption, Finally, TurnTask, Poll
  <2> QED
    BY <2>1, <1>22

\* The lane's variables keep their types in every behaviour.
THEOREM TypeCorrect == Spec => []TypeOK
<1>1. Init => TypeOK
  BY LaneAssumption DEF Init, TypeOK, Attempt, Team, Task, Turn, Group, Phases,
     Outcomes, Consuming, NoAttempt, NoTask, NoTurn
<1> QED
  BY <1>1, TypeStep, PTL DEF Spec

-----------------------------------------------------------------------------
(* The inductive invariant.  An action of one job changes that job's row,  *)
(* task, turn and group only: the others keep JobInv by LEMMA Untouched.   *)

SameJob(i) ==
    /\ jobState'[i] = jobState[i]
    /\ attempt'[i] = attempt[i]
    /\ task'[i] = task[i]
    /\ turn'[i] = turn[i]
    /\ group'[i] = group[i]
    /\ launches'[i] = launches[i]
    /\ revoked'[i] = revoked[i]

\* A job none of whose state changes keeps its part of the invariant.
LEMMA Untouched ==
  ASSUME NEW i \in Jobs, JobInv(i), SameJob(i), backend' = backend, owner' = owner
  PROVE  JobInv(i)'
BY DEF JobInv, RowInv, MemoryInv, GroupInv, SameJob, Owned, Writing

\* A step that admits nobody keeps the lane held by one attempt at most.
LEMMA NobodyAdmitted ==
  ASSUME OneHeld, \A i \in Jobs : attempt'[i].held => attempt[i].held
  PROVE  OneHeld'
BY DEF OneHeld

\* Every step of the lane keeps the invariant.
LEMMA LaneStep == TypeOK /\ LaneInv /\ [Next]_vars => LaneInv'
<1> SUFFICES ASSUME TypeOK, LaneInv, [Next]_vars PROVE LaneInv'
  OBVIOUS
<1> USE DEF durable, memory, history
<1>t. /\ jobState \in [Jobs -> {"queued", "running", "verifying", "failed", "cancelled"}]
      /\ attempt \in [Jobs -> Attempt]
      /\ task \in [Jobs -> Task]
      /\ turn \in [Jobs -> Turn]
      /\ group \in [Jobs -> Group]
      /\ launches \in [Jobs -> Nat]
      /\ revoked \in [Jobs -> BOOLEAN]
  BY DEF TypeOK
<1>i. OneHeld /\ \A i \in Jobs : JobInv(i)
  BY DEF LaneInv
<1> DEFINE Kept(j) == /\ \A i \in Jobs \ {j} : SameJob(i)
                      /\ backend' = backend /\ owner' = owner
\* One job acts and keeps its own part; nobody is admitted.
<1>k. ASSUME NEW j \in Jobs, Kept(j), JobInv(j)', attempt'[j].held => attempt[j].held
      PROVE  LaneInv'
  <2>1. \A i \in Jobs : JobInv(i)'
    BY <1>k, <1>i, Untouched
  <2>2. \A i \in Jobs : attempt'[i].held => attempt[i].held
    BY <1>k DEF SameJob
  <2> QED
    BY <2>1, <2>2, <1>i, NobodyAdmitted DEF LaneInv
<1>3. ASSUME NEW j \in Jobs, Fail(j) PROVE LaneInv'
  <2>1. Kept(j)
    BY <1>3, <1>t DEF Fail, Abandon, SameJob
  <2>2. JobInv(j)'
    BY <1>3, <1>t, <1>i DEF Fail, Abandon, JobInv, RowInv, MemoryInv, GroupInv, Owned, Writing, Consuming
  <2> QED
    BY <2>1, <2>2, <1>3, <1>k DEF Fail
<1>1. ASSUME NEW h \in Handlers, NEW j \in Jobs, Start(h, j) PROVE LaneInv'
  <2>1. Kept(j) /\ SameJob(j)
    BY <1>1 DEF Start, SameJob
  <2> QED
    BY <2>1, <1>i, <1>k, <1>1, Untouched DEF Start
<1>2. ASSUME NEW h \in Handlers, Claim(h) PROVE LaneInv'
  <2>1. handler[h] \in Jobs
    BY <1>2 DEF TypeOK, Claim
  <2>2. ASSUME NEW j \in Jobs, Admit(h, j) PROVE LaneInv'
    <3>1. Kept(j)
      BY <2>2, <1>2, <1>t DEF Claim, Admit, SameJob
    <3>2. /\ attempt'[j] = [phase |-> "admitted", held |-> TRUE, cancel |-> FALSE,
                            owner |-> owner, outcome |-> "none"]
          /\ jobState'[j] = "running"
          /\ task'[j] = [at |-> "compat", outcome |-> "failed", stopped |-> FALSE]
          /\ turn' = turn /\ group' = group /\ launches' = launches /\ revoked' = revoked
      BY <2>2, <1>t DEF Admit
    <3>3. attempt[j].phase = "none" /\ backend # "down"
      BY <2>2, <1>2 DEF Admit, Admissible, Claim
    <3>4. turn[j].at = "none"
      BY <3>3, <1>i DEF JobInv, MemoryInv
    <3>5. JobInv(j)'
      BY <3>1, <3>2, <3>3, <3>4, <1>i DEF JobInv, RowInv, MemoryInv, GroupInv, Owned, Writing
    <3>6. OneHeld'
      BY <2>2, <3>1 DEF Admit, Admissible, LaneFree, OneHeld, SameJob
    <3> QED
      BY <3>1, <3>5, <3>6, <1>i, Untouched DEF LaneInv
  <2>3. CASE Refuse(h)
    BY <1>2, <2>3, <1>i, Untouched DEF Claim, Refuse, SameJob, LaneInv, OneHeld
  <2> QED
    BY <1>2, <2>1, <2>2, <2>3 DEF Claim
<1>4. ASSUME NEW j \in Jobs, Advance(j) PROVE LaneInv'
  <2>1. Kept(j)
    BY <1>4, <1>t DEF Advance, SameJob
  <2>2. JobInv(j)'
    BY <1>4, <1>t, <1>i DEF Advance, JobInv, RowInv, MemoryInv, GroupInv, Owned, Writing
  <2> QED
    BY <2>1, <2>2, <1>4, <1>k DEF Advance
<1>5. ASSUME NEW j \in Jobs, OpenTurn(j) PROVE LaneInv'
  <2>1. Kept(j)
    BY <1>5, <1>t DEF OpenTurn, SameJob
  <2>2. JobInv(j)'
    BY <1>5, <1>t, <1>i DEF OpenTurn, Turn, JobInv, RowInv, MemoryInv, GroupInv, Owned, Writing
  <2> QED
    BY <2>1, <2>2, <1>5, <1>k DEF OpenTurn
<1>6. ASSUME NEW j \in Jobs, Bind(j) PROVE LaneInv'
  <2>1. Kept(j)
    BY <1>6, <1>t DEF Bind, SameJob
  <2>2. JobInv(j)'
    BY <1>6, <1>t, <1>i DEF Bind, Attempt, JobInv, RowInv, MemoryInv, GroupInv, Owned, Writing
  <2> QED
    BY <2>1, <2>2, <1>6, <1>k DEF Bind
<1>7. ASSUME NEW j \in Jobs, Complete(j) PROVE LaneInv'
  <2>1. Kept(j)
    BY <1>7, <1>t DEF Complete, Abandon, SameJob
  <2>2. JobInv(j)'
    BY <1>7, <1>t, <1>i DEF Complete, Abandon, JobInv, RowInv, MemoryInv, GroupInv, Owned, Writing
  <2> QED
    BY <2>1, <2>2, <1>7, <1>k DEF Complete
<1>8. ASSUME NEW j \in Jobs, Stream(j) PROVE LaneInv'
  <2>1. Kept(j)
    BY <1>8, <1>t DEF Stream, SameJob
  <2>2. JobInv(j)'
    BY <1>8, <1>t, <1>i DEF Stream, JobInv, RowInv, MemoryInv, GroupInv, Owned, Writing
  <2> QED
    BY <2>1, <2>2, <1>8, <1>k DEF Stream
<1>9. ASSUME NEW j \in Jobs, Launch(j) PROVE LaneInv'
  <2>1. CASE Spawn(j)
    <3>1. Kept(j)
      BY <1>9, <2>1, <1>t DEF Launch, Spawn, SameJob
    <3>2. JobInv(j)'
      BY <1>9, <2>1, <1>t, <1>i
      DEF Launch, Spawn, Check, JobInv, RowInv, MemoryInv, GroupInv, Owned, Writing, Turn
    <3> QED
      BY <1>9, <3>1, <3>2, <1>k DEF Launch
  <2>2. CASE SpawnFails(j)
    <3>1. Kept(j)
      BY <1>9, <2>2, <1>t DEF Launch, SpawnFails, SameJob
    <3>2. JobInv(j)'
      BY <1>9, <2>2, <1>t, <1>i
      DEF Launch, SpawnFails, JobInv, RowInv, MemoryInv, GroupInv, Owned, Writing, Turn
    <3> QED
      BY <1>9, <3>1, <3>2, <1>k DEF Launch
  <2> QED
    BY <1>9, <2>1, <2>2 DEF Launch
<1>10. ASSUME NEW j \in Jobs, EndTurn(j) PROVE LaneInv'
  <2>1. PICK confirmed \in BOOLEAN, status \in {"completed", "failed"} :
            /\ turn' = [turn EXCEPT ![j] =
                   [at |-> "ended", status |-> status, stopped |-> confirmed]]
            /\ group' = [group EXCEPT ![j] = IF confirmed THEN "gone" ELSE "orphans"]
            /\ group[j] = "gone" => confirmed
    BY <1>10, Zenon DEF EndTurn
  <2>2. Kept(j)
    BY <1>10, <2>1, <1>t DEF EndTurn, SameJob
  <2>3. /\ turn'[j] = [at |-> "ended", status |-> status, stopped |-> confirmed]
        /\ group'[j] = IF confirmed THEN "gone" ELSE "orphans"
        /\ UNCHANGED <<jobState, attempt, task, backend, owner, launches, revoked>>
    BY <1>10, <2>1, <1>t DEF EndTurn
  <2>4. turn[j].at = "live" /\ group[j] # "none" /\ (~confirmed => Writing(j))
    BY <1>10, <2>1, <1>t, <1>i DEF EndTurn, JobInv, GroupInv, Writing, Group
  <2>5. RowInv(j)' /\ MemoryInv(j)'
    BY <2>3, <2>4, <1>i DEF JobInv, RowInv, MemoryInv, Owned, EndTurn
  <2>6. GroupInv(j)'
    BY <2>3, <2>4, <1>i DEF JobInv, MemoryInv, GroupInv, Writing
  <2> QED
    BY <1>10, <2>2, <2>3, <2>5, <2>6, <1>k DEF JobInv
<1>12. ASSUME NEW j \in Jobs, StopUnconfirmed(j) PROVE LaneInv'
  <2>1. Kept(j)
    BY <1>12, <1>t DEF StopUnconfirmed, SettleNext, SameJob
  <2>2. JobInv(j)'
    BY <1>12, <1>t, <1>i DEF StopUnconfirmed, SettleNext, JobInv, RowInv, MemoryInv, GroupInv, Owned, Writing
  <2> QED
    BY <2>1, <2>2, <1>12, <1>k DEF StopUnconfirmed
<1>13. ASSUME NEW j \in Jobs, StopEscapes(j) PROVE LaneInv'
  <2>1. Kept(j)
    BY <1>13, <1>t DEF StopEscapes, SameJob
  <2>2. JobInv(j)'
    BY <1>13, <1>t, <1>i DEF StopEscapes, NoTask, JobInv, RowInv, MemoryInv, GroupInv, Owned, Writing
  <2> QED
    BY <2>1, <2>2, <1>13, <1>k DEF StopEscapes
<1>15. ASSUME NEW j \in Jobs, Cancel(j) PROVE LaneInv'
  <2>1. Kept(j)
    BY <1>15, <1>t DEF Cancel, SameJob
  <2>2. JobInv(j)'
    BY <1>15, <1>t, <1>i DEF Cancel, Cancellable, Attempt, JobInv, RowInv, MemoryInv, GroupInv, Owned, Writing
  <2> QED
    BY <2>1, <2>2, <1>15, <1>k DEF Cancel
<1>16. ASSUME NEW j \in Jobs, GroupExits(j) PROVE LaneInv'
  <2>1. Kept(j)
    BY <1>16, <1>t DEF GroupExits, SameJob
  <2>2. JobInv(j)'
    BY <1>16, <1>t, <1>i DEF GroupExits, JobInv, RowInv, MemoryInv, GroupInv, Owned, Writing
  <2> QED
    BY <2>1, <2>2, <1>16, <1>k DEF GroupExits
<1>11. ASSUME NEW j \in Jobs, StopJob(j) PROVE LaneInv'
  <2>1. PICK confirmed \in BOOLEAN :
            /\ turn[j].at = "none" => confirmed
            /\ turn[j].at = "ended" => confirmed = turn[j].stopped
            /\ turn' = IF turn[j].at = "live"
                       THEN [turn EXCEPT ![j] = [at |-> "ended", status |-> "cancelled",
                                                 stopped |-> confirmed]]
                       ELSE turn
            /\ group' = IF turn[j].at = "live"
                        THEN [group EXCEPT ![j] = IF confirmed THEN "gone" ELSE "orphans"]
                        ELSE group
            /\ SettleNext(j, confirmed)
    BY <1>11, Zenon DEF StopJob
  <2>2. Kept(j)
    BY <1>11, <2>1, <1>t DEF StopJob, SettleNext, SameJob
  <2>3. CASE turn[j].at = "live"
    <3>1. JobInv(j)'
      BY <1>11, <2>1, <2>3, <1>t, <1>i
      DEF StopJob, SettleNext, JobInv, RowInv, MemoryInv, GroupInv, Owned, Writing
    <3> QED
      BY <1>11, <2>2, <3>1, <1>k DEF StopJob
  <2>4. CASE turn[j].at # "live"
    <3>1. turn[j].at \in {"none", "ended"}
      BY <1>11, <2>4, <1>t DEF StopJob, Turn
    <3>2. JobInv(j)'
      BY <1>11, <2>1, <2>4, <3>1, <1>t, <1>i
      DEF StopJob, SettleNext, JobInv, RowInv, MemoryInv, GroupInv, Owned, Writing
    <3> QED
      BY <1>11, <2>2, <3>2, <1>k DEF StopJob
  <2> QED
    BY <2>3, <2>4
<1>14. ASSUME NEW j \in Jobs, Settle(j) PROVE LaneInv'
  <2>t. task'[j].at = "none" /\ turn' = turn /\ group' = group /\ launches' = launches
        /\ revoked' = revoked /\ backend' = backend /\ owner' = owner
    BY <1>14, <1>t DEF Settle, NoTask
  <2>h. Owned(j)
    BY <1>14, <1>i DEF Settle, JobInv, MemoryInv
  <2>1. CASE Finish(j)
    <3>1. Kept(j)
      BY <1>14, <2>1, <1>t DEF Settle, Finish, SameJob
    <3>2. SettledOutcome(j) \in Outcomes /\ (attempt[j].cancel => SettledOutcome(j) = "cancelled")
      BY <1>t DEF SettledOutcome, Task, Outcomes
    <3>3. /\ attempt'[j] = [phase |-> "settled", held |-> FALSE, cancel |-> attempt[j].cancel,
                            owner |-> attempt[j].owner, outcome |-> SettledOutcome(j)]
          /\ jobState'[j] = OutcomeState(SettledOutcome(j))
      BY <2>1, <1>t DEF Finish
    <3>4. ~Writing(j) /\ turn[j].at # "pending" /\ turn[j].at # "live"
      BY <1>14, <2>1, <1>i DEF Settle, Finish, MayFinish, JobInv, MemoryInv, GroupInv, Writing
    <3>5. RowInv(j)'
      BY <2>t, <2>h, <3>2, <3>3, <1>i DEF JobInv, RowInv, OutcomeState, Outcomes, Owned
    <3>6. MemoryInv(j)' /\ GroupInv(j)'
      BY <2>t, <3>3, <3>4, <1>i DEF JobInv, MemoryInv, GroupInv, Writing
    <3> QED
      BY <3>1, <3>3, <3>5, <3>6, <1>k DEF JobInv
  <2>2. CASE Quarantine(j)
    <3>1. Kept(j)
      BY <1>14, <2>2, <1>t DEF Settle, Quarantine, SameJob
    <3>2. JobInv(j)'
      BY <2>t, <2>h, <2>2, <1>t, <1>i
      DEF Quarantine, JobInv, RowInv, MemoryInv, GroupInv, Owned, Writing, Attempt
    <3> QED
      BY <2>2, <3>1, <3>2, <2>h, <1>k DEF Quarantine, Owned
  <2>3. CASE LeaveHeld
    <3>1. Kept(j)
      BY <1>14, <2>3, <1>t DEF Settle, LeaveHeld, SameJob
    <3>2. JobInv(j)'
      BY <2>t, <2>3, <1>t, <1>i DEF LeaveHeld, JobInv, RowInv, MemoryInv, GroupInv, Owned, Writing
    <3> QED
      BY <2>3, <3>1, <3>2, <1>k DEF LeaveHeld
  <2> QED
    BY <1>14, <2>1, <2>2, <2>3 DEF Settle
<1>17. ASSUME NEW p \in Projects, NEW revision \in 1..MaxRevision,
              NEW enabled \in BOOLEAN, NEW agents \in SUBSET Profiles,
              PutTeam(p, revision, enabled, agents)
       PROVE  LaneInv'
  <2> DEFINE r == [revision |-> revision + 1, enabled |-> enabled, agents |-> agents]
  <2>1. /\ attempt' = [j \in Jobs |-> IF j \in Withdrawn(p, r)
                                      THEN [attempt[j] EXCEPT !.cancel = TRUE]
                                      ELSE attempt[j]]
        /\ revoked' = [j \in Jobs |-> revoked[j] \/ j \in Withdrawn(p, r)]
        /\ UNCHANGED <<jobState, task, turn, group, backend, owner, launches>>
    BY <1>17, Zenon DEF PutTeam, Revoke
  <2>2. \A j \in Withdrawn(p, r) : attempt[j].held
    BY DEF Withdrawn
  <2> HIDE DEF r
  <2>3. ASSUME NEW j \in Jobs PROVE JobInv(j)' /\ attempt'[j].held = attempt[j].held
    <3>1. CASE j \in Withdrawn(p, r)
      <4>1. attempt'[j] = [attempt[j] EXCEPT !.cancel = TRUE] /\ attempt[j].held
        BY <2>1, <2>2, <3>1
      <4>2. /\ attempt'[j].phase = attempt[j].phase
            /\ attempt'[j].held = attempt[j].held
            /\ attempt'[j].owner = attempt[j].owner
            /\ attempt'[j].cancel
        BY <4>1, <1>t DEF Attempt
      <4> QED
        BY <2>1, <4>1, <4>2, <1>i DEF JobInv, RowInv, MemoryInv, GroupInv, Owned, Writing
    <3>2. CASE j \notin Withdrawn(p, r)
      <4>1. attempt'[j] = attempt[j]
        BY <2>1, <3>2
      <4>2. revoked'[j] = revoked[j]
        BY <2>1, <3>2, <1>t, Zenon
      <4> QED
        BY <2>1, <4>1, <4>2, <1>i, Untouched DEF SameJob
    <3> QED
      BY <3>1, <3>2
  <2> QED
    BY <2>3, <1>i, NobodyAdmitted DEF LaneInv
<1>18. CASE Close
  <2>1. ASSUME NEW j \in Jobs PROVE JobInv(j)'
    BY <1>18, <1>t, <1>i DEF Close, JobInv, RowInv, MemoryInv, GroupInv, Owned, Writing, Consuming
  <2> QED
    BY <1>18, <2>1, <1>i DEF Close, LaneInv, OneHeld
<1>19. CASE Exit
  <2>1. ASSUME NEW j \in Jobs PROVE JobInv(j)'
    BY <1>19, <1>t, <1>i DEF Exit, ForgetMemory, NoTask, NoTurn, JobInv, RowInv, MemoryInv, GroupInv, Owned, Writing
  <2> QED
    BY <1>19, <2>1, <1>i DEF Exit, LaneInv, OneHeld
<1>20. CASE Crash
  <2>1. ASSUME NEW j \in Jobs PROVE JobInv(j)'
    BY <1>20, <1>t, <1>i DEF Crash, ForgetMemory, NoTask, NoTurn, JobInv, RowInv, MemoryInv, GroupInv, Owned, Writing
  <2> QED
    BY <1>20, <2>1, <1>i DEF Crash, LaneInv, OneHeld
<1>21. CASE Restart
  <2>1. ASSUME NEW j \in Jobs PROVE JobInv(j)'
    BY <1>21, <1>t, <1>i DEF Restart, JobInv, RowInv, MemoryInv, GroupInv, Owned, Writing
  <2> QED
    BY <1>21, <2>1, <1>i DEF Restart, LaneInv, OneHeld
<1>22. CASE UNCHANGED vars
  BY <1>22, <1>i, Untouched DEF vars, SameJob, LaneInv, OneHeld
<1> QED
  <2>1. CASE Next
    BY <2>1, <1>1, <1>2, <1>3, <1>4, <1>5, <1>6, <1>7, <1>8, <1>9, <1>10, <1>11, <1>12,
       <1>13, <1>14, <1>15, <1>16, <1>17, <1>18, <1>19, <1>20, <1>21, Zenon
    DEF Next, Consumption, Finally, TurnTask, Poll
  <2> QED
    BY <2>1, <1>22

\* The invariant of the lane holds throughout.
THEOREM LaneInvariant == Spec => []LaneInv
<1>1. Init => LaneInv
  BY DEF Init, LaneInv, OneHeld, JobInv, RowInv, MemoryInv, GroupInv, Owned, Writing,
     NoAttempt, NoTask, NoTurn
<1> QED
  BY <1>1, LaneStep, TypeCorrect, PTL DEF Spec

\* At most one process group writes, whatever crashes, restarts, duplicate
\* starts and failed stops the backend goes through (NativeAttemptRepository
\* claim, finish and quarantine).
THEOREM OneWriter == Spec => []SingleWriter
<1>1. LaneInv => SingleWriter
  BY DEF LaneInv, OneHeld, JobInv, GroupInv, SingleWriter
<1> QED
  BY <1>1, LaneInvariant, PTL

\* A group that may write keeps the lane and its job in running.
THEOREM WriterKeepsLane == Spec => []WriterHoldsLane
<1>1. LaneInv => WriterHoldsLane
  BY DEF LaneInv, JobInv, RowInv, GroupInv, WriterHoldsLane
<1> QED
  BY <1>1, LaneInvariant, PTL

\* A recorded cancellation decides the outcome (finish).
THEOREM CancellationWins == Spec => []CancelWins
<1>1. LaneInv => CancelWins
  BY DEF LaneInv, JobInv, RowInv, CancelWins, OutcomeState
<1> QED
  BY <1>1, LaneInvariant, PTL

\* A withdrawn attempt never counts as completed or failed (put, finish).
THEOREM RevocationIsFinal == Spec => []RevocationSticks
<1>1. TypeOK /\ LaneInv => RevocationSticks
  <2> SUFFICES ASSUME TypeOK, LaneInv, NEW j \in Jobs, revoked[j]
               PROVE  jobState[j] \in {"running", "cancelled"}
    BY DEF RevocationSticks
  <2>1. RowInv(j)
    BY DEF LaneInv, JobInv
  <2>2. attempt[j].phase \in Phases
    BY DEF TypeOK, Attempt
  <2> QED
    BY <2>1, <2>2 DEF RowInv, Phases, OutcomeState
<1> QED
  BY <1>1, LaneInvariant, TypeCorrect, PTL

\* No job is launched twice (claim, _consume, restart).
THEOREM NeverLaunchedTwice == Spec => []LaunchedOnce
<1>1. LaneInv => LaunchedOnce
  BY DEF LaneInv, JobInv, GroupInv, LaunchedOnce
<1> QED
  BY <1>1, LaneInvariant, PTL

-----------------------------------------------------------------------------
(* The ledger after the settlement.                                        *)

\* A settled attempt stays settled and its ledger stays as it is, and a ledger
\* gets native.settled only with the settlement of its attempt.
LedgerStep(j) ==
    /\ attempt[j].phase = "settled" => ledger'[j] = ledger[j] /\ attempt'[j].phase = "settled"
    /\ HasSettled(j)' => HasSettled(j) \/ attempt'[j].phase = "settled"

\* A step that records nothing and moves no attempt to another phase.
LEMMA NothingRecorded ==
  ASSUME ledger' = ledger, NEW j \in Jobs, attempt'[j].phase = attempt[j].phase
  PROVE  LedgerStep(j)
BY DEF LedgerStep, HasSettled

\* A step that records one event of an attempt that has not settled.
LEMMA OneRecorded ==
  ASSUME TypeOK, NEW j \in Jobs, NEW e \in Event, Record(j, e),
         attempt[j].phase # "settled",
         e # "settled" \/ attempt'[j].phase = "settled",
         \A i \in Jobs \ {j} : attempt'[i] = attempt[i],
         NEW i \in Jobs
  PROVE  LedgerStep(i)
<1>1. ledger' = [ledger EXCEPT ![j] = Append(ledger[j], e)] /\ ledger \in [Jobs -> Seq(Event)]
  BY DEF Record, TypeOK
<1>2. CASE i # j
  BY <1>1, <1>2 DEF LedgerStep, HasSettled
<1>3. CASE i = j
  <2>1. ledger'[j] = Append(ledger[j], e) /\ ledger[j] \in Seq(Event)
    BY <1>1
  <2>2. ASSUME e # "settled", NEW k \in DOMAIN ledger'[j], ledger'[j][k] = "settled"
        PROVE  HasSettled(j)
    BY <2>1, <2>2 DEF HasSettled
  <2> QED
    BY <1>3, <2>2 DEF LedgerStep, HasSettled
<1> QED
  BY <1>2, <1>3

\* Every step of the lane, for every job.
LEMMA LedgerSteps == TypeOK /\ LaneInv /\ [Next]_vars => \A i \in Jobs : LedgerStep(i)
<1> SUFFICES ASSUME TypeOK, LaneInv, [Next]_vars, NEW i \in Jobs PROVE LedgerStep(i)
  OBVIOUS
<1> USE DEF durable, memory, history
<1>t. attempt \in [Jobs -> Attempt]
  BY DEF TypeOK
<1>e. {"admitted", "bound", "event", "completion", "cancel", "settled", "reconcile"} \subseteq Event
  BY DEF Event
\* An attempt this backend owns has not settled.
<1>o. \A j \in Jobs : Owned(j) => attempt[j].phase # "settled"
  BY DEF LaneInv, JobInv, RowInv, Owned
<1>0. ASSUME UNCHANGED <<attempt, ledger>> PROVE LedgerStep(i)
  BY <1>0, NothingRecorded
<1>1. ASSUME NEW h \in Handlers, Claim(h) PROVE LedgerStep(i)
  <2>1. handler[h] \in Jobs
    BY <1>1 DEF TypeOK, Claim
  <2>2. ASSUME NEW j \in Jobs, Admit(h, j) PROVE LedgerStep(i)
    <3>1. attempt[j].phase # "settled" /\ Record(j, "admitted")
      BY <2>2 DEF Admit, Admissible
    <3>2. \A k \in Jobs \ {j} : attempt'[k] = attempt[k]
      BY <2>2, <1>t DEF Admit
    <3> QED
      BY <3>1, <3>2, <1>e, OneRecorded
  <2> QED
    BY <1>1, <2>1, <2>2, <1>0 DEF Claim, Refuse
<1>2. ASSUME NEW j \in Jobs, Bind(j) PROVE LedgerStep(i)
  <2>1. \A k \in Jobs \ {j} : attempt'[k] = attempt[k]
    BY <1>2, <1>t DEF Bind
  <2> QED
    BY <1>2, <2>1, <1>e, <1>o, OneRecorded DEF Bind
<1>3. ASSUME NEW j \in Jobs, Stream(j) PROVE LedgerStep(i)
  BY <1>3, <1>e, <1>o, OneRecorded DEF Stream, Check
<1>4. ASSUME NEW j \in Jobs, Complete(j) PROVE LedgerStep(i)
  BY <1>4, <1>e, <1>o, OneRecorded DEF Complete, Check
<1>5. ASSUME NEW j \in Jobs, Settle(j) PROVE LedgerStep(i)
  <2>1. CASE Finish(j)
    <3>1. /\ \A k \in Jobs \ {j} : attempt'[k] = attempt[k]
          /\ attempt'[j].phase = "settled"
      BY <2>1, <1>t DEF Finish
    <3> QED
      BY <2>1, <3>1, <1>e, <1>o, OneRecorded DEF Finish, MayFinish
  <2>2. CASE Quarantine(j)
    <3>1. \A k \in Jobs \ {j} : attempt'[k] = attempt[k]
      BY <2>2, <1>t DEF Quarantine
    <3> QED
      BY <2>2, <3>1, <1>e, <1>o, OneRecorded DEF Quarantine
  <2> QED
    BY <1>5, <2>1, <2>2, <1>0 DEF Settle, LeaveHeld
<1>6. ASSUME NEW j \in Jobs, Cancel(j) PROVE LedgerStep(i)
  <2>1. \A k \in Jobs \ {j} : attempt'[k] = attempt[k]
    BY <1>6, <1>t DEF Cancel
  <2> QED
    BY <1>6, <2>1, <1>e, OneRecorded DEF Cancel, Cancellable
<1>7. ASSUME NEW p \in Projects, NEW revision \in 1..MaxRevision,
             NEW enabled \in BOOLEAN, NEW agents \in SUBSET Profiles,
             PutTeam(p, revision, enabled, agents)
      PROVE  LedgerStep(i)
  <2>1. attempt'[i].phase = attempt[i].phase
    BY <1>7, <1>t DEF PutTeam, Revoke, Attempt
  <2> QED
    BY <1>7, <2>1, NothingRecorded DEF PutTeam
<1>8. ASSUME NEW h \in Handlers, NEW j \in Jobs, Start(h, j) PROVE LedgerStep(i)
  BY <1>8, <1>0 DEF Start
<1>9. ASSUME NEW j \in Jobs,
             Fail(j) \/ Advance(j) \/ OpenTurn(j) \/ TurnTask(j) \/ StopJob(j)
                \/ StopUnconfirmed(j) \/ StopEscapes(j) \/ GroupExits(j)
      PROVE  LedgerStep(i)
  BY <1>9, <1>0 DEF Fail, Advance, OpenTurn, TurnTask, Launch, EndTurn, StopJob,
     StopUnconfirmed, StopEscapes, GroupExits
<1>10. CASE Close \/ Exit \/ Crash \/ Restart \/ UNCHANGED vars
  BY <1>10, <1>0 DEF Close, Exit, Crash, Restart, vars
<1> QED
  BY <1>1, <1>2, <1>3, <1>4, <1>5, <1>6, <1>7, <1>8, <1>9, <1>10, Zenon
     DEF Next, Consumption, Finally, Poll

\* Once native.settled is in the ledger the native history of the job is closed,
\* for any number of jobs, events, restarts and late cancellations.
THEOREM LedgerCloses == Spec => SettledIsLast
<1>1. Init => LedgerInv
  BY DEF Init, LedgerInv, HasSettled
<1>2. TypeOK /\ LaneInv /\ LedgerInv /\ [Next]_vars => LedgerInv'
  BY LedgerSteps DEF LedgerStep, LedgerInv
<1>3. TypeOK /\ LaneInv /\ LedgerInv /\ [Next]_vars
        => [\A j \in Jobs : (\E i \in DOMAIN ledger[j] : ledger[j][i] = "settled")
                                => ledger'[j] = ledger[j]]_vars
  BY LedgerSteps DEF LedgerStep, LedgerInv, HasSettled
<1> QED
  BY <1>1, <1>2, <1>3, TypeCorrect, LaneInvariant, PTL DEF Spec, SettledIsLast

=============================================================================
