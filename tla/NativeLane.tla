----------------------------- MODULE NativeLane -----------------------------
(***************************************************************************)
(* The native execution lane: the durable attempts of native_attempts, the *)
(* team rosters that authorize them, the asyncio supervisor of one backend *)
(* process, the Codex turn it drives and the operating-system process      *)
(* group that writes the worktree.                                         *)
(*                                                                         *)
(* Every database call is one BEGIN IMMEDIATE transaction, hence one step. *)
(* The backend runs one event loop: a handler or a task gives way only at  *)
(* an await, and the model splits actions exactly there.  A crash loses    *)
(* what is in memory (handlers, supervisors, turns) and nothing else: the  *)
(* process group was started in its own session and survives the backend.  *)
(***************************************************************************)
EXTENDS Naturals, Sequences, FiniteSets, JobLifecycle

CONSTANTS
    Jobs,         \* submitted Codex jobs with a bound worktree
    Projects,
    Profiles,     \* agent profiles of the configured agent system
    ProjectOf,    \* the project of a job
    ProfileOf,    \* the profile frozen in the job's request snapshot
    Handlers,     \* concurrent POST /execution requests
    NoJob,
    MaxRevision,  \* bound: team edits per project
    MaxOwner,     \* bound: starts of the backend
    MaxEvents     \* bound: provider events before the completion

ASSUME LaneAssumption ==
    /\ ProjectOf \in [Jobs -> Projects]
    /\ ProfileOf \in [Jobs -> Profiles]
    /\ NoJob \notin Jobs
    /\ MaxRevision \in Nat
    /\ MaxOwner \in Nat
    /\ MaxEvents \in Nat

VARIABLES
    jobState,   \* jobs.state
    attempt,    \* the native_attempts row of each job
    team,       \* project_teams: revision, enabled, agent_ids
    ledger,     \* the native events of each job, in sequence order
    handler,    \* the job each start request has read and not yet claimed
    task,       \* _run and _consume of each job: where they are
    turn,       \* the adapter's turn of each job
    group,      \* the process group of each job, as the kernel has it
    backend,    \* "up", "closing" or "down"
    owner,      \* NativeExecutionService._owner of the current backend
    launches,   \* history: process groups ever started for a job
    revoked     \* history: a team edit withdrew the attempt's authority

durable == <<jobState, attempt, team, ledger>>
memory  == <<handler, task, turn, backend, owner>>
history == <<launches, revoked>>
vars    == <<durable, memory, group, history>>

Outcomes == {"completed", "failed", "cancelled"}
Phases   == {"none", "admitted", "running", "reconcile", "settled"}
Attempt  == [phase: Phases, held: BOOLEAN, cancel: BOOLEAN, owner: Nat,
             outcome: Outcomes \cup {"none"}]
Team     == [revision: Nat, enabled: BOOLEAN, agents: SUBSET Profiles]
Event    == {"admitted", "bound", "event", "completion", "cancel",
             "settled", "reconcile"}

\* Where the consumption of a running attempt may be: before each of the
\* awaits of _consume, in the order it reaches them.
Consuming == {"compat", "verify", "launch", "session", "stream"}
Task      == [at: {"none", "stopping", "settling"} \cup Consuming,
              outcome: Outcomes, stopped: BOOLEAN]
Turn      == [at: {"none", "pending", "live", "ended"},
              status: Outcomes, stopped: BOOLEAN]
Group     == {"none", "alive", "orphans", "gone"}

NoAttempt == [phase |-> "none", held |-> FALSE, cancel |-> FALSE,
              owner |-> 0, outcome |-> "none"]
NoTask    == [at |-> "none", outcome |-> "failed", stopped |-> FALSE]
NoTurn    == [at |-> "none", status |-> "failed", stopped |-> FALSE]

\* A group some member of which may still write the worktree.
Writing(j) == group[j] \in {"alive", "orphans"}

TypeOK ==
    /\ jobState \in [Jobs -> {"queued", "running", "verifying", "failed", "cancelled"}]
    /\ attempt \in [Jobs -> Attempt]
    /\ team \in [Projects -> Team]
    /\ ledger \in [Jobs -> Seq(Event)]
    /\ handler \in [Handlers -> Jobs \cup {NoJob}]
    /\ task \in [Jobs -> Task]
    /\ turn \in [Jobs -> Turn]
    /\ group \in [Jobs -> Group]
    /\ backend \in {"up", "closing", "down"}
    /\ owner \in Nat
    /\ launches \in [Jobs -> Nat]
    /\ revoked \in [Jobs -> BOOLEAN]

Init ==
    /\ jobState = [j \in Jobs |-> "queued"]
    /\ attempt = [j \in Jobs |-> NoAttempt]
    /\ team = [p \in Projects |-> [revision |-> 1, enabled |-> TRUE, agents |-> Profiles]]
    /\ ledger = [j \in Jobs |-> <<>>]
    /\ handler = [h \in Handlers |-> NoJob]
    /\ task = [j \in Jobs |-> NoTask]
    /\ turn = [j \in Jobs |-> NoTurn]
    /\ group = [j \in Jobs |-> "none"]
    /\ backend = "up"
    /\ owner = 1
    /\ launches = [j \in Jobs |-> 0]
    /\ revoked = [j \in Jobs |-> FALSE]

-----------------------------------------------------------------------------
(* Authority and ownership, as the transactions test them.                 *)

\* TeamRepository.authorize: the frozen profile must still be on an enabled team.
Authorized(j) ==
    /\ team[ProjectOf[j]].enabled
    /\ ProfileOf[j] \in team[ProjectOf[j]].agents

\* NativeAttemptRepository._owned, for an attempt this backend admitted.
Owned(j) == attempt[j].held /\ attempt[j].owner = owner

LaneFree == \A j \in Jobs : ~attempt[j].held

\* Fault: check does not look at cancel_requested.
Check_CancelIgnored(j) ==
    Owned(j) /\ attempt[j].phase # "reconcile" /\ jobState[j] = "running" /\ Authorized(j)

\* NativeAttemptRepository.check
Check(j) ==
    /\ Owned(j)
    /\ attempt[j].phase # "reconcile"
    /\ ~attempt[j].cancel
    /\ jobState[j] = "running"
    /\ Authorized(j)

\* EventRepository._append: a ledger only grows at its end.
Record(j, e) == ledger' = [ledger EXCEPT ![j] = Append(@, e)]

-----------------------------------------------------------------------------
(* POST /execution: start reads, awaits the worktree check, then claims.   *)

Start(h, j) ==
    /\ backend = "up"
    /\ handler[h] = NoJob
    /\ attempt[j].phase = "none"
    /\ Authorized(j)
    /\ handler' = [handler EXCEPT ![h] = j]
    /\ UNCHANGED <<durable, task, turn, backend, owner, group, history>>

\* Fault: claim forgets the lane query.
Admissible_NoLaneQuery(j) ==
    attempt[j].phase = "none" /\ jobState[j] = "queued" /\ Authorized(j)

\* Fault: a new backend takes over the unfinished attempt of an old one.
Admissible_Replay(j) ==
    Authorized(j) /\ \A i \in Jobs \ {j} : ~attempt[i].held

\* What NativeAttemptRepository.claim requires of the job, its authority and
\* the lane.
Admissible(j) ==
    /\ attempt[j].phase = "none"
    /\ jobState[j] = "queued"
    /\ Authorized(j)
    /\ LaneFree

\* claim admits, and start creates the supervisor task before it gives way
\* again.
Admit(h, j) ==
    /\ Admissible(j)
    /\ attempt' = [attempt EXCEPT ![j] =
           [phase |-> "admitted", held |-> TRUE, cancel |-> FALSE,
            owner |-> owner, outcome |-> "none"]]
    /\ jobState' = [jobState EXCEPT ![j] = "running"]
    /\ Record(j, "admitted")
    /\ task' = [task EXCEPT ![j] =
           [at |-> "compat", outcome |-> "failed", stopped |-> FALSE]]
    /\ UNCHANGED <<team, turn, backend, owner, group, history>>

\* The attempt exists, authority or the lane is gone, or the worktree check
\* of verify_bound fails: the request is answered and nothing changes.
Refuse(h) ==
    UNCHANGED <<durable, task, turn, backend, owner, group, history>>

Claim(h) ==
    /\ backend = "up"
    /\ handler[h] # NoJob
    /\ handler' = [handler EXCEPT ![h] = NoJob]
    /\ Admit(h, handler[h]) \/ Refuse(h)

-----------------------------------------------------------------------------
(* The consumption task, one action per stretch between two awaits.        *)

\* The supervisor leaves its wait and enters the finally clause of _run.
Abandon(j, outcome) ==
    task' = [task EXCEPT ![j] = [at |-> "stopping", outcome |-> outcome, stopped |-> FALSE]]

\* _consume raises, or the watch loop of _run sees check fail or the deadline
\* pass.  The three reach the finally clause with the outcome "failed".
Fail(j) ==
    /\ backend # "down"
    /\ task[j].at \in Consuming
    /\ Abandon(j, "failed")
    /\ UNCHANGED <<durable, handler, turn, backend, owner, group, history>>

\* The watch loop polls check every 50 ms; this is the poll that must happen.
Poll(j) == ~Check(j) /\ Fail(j)

\* check_compatibility and verify_bound have answered, and check holds again.
Advance(j) ==
    /\ backend # "down"
    /\ task[j].at \in {"compat", "verify"}
    /\ Check(j)
    /\ task' = [task EXCEPT ![j].at = IF @ = "compat" THEN "verify" ELSE "launch"]
    /\ UNCHANGED <<durable, handler, turn, backend, owner, group, history>>

\* CodexAdapter.start, once an account is acquired: _launch creates the turn.
OpenTurn(j) ==
    /\ backend # "down"
    /\ task[j].at = "launch"
    /\ task' = [task EXCEPT ![j].at = "session"]
    /\ turn' = [turn EXCEPT ![j].at = "pending"]
    /\ UNCHANGED <<durable, handler, backend, owner, group, history>>

\* guarded_spawn: the start guard repeats check and the process is forked in
\* the same stretch.
Spawn(j) ==
    /\ Check(j)
    /\ turn' = [turn EXCEPT ![j].at = "live"]
    /\ group' = [group EXCEPT ![j] = "alive"]
    /\ launches' = [launches EXCEPT ![j] = @ + 1]

\* The guard or the fork fails, and the turn ends without a process.
SpawnFails(j) ==
    /\ turn' = [turn EXCEPT ![j] = [at |-> "ended", status |-> "failed", stopped |-> TRUE]]
    /\ UNCHANGED <<group, launches>>

\* The turn runs as a task of its own, so it may come this far after the
\* supervisor has begun to stop it.
Launch(j) ==
    /\ backend # "down"
    /\ turn[j].at = "pending"
    /\ Spawn(j) \/ SpawnFails(j)
    /\ UNCHANGED <<durable, handler, task, backend, owner, revoked>>

\* _run_turn ends.  "completed" needs an exited leader and a group confirmed
\* empty; an unconfirmed group turns any status into "failed".
EndTurn(j) ==
    /\ backend # "down"
    /\ turn[j].at = "live"
    /\ \E confirmed \in BOOLEAN, status \in {"completed", "failed"} :
           /\ status = "completed" => confirmed /\ group[j] # "alive"
           /\ group[j] = "gone" => confirmed
           /\ turn' = [turn EXCEPT ![j] =
                  [at |-> "ended", status |-> status, stopped |-> confirmed]]
           /\ group' = [group EXCEPT ![j] = IF confirmed THEN "gone" ELSE "orphans"]
    /\ UNCHANGED <<durable, handler, task, backend, owner, history>>

\* NativeAttemptRepository.bind, after the turn reported a session identity.
Bind(j) ==
    /\ backend # "down"
    /\ task[j].at = "session"
    /\ turn[j].at \in {"live", "ended"}
    /\ launches[j] > 0
    /\ Owned(j)
    /\ attempt' = [attempt EXCEPT ![j].phase = "running"]
    /\ Record(j, "bound")
    /\ task' = [task EXCEPT ![j].at = "stream"]
    /\ UNCHANGED <<jobState, team, handler, turn, backend, owner, group, history>>

\* NativeAttemptRepository.append of one provider event.
Stream(j) ==
    /\ backend # "down"
    /\ task[j].at = "stream"
    /\ Check(j)
    /\ Cardinality({i \in DOMAIN ledger[j] : ledger[j][i] = "event"}) < MaxEvents
    /\ Record(j, "event")
    /\ UNCHANGED <<jobState, attempt, team, memory, group, history>>

\* The completion event and the end of the stream; adapter.stopped and
\* adapter.outcome confirm it, or _consume raises.
Complete(j) ==
    /\ backend # "down"
    /\ task[j].at = "stream"
    /\ turn[j].at = "ended"
    /\ Check(j)
    /\ Record(j, "completion")
    /\ Abandon(j, IF turn[j].stopped THEN turn[j].status ELSE "failed")
    /\ UNCHANGED <<jobState, attempt, team, handler, turn, backend, owner, group, history>>

-----------------------------------------------------------------------------
(* The finally clause of _run.                                             *)

\* stop_job has answered; finish or quarantine is next.
SettleNext(j, confirmed) ==
    task' = [task EXCEPT ![j] =
                [at |-> "settling", outcome |-> task[j].outcome, stopped |-> confirmed]]

\* stop_job terminates an open turn and reports whether the group is gone.
\* A turn that has not spawned yet is waited for.  The code goes on to Settle
\* without an await; the model lets other steps in between.
StopJob(j) ==
    /\ backend # "down"
    /\ task[j].at = "stopping"
    /\ turn[j].at # "pending"
    /\ \E confirmed \in BOOLEAN :
           /\ turn[j].at = "none" => confirmed
           /\ turn[j].at = "ended" => confirmed = turn[j].stopped
           /\ turn' = IF turn[j].at = "live"
                      THEN [turn EXCEPT ![j] = [at |-> "ended", status |-> "cancelled",
                                                stopped |-> confirmed]]
                      ELSE turn
           /\ group' = IF turn[j].at = "live"
                       THEN [group EXCEPT ![j] = IF confirmed THEN "gone" ELSE "orphans"]
                       ELSE group
           /\ SettleNext(j, confirmed)
    /\ UNCHANGED <<durable, handler, backend, owner, history>>

\* stop_job raises, which counts as not stopped: _stop gave the turn four
\* seconds, an unspawned one included, and it did not end.
StopUnconfirmed(j) ==
    /\ backend # "down"
    /\ task[j].at = "stopping"
    /\ turn[j].at \in {"pending", "live"}
    /\ SettleNext(j, FALSE)
    /\ UNCHANGED <<durable, handler, turn, backend, owner, group, history>>

\* A CancelledError leaves stop_job (the turn task was itself cancelled, or
\* close cancels a task that is already stopping): neither finish nor
\* quarantine runs.
StopEscapes(j) ==
    /\ backend # "down"
    /\ task[j].at = "stopping"
    /\ turn[j].at # "none"
    /\ task' = [task EXCEPT ![j] = NoTask]
    /\ UNCHANGED <<durable, handler, turn, backend, owner, group, history>>

\* Fault: finish records what the turn reported.
SettledOutcome_AsReported(j) == task[j].outcome

\* The outcome finish records: a recorded cancellation overrides the others.
SettledOutcome(j) == IF attempt[j].cancel THEN "cancelled" ELSE task[j].outcome

\* The job state each outcome leads to.
OutcomeState(o) == IF o = "completed" THEN "verifying" ELSE o

\* Fault: finish runs although stop_job did not confirm.
MayFinish_Unconfirmed(j) == Owned(j)

\* _run calls finish only for a stopped turn, and finish requires ownership.
MayFinish(j) == task[j].stopped /\ Owned(j)

\* NativeAttemptRepository.finish: the job moves on and the lane is released.
Finish(j) ==
    /\ MayFinish(j)
    /\ OutcomeState(SettledOutcome(j)) \in AllowedTransitions(jobState[j])
    /\ jobState' = [jobState EXCEPT ![j] = OutcomeState(SettledOutcome(j))]
    /\ attempt' = [attempt EXCEPT ![j] =
           [phase |-> "settled", held |-> FALSE, cancel |-> attempt[j].cancel,
            owner |-> attempt[j].owner, outcome |-> SettledOutcome(j)]]
    /\ Record(j, "settled")

\* NativeAttemptRepository.quarantine: also the fallback of a finish that
\* failed to reach the database.
Quarantine(j) ==
    /\ Owned(j)
    /\ attempt' = [attempt EXCEPT ![j].phase = "reconcile"]
    /\ Record(j, "reconcile")
    /\ UNCHANGED jobState

\* Both writes failed; the error is suppressed and the row stays as it is.
LeaveHeld == UNCHANGED <<jobState, attempt, ledger>>

Settle(j) ==
    /\ backend # "down"
    /\ task[j].at = "settling"
    /\ Finish(j) \/ Quarantine(j) \/ LeaveHeld
    /\ task' = [task EXCEPT ![j] = NoTask]
    /\ UNCHANGED <<team, handler, turn, backend, owner, group, history>>

-----------------------------------------------------------------------------
(* Cancellation and revocation.                                            *)

\* Fault: a settled attempt still accepts a cancellation.
Cancellable_Settled(j) == attempt[j].phase # "none" /\ ~attempt[j].cancel

\* cancel records the first request for an attempt that has not settled.
Cancellable(j) == attempt[j].phase \notin {"none", "settled"} /\ ~attempt[j].cancel

\* NativeAttemptRepository.cancel, from the local API or the phone.
Cancel(j) ==
    /\ backend = "up"
    /\ Cancellable(j)
    /\ attempt' = [attempt EXCEPT ![j].cancel = TRUE]
    /\ Record(j, "cancel")
    /\ UNCHANGED <<jobState, team, memory, group, history>>

\* The held attempts of project p whose profile roster r no longer carries.
Withdrawn(p, r) ==
    {j \in Jobs : /\ ProjectOf[j] = p
                  /\ attempt[j].held
                  /\ ~r.enabled \/ ProfileOf[j] \notin r.agents}

\* Fault: put saves the roster and leaves the attempts to the poll.
Revoke_RosterOnly(p, r) == attempt' = attempt

\* What TeamRepository.put does to the attempts, in the same transaction.
Revoke(p, r) ==
    attempt' = [j \in Jobs |-> IF j \in Withdrawn(p, r)
                               THEN [attempt[j] EXCEPT !.cancel = TRUE]
                               ELSE attempt[j]]

\* TeamRepository.put with the revision the operator read.
PutTeam(p, revision, enabled, agents) ==
    LET r == [revision |-> revision + 1, enabled |-> enabled, agents |-> agents]
    IN  /\ backend = "up"
        /\ team[p].revision = revision
        /\ revision < MaxRevision
        /\ team' = [team EXCEPT ![p] = r]
        /\ Revoke(p, r)
        /\ revoked' = [j \in Jobs |-> revoked[j] \/ j \in Withdrawn(p, r)]
        /\ UNCHANGED <<jobState, ledger, memory, group, launches>>

-----------------------------------------------------------------------------
(* The backend and the operating system.                                   *)

\* NativeExecutionService.close, once the server has drained its requests.
Close ==
    /\ backend = "up"
    /\ \A h \in Handlers : handler[h] = NoJob
    /\ backend' = "closing"
    /\ task' = [j \in Jobs |-> IF task[j].at \in Consuming
                               THEN [at |-> "stopping", outcome |-> "cancelled", stopped |-> FALSE]
                               ELSE task[j]]
    /\ UNCHANGED <<durable, handler, turn, owner, group, history>>

\* What a process that ends loses.
ForgetMemory ==
    /\ handler' = [h \in Handlers |-> NoJob]
    /\ task' = [j \in Jobs |-> NoTask]
    /\ turn' = [j \in Jobs |-> NoTurn]

Exit ==
    /\ backend = "closing"
    /\ \A j \in Jobs : task[j].at = "none" /\ turn[j].at # "pending"
    /\ backend' = "down"
    /\ ForgetMemory
    /\ UNCHANGED <<durable, owner, group, history>>

Crash ==
    /\ backend # "down"
    /\ backend' = "down"
    /\ ForgetMemory
    /\ UNCHANGED <<durable, owner, group, history>>

\* A new service object draws a new owner; it adopts and replays nothing.
Restart ==
    /\ backend = "down"
    /\ owner < MaxOwner
    /\ backend' = "up"
    /\ owner' = owner + 1
    /\ UNCHANGED <<durable, handler, task, turn, group, history>>

\* The leader exits, with or without members of its group left behind, and
\* members left behind exit in their own time.
GroupExits(j) ==
    /\ \/ /\ group[j] = "alive"
          /\ \E g \in {"orphans", "gone"} : group' = [group EXCEPT ![j] = g]
       \/ /\ group[j] = "orphans"
          /\ group' = [group EXCEPT ![j] = "gone"]
    /\ UNCHANGED <<durable, memory, history>>

-----------------------------------------------------------------------------
Consumption(j) == Poll(j) \/ Advance(j) \/ OpenTurn(j) \/ Bind(j) \/ Complete(j)
Finally(j)     == StopJob(j) \/ StopUnconfirmed(j) \/ StopEscapes(j) \/ Settle(j)
TurnTask(j)    == Launch(j) \/ EndTurn(j)

Next ==
    \/ \E h \in Handlers, j \in Jobs : Start(h, j)
    \/ \E h \in Handlers : Claim(h)
    \/ \E j \in Jobs : \/ Fail(j)
                       \/ Consumption(j)
                       \/ Stream(j)
                       \/ TurnTask(j)
                       \/ Finally(j)
                       \/ Cancel(j)
                       \/ GroupExits(j)
    \/ \E p \in Projects, revision \in 1..MaxRevision,
          enabled \in BOOLEAN, agents \in SUBSET Profiles :
              PutTeam(p, revision, enabled, agents)
    \/ Close
    \/ Exit
    \/ Crash
    \/ Restart

Spec == Init /\ [][Next]_vars

\* The event loop runs every ready task: a consumption and a finally clause that
\* can go on do so.  Requests, team edits, provider events, the turns, the
\* deadline, crashes and restarts are never owed.
FairSpec ==
    /\ Spec
    /\ \A j \in Jobs : WF_vars(Consumption(j)) /\ WF_vars(Finally(j))

-----------------------------------------------------------------------------
(* Properties.                                                             *)

\* At most one process group may write any worktree of the database, over
\* concurrent starts, unconfirmed stops, crashes and restarts.
SingleWriter == \A i, j \in Jobs : Writing(i) /\ Writing(j) => i = j

\* A group that may still write keeps the lane held and its job in running:
\* no verification, review or other attempt begins beside a live writer, even
\* when the backend that started it is gone.
WriterHoldsLane ==
    \A j \in Jobs : Writing(j) => attempt[j].held /\ jobState[j] = "running"

\* A recorded cancellation decides the outcome: whatever the turn reports in
\* the meantime, the attempt settles as cancelled or does not settle.
CancelWins ==
    \A j \in Jobs : attempt[j].cancel /\ attempt[j].phase = "settled" =>
        attempt[j].outcome = "cancelled" /\ jobState[j] = "cancelled"

\* An attempt whose authority was once withdrawn by a team edit never counts
\* as completed or failed, even when a later edit restores the profile before
\* the supervisor polls.
RevocationSticks ==
    \A j \in Jobs : revoked[j] => jobState[j] \in {"running", "cancelled"}

\* No job ever has two process groups: neither a duplicate start nor a
\* restart after a crash launches again.
LaunchedOnce == \A j \in Jobs : launches[j] <= 1

\* Once native.settled is in the ledger the native history of the job is
\* closed: no late event, cancellation or quarantine is appended after it.
SettledIsLast ==
    [][\A j \in Jobs : (\E i \in DOMAIN ledger[j] : ledger[j][i] = "settled")
                           => ledger'[j] = ledger[j]]_vars

\* A supervised attempt with a recorded cancellation does not run on: its
\* supervisor ends, having settled the attempt or left it for reconciliation.
CancelEndsSupervision ==
    \A j \in Jobs : (attempt[j].cancel /\ task[j].at # "none") ~> (task[j].at = "none")

-----------------------------------------------------------------------------
(* The inductive invariant behind the safety properties.                   *)

\* The row of a job: absent, held while the job runs, or settled for good.
RowInv(j) ==
    /\ attempt[j].held <=> attempt[j].phase \in {"admitted", "running", "reconcile"}
    /\ attempt[j].held => jobState[j] = "running"
    /\ attempt[j].phase = "none" =>
           /\ jobState[j] = "queued"
           /\ launches[j] = 0
           /\ ~revoked[j]
    /\ attempt[j].phase = "settled" =>
           /\ attempt[j].outcome # "none"
           /\ jobState[j] = OutcomeState(attempt[j].outcome)
           /\ attempt[j].cancel => attempt[j].outcome = "cancelled"
    /\ revoked[j] => attempt[j].cancel

\* What is in memory belongs to the running backend and to an attempt it holds.
MemoryInv(j) ==
    /\ task[j].at # "none" => backend # "down" /\ Owned(j)
    /\ turn[j].at # "none" => backend # "down"
    /\ turn[j].at = "pending" => Owned(j)
    /\ attempt[j].phase = "none" => turn[j].at = "none"
    /\ task[j].at \in {"compat", "verify", "launch"} => turn[j].at = "none"
    /\ task[j].at = "settling" /\ task[j].stopped =>
           turn[j].at = "none" \/ (turn[j].at = "ended" /\ turn[j].stopped)

\* The process group: there is one only once a turn launched it, it is gone
\* when a turn reports so, and it holds the lane while it may write.
GroupInv(j) ==
    /\ launches[j] <= 1
    /\ launches[j] = 0 => group[j] = "none"
    /\ turn[j].at = "pending" => launches[j] = 0
    /\ turn[j].at = "live" => group[j] # "none"
    /\ task[j].at # "none" /\ turn[j].at = "none" => launches[j] = 0
    /\ turn[j].at = "ended" /\ turn[j].stopped => ~Writing(j)
    /\ Writing(j) => attempt[j].held

JobInv(j) == RowInv(j) /\ MemoryInv(j) /\ GroupInv(j)

OneHeld == \A i, j \in Jobs : attempt[i].held /\ attempt[j].held => i = j

LaneInv == OneHeld /\ \A j \in Jobs : JobInv(j)

\* native.settled is written with the row's settlement, which is final.
HasSettled(j) == \E i \in DOMAIN ledger[j] : ledger[j][i] = "settled"
LedgerInv == \A j \in Jobs : HasSettled(j) => attempt[j].phase = "settled"

=============================================================================
