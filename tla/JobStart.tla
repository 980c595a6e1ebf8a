------------------------------ MODULE JobStart ------------------------------
(***************************************************************************)
(* The way of one submitted job to its execution: the demo plan takes it   *)
(* from created to queued, WorktreeCreate gives it a directory, and the    *)
(* native lane claims it.                                                  *)
(*                                                                         *)
(* Planning requests may be of several backend processes and write the job *)
(* as they read it, without a worktree; worktrees are created by one       *)
(* backend at a time, since its locks are not shared.                      *)
(***************************************************************************)
EXTENDS WorktreeCreate

CONSTANTS
    Planners,  \* concurrent POST /plan requests
    Tries      \* how often a request loads the job, five in the code

ASSUME StartAssumption == Tries \in Nat

VARIABLES
    plan,     \* the events of each stage of planning
    planner   \* the planning requests in flight

vars == <<createVars, plan, planner>>

\* The states of the job, in their order; planning enters the inner three.
Course == <<"created", "classified", "planning", "queued", "running">>
Place(s) == CHOOSE i \in 1..5 : Course[i] = s
Stages == {"classified", "planning", "queued"}

\* Where a request is: before it loads the job, looks for the demo's start,
\* advances the job from the state it has seen, or reads the plan.
Resting == [at |-> "idle", seen |-> "created", tries |-> 0]

Planner == [at: {"idle", "load", "demo", "advance", "read"}, seen: JobState, tries: 0..Tries]

TypeOK ==
    /\ CreateTypeOK
    /\ plan \in [Stages -> Nat]
    /\ planner \in [Planners -> Planner]

Init ==
    /\ CreateInit
    /\ plan = [t \in Stages |-> 0]
    /\ planner = [p \in Planners |-> Resting]

-----------------------------------------------------------------------------
(* ReadOnlyPlanningService.run                                             *)

Moves(p, at) == planner' = [planner EXCEPT ![p] = [planner[p] EXCEPT !.at = at]]
Rests(p)     == planner' = [planner EXCEPT ![p] = Resting]

BeginPlan(p) ==
    /\ planner[p].at = "idle"
    /\ Moves(p, "load")
    /\ UNCHANGED <<createVars, plan>>

\* What is next for a job in that state.
NextPlace == CASE state \in {"created", "classified"} -> "advance"
               [] state = "planning" -> "demo"
               [] state = "queued" -> "read"

\* A job with a worktree, or beyond planning, is refused.
LoadPlanned(p) ==
    /\ planner[p].at = "load"
    /\ planner[p].tries < Tries
    /\ ~bound
    /\ state \in Stages \cup {"created"}
    /\ planner' = [planner EXCEPT ![p] =
                      [at |-> NextPlace, seen |-> state, tries |-> planner[p].tries + 1]]
    /\ UNCHANGED <<createVars, plan>>

\* _has_demo_start
FindStart(p) ==
    /\ planner[p].at = "demo"
    /\ plan["planning"] > 0
    /\ Moves(p, "advance")
    /\ UNCHANGED <<createVars, plan>>

\* The state after the one the request has seen.
Target(p) == Course[Place(planner[p].seen) + 1]

\* Fault: the tests are made on the job as it was loaded.
Admits_AsLoaded(p) == Target(p) \in AllowedTransitions(planner[p].seen)

\* AtomicTransitionService.transition: the key of the stage is new and the
\* stored state allows the next one.
Admits(p) == plan[Target(p)] = 0 /\ Target(p) \in AllowedTransitions(state)

\* The stored job becomes the one that was loaded, with the new state.  A
\* conflict, or a stage on record, is passed over.
AdvanceJob(p) ==
    /\ planner[p].at = "advance"
    /\ Moves(p, "load")
    /\ IF Admits(p)
       THEN /\ state' = Target(p)
            /\ bound' = FALSE
            /\ plan' = [plan EXCEPT ![Target(p)] = plan[Target(p)] + 1]
       ELSE UNCHANGED <<state, bound, plan>>
    /\ UNCHANGED <<git, request, orphans, made, past>>

\* _read_recorded and the answer; a refusal, an error, the last try or a crash.
EndPlan(p) ==
    /\ planner[p].at # "idle"
    /\ Rests(p)
    /\ UNCHANGED <<createVars, plan>>

-----------------------------------------------------------------------------
(* Worktree and execution.                                                 *)

\* NativeStore.claim takes a queued job whose worktree was verified.
Claim ==
    /\ state = "queued"
    /\ bound
    /\ state' = "running"
    /\ UNCHANGED <<bound, git, request, orphans, made, past, plan, planner>>

Plan(p) == BeginPlan(p) \/ LoadPlanned(p) \/ FindStart(p) \/ AdvanceJob(p) \/ EndPlan(p)

Next ==
    \/ \E p \in Planners : Plan(p)
    \/ (\E h \in Requests : Step(h)) /\ UNCHANGED <<plan, planner>>
    \/ Environment /\ UNCHANGED <<plan, planner>>
    \/ Claim

Spec == Init /\ [][Next]_vars

-----------------------------------------------------------------------------
(* Properties.                                                             *)

\* RecoveryService._resolve_worktree, for the states it requires one in.
WorktreeMissing ==
    /\ state \in {"running", "waiting_approval", "verifying", "review_ready", "approved",
                 "applying"}
    /\ ~bound

\* Each stage of planning that the job has passed is on record once and no other
\* is, over requests of several backends that stop anywhere and go on with what
\* they read; and no such request takes the worktree from a job that has one,
\* or sends a job back, so that recovery never misses a worktree.
PlannedOnce ==
    /\ \A t \in Stages : plan[t] = IF Place(state) >= Place(t) THEN 1 ELSE 0
    /\ boundTree # Gone => bound
    /\ ~WorktreeMissing

-----------------------------------------------------------------------------
(* The inductive invariant behind them.                                    *)

\* What a planning request has seen is a state the job has been in, and one from
\* which planning goes on if the request is about to advance the job.
SeenPassed ==
    \A p \in Planners :
        /\ planner[p].at \in {"demo", "advance"} =>
               /\ planner[p].seen \in {"created", "classified", "planning"}
               /\ Place(planner[p].seen) <= Place(state)
        /\ planner[p].at = "demo" => planner[p].seen = "planning"

\* A job is bound when it is queued and stays so.
BoundAfterPlanning ==
    /\ state \in {"created", "running"} \cup Stages
    /\ bound => state \in {"queued", "running"}

StartInv ==
    /\ TypeOK
    /\ CreateInv
    /\ SeenPassed
    /\ BoundAfterPlanning
    /\ PlannedOnce

=============================================================================
