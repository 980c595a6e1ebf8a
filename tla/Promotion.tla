----------------------------- MODULE Promotion ------------------------------
(***************************************************************************)
(* Local promotion: approved reviews of one project applied to its         *)
(* checkout.  Several requests, of one or of several backend processes,    *)
(* compete for the project's lock; the operator works in the same checkout *)
(* and the worktrees stay writable.                                        *)
(*                                                                         *)
(* A checkout or a worktree is abstracted to its content relative to the   *)
(* base commit all the jobs were submitted at.  Each inspection is an      *)
(* await: what it saw may have changed when the request goes on.           *)
(***************************************************************************)
EXTENDS Naturals, FiniteSets, JobLifecycle

CONSTANTS
    Jobs,        \* jobs of one project with an approved review
    Contents,    \* what a worktree or the checkout may hold as a change
    ApprovedOf,  \* the content each job's approved bundle froze
    Base,        \* a clean checkout at the base commit
    Foreign,     \* a checkout with other, mixed or partly applied changes
    Requests,    \* concurrent POST /promote requests
    NoJob

ASSUME PromotionAssumption ==
    /\ ApprovedOf \in [Jobs -> Contents]
    /\ Base \notin Contents
    /\ Foreign \notin Contents
    /\ Base # Foreign
    /\ NoJob \notin Jobs

VARIABLES
    jobState,   \* jobs.state
    tree,       \* the approved worktrees
    target,     \* the project's checkout
    request,    \* the requests in flight
    orphans,    \* jobs whose git apply outlived its backend
    applies,    \* history: git apply processes started for a job
    landed,     \* history: what the checkout held when a job's result was compared
    disturbed   \* history: a worktree changed around the capture of its last attempt

vars == <<jobState, tree, target, request, orphans, applies, landed, disturbed>>

Targets == Contents \cup {Base, Foreign}

\* Where a request waits: for the project lock; for the two live checks and
\* the capture of the approved files between them; for the checkout to be
\* inspected, tried and inspected again; with the intent recorded, for one more
\* inspection, for git apply and for the comparison.
Ahead   == {"live", "capture", "relive", "inspect", "preflight", "reinspect", "intent"}
Begun   == {"confirm", "apply", "compare", "complete"}
Idle    == [at |-> "idle", job |-> NoJob, files |-> Base]
Request == [at: {"lock"} \cup Ahead \cup Begun, job: Jobs, files: Contents \cup {Base}]

TypeOK ==
    /\ jobState \in [Jobs -> {"approved", "applying", "completed"}]
    /\ tree \in [Jobs -> Contents]
    /\ target \in Targets
    /\ request \in [Requests -> Request \cup {Idle}]
    /\ orphans \in SUBSET Jobs
    /\ applies \in [Jobs -> Nat]
    /\ landed \in [Jobs -> Targets]
    /\ disturbed \in [Jobs -> BOOLEAN]

Init ==
    /\ jobState = [j \in Jobs |-> "approved"]
    /\ tree \in [Jobs -> Contents]
    /\ target \in Targets
    /\ request = [h \in Requests |-> Idle]
    /\ orphans = {}
    /\ applies = [j \in Jobs |-> 0]
    /\ landed = [j \in Jobs |-> Base]
    /\ disturbed = [j \in Jobs |-> FALSE]

Job(h)      == request[h].job
Holding(h)  == request[h].at \in Ahead \cup Begun
MovesTo(h, at) ==
    request' = [request EXCEPT ![h] = [at |-> at, job |-> request[h].job,
                                       files |-> request[h].files]]

-----------------------------------------------------------------------------
(* The way to the intent.  A request that fails any test is answered.      *)

\* Fault: an interrupted promotion is taken up again.
Promotable_Interrupted(j) == jobState[j] \in {"approved", "applying"}

\* The state promote asks for, and the transition's expected_job again.
Promotable(j) == jobState[j] = "approved"

BeginPromote(h, j) ==
    /\ request[h].at = "idle"
    /\ Promotable(j)
    /\ request' = [request EXCEPT ![h] = [at |-> "lock", job |-> j, files |-> Base]]
    /\ UNCHANGED <<jobState, tree, target, orphans, applies, landed, disturbed>>

\* The project's lock in this process and the lock file among processes.
Lock(h) ==
    /\ request[h].at = "lock"
    /\ \A other \in Requests : ~Holding(other)
    /\ MovesTo(h, "live")
    /\ UNCHANGED <<jobState, tree, target, orphans, applies, landed, disturbed>>

\* The capture of a job that is not promoted yet begins anew.
CaptureBegins(h) == request[h].at = "live" /\ Promotable(Job(h))

\* verify_bound and assert_live, before and after the capture.
CheckLive(h) ==
    /\ request[h].at \in {"live", "relive"}
    /\ tree[Job(h)] = ApprovedOf[Job(h)]
    /\ MovesTo(h, IF request[h].at = "live" THEN "capture" ELSE "inspect")
    /\ disturbed' = [disturbed EXCEPT ![Job(h)] = @ /\ ~CaptureBegins(h)]
    /\ UNCHANGED <<jobState, tree, target, orphans, applies, landed>>

\* file_state of every approved path, in the worktree.
ApprovedFiles(j) == tree[j]

Capture(h) ==
    /\ request[h].at = "capture"
    /\ request' = [request EXCEPT ![h] = [at |-> "relive", job |-> Job(h),
                                          files |-> ApprovedFiles(Job(h))]]
    /\ UNCHANGED <<jobState, tree, target, orphans, applies, landed, disturbed>>

\* require_clean_target, git apply --check and require_clean_target.
InspectTarget(h) ==
    /\ request[h].at \in {"inspect", "preflight", "reinspect"}
    /\ target = Base
    /\ MovesTo(h, CASE request[h].at = "inspect"   -> "preflight"
                    [] request[h].at = "preflight" -> "reinspect"
                    [] OTHER                       -> "intent")
    /\ UNCHANGED <<jobState, tree, target, orphans, applies, landed, disturbed>>

\* job.promotion.started moves the job to applying.
Intent(j) == jobState' = [jobState EXCEPT ![j] = "applying"]

RecordIntent(h) ==
    /\ request[h].at = "intent"
    /\ Promotable(Job(h))
    /\ Intent(Job(h))
    /\ MovesTo(h, "confirm")
    /\ UNCHANGED <<tree, target, orphans, applies, landed, disturbed>>

-----------------------------------------------------------------------------
(* With the intent recorded.                                               *)

\* require_clean_target once more; then git apply is started.
StartApply(h) ==
    /\ request[h].at = "confirm"
    /\ target = Base
    /\ applies' = [applies EXCEPT ![Job(h)] = @ + 1]
    /\ MovesTo(h, "apply")
    /\ UNCHANGED <<jobState, tree, target, orphans, landed, disturbed>>

\* What git apply of job j's patch leaves: the approved content of a checkout
\* that is still clean, a mixture of one that is not.
Patched(j) == IF target = Base THEN ApprovedOf[j] ELSE Foreign

ApplySucceeds(h) ==
    /\ request[h].at = "apply"
    /\ target' = Patched(Job(h))
    /\ MovesTo(h, "compare")
    /\ UNCHANGED <<jobState, tree, orphans, applies, landed, disturbed>>

\* A nonzero exit, a timeout: the checkout is as it was or partly written, and
\* the request is answered with the job left in applying.
ApplyFails(h) ==
    /\ request[h].at = "apply"
    /\ target' \in {target, Foreign}
    /\ request' = [request EXCEPT ![h] = Idle]
    /\ UNCHANGED <<jobState, tree, orphans, applies, landed, disturbed>>

\* Fault: a zero exit of git apply is taken for the result.
SameFiles_ByExit(h) == TRUE

\* assert_applied: the checkout holds the captured files and nothing else.
SameFiles(h) == target = request[h].files

Compare(h) ==
    /\ request[h].at = "compare"
    /\ SameFiles(h)
    /\ landed' = [landed EXCEPT ![Job(h)] = target]
    /\ MovesTo(h, "complete")
    /\ UNCHANGED <<jobState, tree, target, orphans, applies, disturbed>>

\* job.promotion.completed, expecting the job as the intent left it.
Complete(h) ==
    /\ request[h].at = "complete"
    /\ jobState[Job(h)] = "applying"
    /\ jobState' = [jobState EXCEPT ![Job(h)] = "completed"]
    /\ request' = [request EXCEPT ![h] = Idle]
    /\ UNCHANGED <<tree, target, orphans, applies, landed, disturbed>>

\* A conflict or an inspection that fails: the request is answered.  After the
\* intent this is the answer that asks for reconciliation.
Refuse(h) ==
    /\ request[h].at \notin {"idle", "apply"}
    /\ request' = [request EXCEPT ![h] = Idle]
    /\ UNCHANGED <<jobState, tree, target, orphans, applies, landed, disturbed>>

-----------------------------------------------------------------------------
(* The environment.                                                        *)

\* The backend of a request dies.  The kernel drops its locks; a git apply it
\* had started runs in a session of its own and goes on.
Die(h) ==
    /\ request[h].at # "idle"
    /\ orphans' = IF request[h].at = "apply" THEN orphans \cup {Job(h)} ELSE orphans
    /\ request' = [request EXCEPT ![h] = Idle]
    /\ UNCHANGED <<jobState, tree, target, applies, landed, disturbed>>

OrphanEnds(j) ==
    /\ j \in orphans
    /\ target' \in {target, Foreign, Patched(j)}
    /\ orphans' = orphans \ {j}
    /\ UNCHANGED <<jobState, tree, request, applies, landed, disturbed>>

\* The operator edits, resets or commits in the checkout.
UseTarget(t) ==
    /\ target' = t
    /\ UNCHANGED <<jobState, tree, request, orphans, applies, landed, disturbed>>

EditTree(j, c) ==
    /\ tree' = [tree EXCEPT ![j] = c]
    /\ disturbed' = [disturbed EXCEPT ![j] =
           @ \/ \E h \in Requests : Job(h) = j /\ request[h].at \in {"capture", "relive"}]
    /\ UNCHANGED <<jobState, target, request, orphans, applies, landed>>

-----------------------------------------------------------------------------
Step(h) ==
    \/ \E j \in Jobs : BeginPromote(h, j)
    \/ Lock(h)
    \/ CheckLive(h)
    \/ Capture(h)
    \/ InspectTarget(h)
    \/ RecordIntent(h)
    \/ StartApply(h)
    \/ ApplySucceeds(h)
    \/ ApplyFails(h)
    \/ Compare(h)
    \/ Complete(h)
    \/ Refuse(h)
    \/ Die(h)

Next ==
    \/ \E h \in Requests : Step(h)
    \/ \E j \in Jobs : OrphanEnds(j)
    \/ \E t \in Targets : UseTarget(t)
    \/ \E j \in Jobs, c \in Contents : EditTree(j, c)

Spec == Init /\ [][Next]_vars

-----------------------------------------------------------------------------
(* Properties.                                                             *)

\* A patch is handed to git apply at most once for a job, over concurrent and
\* repeated requests, failures, crashes and a checkout the operator resets.
AppliedOnce == \A j \in Jobs : applies[j] <= 1

\* The intent is on record before the first write: a job whose patch may have
\* reached the checkout is applying or completed, wherever a crash struck.
WriteIsRecorded ==
    \A j \in Jobs : applies[j] > 0 => jobState[j] \in {"applying", "completed"}

\* completed is recorded only after the checkout was seen to hold exactly the
\* approved content.  The captured files stand for it, so the worktree must not
\* change and change back between the two live checks of the attempt that
\* recorded the intent: the checks before and after do not see that.
CompletedIsApproved ==
    \A j \in Jobs : jobState[j] = "completed" /\ ~disturbed[j] => landed[j] = ApprovedOf[j]

\* The intent is recorded and no request is working on it.
Interrupted(j) ==
    /\ jobState[j] = "applying"
    /\ \A h \in Requests : Job(h) = j => request[h].at \notin Begun

\* An interrupted promotion is never taken up again: not by a retry, not by
\* another backend, not after the operator reset the checkout.
InterruptedStays ==
    [][\A j \in Jobs : Interrupted(j) => Interrupted(j)' /\ applies'[j] = applies[j]]_vars

-----------------------------------------------------------------------------
(* The inductive invariant behind the safety properties.                   *)

Captured(h) == Holding(h) /\ request[h].at \notin {"live", "capture"}

\* What a request knows of its job.
RequestInv(h) ==
    /\ request[h].at \in Begun => jobState[Job(h)] = "applying"
    /\ request[h].at = "confirm" => applies[Job(h)] = 0
    /\ request[h].at = "capture" /\ ~disturbed[Job(h)] => tree[Job(h)] = ApprovedOf[Job(h)]
    /\ Captured(h) /\ ~disturbed[Job(h)] => request[h].files = ApprovedOf[Job(h)]
    /\ request[h].at = "complete" => landed[Job(h)] = request[h].files

OneHolder == \A h, i \in Requests : Holding(h) /\ Holding(i) => h = i

PromotionInv ==
    /\ OneHolder
    /\ \A h \in Requests : RequestInv(h)
    /\ \A j \in Jobs : jobState[j] = "approved" => applies[j] = 0
    /\ AppliedOnce
    /\ CompletedIsApproved

=============================================================================
