----------------------------- MODULE VerifyGate -----------------------------
(***************************************************************************)
(* From a finished native turn to a job that is ready for review: the      *)
(* trusted verification command of TaskWorkflow and the secret gate, for   *)
(* one job with a native attempt and any number of concurrent requests.    *)
(*                                                                         *)
(* The worktree is a directory anybody may write at any time, so what a    *)
(* request collected from it may be stale when the request reaches its     *)
(* transaction.  A worktree is abstracted to its unified diff against the  *)
(* base commit.  Every request is split at its awaits; each database       *)
(* transaction is one step.                                                *)
(***************************************************************************)
EXTENDS Naturals, Sequences, FiniteSets, JobLifecycle

CONSTANTS
    Contents,    \* the diffs a worktree may have against its base commit
    Secret,      \* the diffs that do not pass SecretScanner
    Incomplete,  \* the diffs that are empty, truncated or not text
    None,
    Commands,    \* the verification commands config.json may name
    Requests,    \* concurrent POST /verify and POST /review-readiness requests
    MaxRounds    \* bound: job.review_ready events

ASSUME GateAssumption ==
    /\ Secret \subseteq Contents
    /\ Incomplete \subseteq Contents
    /\ None \notin Contents \cup Commands
    /\ MaxRounds \in Nat

VARIABLES
    jobState,  \* jobs.state
    tree,      \* the worktree
    command,   \* the command of the running backend's configuration
    checks,    \* the workflow.check events of each command's authorization
    process,   \* the commands whose operating-system process is alive
    ready,     \* the digests of the job.review_ready events, in order
    gate,      \* the requests in flight
    runs       \* history: how often each command was started

gateVars == <<jobState, tree, command, checks, process, ready, gate, runs>>

\* Where a request waits.  POST /verify: for the first fingerprint, for its
\* transaction, for the command.  POST /review-readiness: for the job's lock,
\* for the diff, for its transaction.
Verifying  == {"fingerprint", "authorize", "checking", "recheck"}
Evaluating == {"collect", "evaluate"}
Idle       == [at |-> "idle", job |-> None, diff |-> None, want |-> None, passed |-> FALSE]
Request    == [at: {"idle", "lock"} \cup Verifying \cup Evaluating,
               job: JobState \cup {None}, diff: Contents \cup {None},
               want: Contents \cup {None}, passed: BOOLEAN]

\* The check events of an authorization: none, a start, a start and a finish.
NoCheck   == [phase |-> "none", passed |-> FALSE, content |-> None]
Started   == [phase |-> "started", passed |-> FALSE, content |-> None]
CheckOf   == [phase: {"finished"}, passed: BOOLEAN, content: Contents]
                 \cup {NoCheck, Started}

GateTypeOK ==
    /\ jobState \in JobState
    /\ tree \in Contents
    /\ command \in Commands
    /\ checks \in [Commands -> CheckOf]
    /\ process \in SUBSET Commands
    /\ ready \in Seq(Contents)
    /\ gate \in [Requests -> Request]
    /\ runs \in [Commands -> Nat]

GateInit ==
    /\ jobState = "verifying"
    /\ tree \in Contents
    /\ command \in Commands
    /\ checks = [k \in Commands |-> NoCheck]
    /\ process = {}
    /\ ready = <<>>
    /\ gate = [h \in Requests |-> Idle]
    /\ runs = [k \in Commands |-> 0]

\* A request moves on to its next await, or is answered.
Goes(h, r) == gate' = [gate EXCEPT ![h] = r]
Answer(h)  == Goes(h, Idle)

-----------------------------------------------------------------------------
(* POST /verify                                                            *)

\* verify: no check of this authorization was started, and the native attempt
\* completed and released the lane, which is what brought the job here.
BeginVerify(h) ==
    /\ gate[h].at = "idle"
    /\ jobState = "verifying"
    /\ checks[command].phase = "none"
    /\ Goes(h, [Idle EXCEPT !.at = "fingerprint", !.job = jobState])
    /\ UNCHANGED <<jobState, tree, command, checks, process, ready, runs>>

\* _fingerprint: only a complete inventory of changed text can be verified.
Fingerprint(h) ==
    /\ gate[h].at = "fingerprint"
    /\ tree \notin Incomplete
    /\ Goes(h, [gate[h] EXCEPT !.at = "authorize", !.diff = tree])
    /\ UNCHANGED <<jobState, tree, command, checks, process, ready, runs>>

\* Fault: the transaction asks only for a check of its own authorization.
Startable_PendingIgnored(h) ==
    checks[command].phase = "none" /\ jobState = gate[h].job

\* The transaction that starts a check: this authorization has none, no other
\* authorization has an unfinished one, and the job did not change.
Startable(h) ==
    /\ checks[command].phase = "none"
    /\ \A k \in Commands : checks[k].phase # "started"
    /\ jobState = gate[h].job

StartCheck(h) ==
    /\ gate[h].at = "authorize"
    /\ Startable(h)
    /\ checks' = [checks EXCEPT ![command] = Started]
    /\ process' = process \cup {command}
    /\ runs' = [runs EXCEPT ![command] = @ + 1]
    /\ Goes(h, [gate[h] EXCEPT !.at = "checking"])
    /\ UNCHANGED <<jobState, tree, command, ready>>

\* VerificationRunner.run returns: the process has ended, in time or killed.
CommandEnds(h) ==
    /\ gate[h].at = "checking"
    /\ process' = process \ {command}
    /\ \E passed \in BOOLEAN :
           Goes(h, [gate[h] EXCEPT !.at = "recheck", !.passed = passed])
    /\ UNCHANGED <<jobState, tree, command, checks, ready, runs>>

\* Fault: the worktree is not fingerprinted again after the command.
Unmoved_NotRechecked(h) == TRUE

\* The second fingerprint equals the first.
Unmoved(h) == tree = gate[h].diff /\ tree \notin Incomplete

\* Whatever happened, the check is finished with the content of the first
\* fingerprint.
Result(h) ==
    [phase |-> "finished", passed |-> gate[h].passed /\ Unmoved(h),
     content |-> gate[h].diff]

\* The finally clause of verify.
FinishCheck(h) ==
    /\ gate[h].at = "recheck"
    /\ checks' = [checks EXCEPT ![command] = Result(h)]
    /\ Answer(h)
    /\ UNCHANGED <<jobState, tree, command, process, ready, runs>>

-----------------------------------------------------------------------------
(* POST /review-readiness                                                  *)

\* require_verified returns the content the passing check of the current
\* authorization saw; then the wait for the gate's lock of this job.
BeginReadiness(h) ==
    /\ gate[h].at = "idle"
    /\ checks[command].phase = "finished"
    /\ checks[command].passed
    /\ Goes(h, [Idle EXCEPT !.at = "lock", !.want = checks[command].content])
    /\ UNCHANGED <<jobState, tree, command, checks, process, ready, runs>>

\* PreReviewSecretGate._load_job, under the lock.
LoadJob(h) ==
    /\ gate[h].at = "lock"
    /\ \A other \in Requests : gate[other].at \notin Evaluating
    /\ jobState \in {"verifying", "review_ready"}
    /\ Goes(h, [gate[h] EXCEPT !.at = "collect", !.job = jobState])
    /\ UNCHANGED <<jobState, tree, command, checks, process, ready, runs>>

Collect(h) ==
    /\ gate[h].at = "collect"
    /\ Goes(h, [gate[h] EXCEPT !.at = "evaluate", !.diff = tree])
    /\ UNCHANGED <<jobState, tree, command, checks, process, ready, runs>>

\* Fault: the gate does not compare with the verified content.
Passes_AnyContent(h) == gate[h].diff \notin Secret

\* What evaluate requires of the collected diff.
Passes(h) == gate[h].diff = gate[h].want /\ gate[h].diff \notin Secret

\* _record_passed for a job that was verifying.  The transition is not bound
\* to the job that was loaded: the lifecycle relation alone decides.
BecomeReady(h) ==
    /\ gate[h].at = "evaluate"
    /\ Passes(h)
    /\ gate[h].job = "verifying"
    /\ "review_ready" \in AllowedTransitions(jobState)
    /\ Len(ready) < MaxRounds
    /\ jobState' = "review_ready"
    /\ ready' = Append(ready, gate[h].diff)
    /\ Answer(h)
    /\ UNCHANGED <<tree, command, checks, process, runs>>

\* An answer that changes nothing: a refused or failed request, a retry that
\* is shown the recorded check or round.  A blocked scan is also recorded, in
\* an event that no component reads.  A check that has started cannot end so.
Decline(h) ==
    /\ gate[h].at \notin {"idle", "checking", "recheck"}
    /\ Answer(h)
    /\ UNCHANGED <<jobState, tree, command, checks, process, ready, runs>>

-----------------------------------------------------------------------------
(* The environment.                                                        *)

\* An editor, the checked command or a process left behind writes the worktree.
Edit(c) ==
    /\ tree # c
    /\ tree' = c
    /\ UNCHANGED <<jobState, command, checks, process, ready, gate, runs>>

\* The backend ends and starts again, perhaps with another command configured.
\* The verification process has a session of its own and outlives it.
RestartGate(k) ==
    /\ command' = k
    /\ gate' = [h \in Requests |-> Idle]
    /\ UNCHANGED <<jobState, tree, checks, process, ready, runs>>

\* A process no request waits for any more exits.
ProcessExits(k) ==
    /\ k \in process
    /\ \A h \in Requests : gate[h].at # "checking" \/ command # k
    /\ process' = process \ {k}
    /\ UNCHANGED <<jobState, tree, command, checks, ready, gate, runs>>

-----------------------------------------------------------------------------
GateStep(h) ==
    \/ BeginVerify(h)
    \/ Fingerprint(h)
    \/ StartCheck(h)
    \/ CommandEnds(h)
    \/ FinishCheck(h)
    \/ BeginReadiness(h)
    \/ LoadJob(h)
    \/ Collect(h)
    \/ BecomeReady(h)
    \/ Decline(h)

GateNext ==
    \/ \E h \in Requests : GateStep(h)
    \/ \E c \in Contents : Edit(c)
    \/ \E k \in Commands : RestartGate(k) \/ ProcessExits(k)

GateSpec == GateInit /\ [][GateNext]_gateVars

-----------------------------------------------------------------------------
(* Properties.                                                             *)

\* The content a passing check of some configured command saw.
Verified(c) ==
    \E k \in Commands :
        checks[k].phase = "finished" /\ checks[k].passed /\ checks[k].content = c

\* What becomes ready for review is what the trusted command verified and the
\* scanner passed, whatever the worktree held between the two and since.
ReadyIsVerified ==
    \A i \in DOMAIN ready : ready[i] \notin Secret /\ Verified(ready[i])

\* A command is started at most once and runs alone, over concurrent requests
\* and restarts: a crash in the middle of a check leaves it uncertain, is never
\* retried, and keeps the backend that comes back with a new command from
\* starting it beside the process that was left behind.
CheckedOnce ==
    /\ \A k \in Commands : runs[k] <= 1
    /\ \A k, l \in process : k = l

\* A check passes only over the content it was authorized for: a worktree that
\* an edit, or the command itself, left different makes the check fail.
PassedMeansUnmoved ==
    [][\A k \in Commands :
           ~checks[k].passed /\ checks'[k].passed => checks'[k].content = tree]_gateVars

-----------------------------------------------------------------------------
(* The inductive invariant behind them.                                    *)

\* A command's start is counted in the transaction that records its check.
StartsRecorded == \A k \in Commands : runs[k] = IF checks[k].phase = "none" THEN 0 ELSE 1

\* At most one check is unfinished, and only its process may be alive.
CheckedAlone ==
    /\ \A k, l \in Commands : checks[k].phase = "started" /\ checks[l].phase = "started" => k = l
    /\ \A k \in process : checks[k].phase = "started"

\* The one request that waits for a check waits for the unfinished check of the
\* configured command, whose process is gone once the command has returned.
Awaiting(h) == gate[h].at \in {"checking", "recheck"}
AwaitsOwnCheck ==
    \A h \in Requests : Awaiting(h) =>
        /\ checks[command].phase = "started"
        /\ gate[h].at = "recheck" => command \notin process
        /\ \A other \in Requests : Awaiting(other) => other = h

\* A fingerprint is a content of the worktree, and what a readiness request was
\* given to compare with stays verified while it waits.
RequestsInformed ==
    \A h \in Requests :
        /\ gate[h].at \in {"authorize", "checking", "recheck", "evaluate"} =>
               gate[h].diff \in Contents
        /\ gate[h].at \in {"lock", "collect", "evaluate"} => Verified(gate[h].want)

GateInv ==
    /\ GateTypeOK
    /\ StartsRecorded
    /\ CheckedAlone
    /\ AwaitsOwnCheck
    /\ RequestsInformed
    /\ ReadyIsVerified

=============================================================================
