----------------------------- MODULE ReviewFlow -----------------------------
(***************************************************************************)
(* Review of one job: frozen bundles, the approval of a bundle, its expiry *)
(* and its decision, on top of the gate that makes the job ready.          *)
(*                                                                         *)
(* Three requests compete: freezing a bundle, asking for approval and      *)
(* deciding.  Each reads the database, awaits the live diff and ends in    *)
(* one transaction that compares what it read with what is stored by then. *)
(* The comparison of job records is modelled on the state alone: their     *)
(* updated_at has the resolution of a millisecond and may repeat.          *)
(***************************************************************************)
EXTENDS VerifyGate

CONSTANTS
    Reviewers,      \* concurrent bundle, approval and decision requests
    Ttl,            \* 15 minutes, on the model's clock
    RetentionDays,  \* RetentionConfig.rejected_worktree_days
    MaxClock        \* bound: the clock

Decision == {"approved", "rejected", "changes_requested"}

ASSUME ReviewAssumption ==
    /\ None \notin Decision
    /\ Ttl \in Nat \ {0}
    /\ RetentionDays \in Nat \ {0}
    /\ MaxClock \in Nat

VARIABLES
    bundles,    \* review_bundles, by scan_event_id
    approvals,  \* approvals with their request and decision events, by age
    retained,   \* the job.worktree.retained events
    clock,      \* the UTC clock of the backend
    review      \* the requests in flight

reviewVars == <<bundles, approvals, retained, clock, review>>
vars       == <<gateVars, reviewVars>>

Bundle   == [round: Nat, content: Contents]
Approval == [bundle: Bundle, expires: Nat, decision: Decision \cup {None},
             decidedAt: Nat]
Retained == [approval: Nat, until: Nat]
NoReview == [op |-> "idle", job |-> None, bundle |-> None, diff |-> None,
             approval |-> 0, decision |-> None]
Review   == [op: {"idle", "freeze", "request", "decide"}, job: JobState \cup {None},
             bundle: Bundle \cup {None}, diff: Contents \cup {None}, approval: Nat,
             decision: Decision \cup {None}]

ReviewTypeOK ==
    /\ GateTypeOK
    /\ bundles \in Seq(Bundle)
    /\ approvals \in Seq(Approval)
    /\ retained \in Seq(Retained)
    /\ clock \in Nat
    /\ review \in [Reviewers -> Review]

Init ==
    /\ GateInit
    /\ bundles = <<>>
    /\ approvals = <<>>
    /\ retained = <<>>
    /\ clock = 0
    /\ review = [h \in Reviewers |-> NoReview]

Latest     == bundles[Len(bundles)]
Pending    == {a \in DOMAIN approvals : approvals[a].decision = None}
Matches(b) == {a \in DOMAIN approvals : approvals[a].bundle = b}

\* The state each decision moves the job to.
Target(d) == IF d = "changes_requested" THEN "running" ELSE d

\* A request moves on to its next await, or is answered.
Holds(h, r) == review' = [review EXCEPT ![h] = r]
Reply(h)    == Holds(h, NoReview)

-----------------------------------------------------------------------------
(* What each request reads before it awaits the live diff.                 *)

\* ReviewBundleService.create: the job's lock, then _load_job.
BeginFreeze(h) ==
    /\ review[h].op = "idle"
    /\ \A other \in Reviewers : review[other].op # "freeze"
    /\ jobState = "review_ready"
    /\ Holds(h, [NoReview EXCEPT !.op = "freeze", !.job = jobState])
    /\ UNCHANGED <<gateVars, bundles, approvals, retained, clock>>

\* ApprovalService.request, for the displayed bundle: it must be the latest.
BeginRequest(h) ==
    /\ review[h].op = "idle"
    /\ jobState \in {"review_ready", "waiting_approval"}
    /\ bundles # <<>>
    /\ Holds(h, [NoReview EXCEPT !.op = "request", !.job = jobState, !.bundle = Latest])
    /\ UNCHANGED <<gateVars, bundles, approvals, retained, clock>>

\* ApprovalService.decide, from the local API or the phone, for an approval
\* without a decision.  A retry of a decided one goes straight to resolve,
\* which only reads it.
BeginDecide(h, a, d) ==
    /\ review[h].op = "idle"
    /\ a \in Pending
    /\ jobState = "waiting_approval"
    /\ Latest = approvals[a].bundle
    /\ Holds(h, [op |-> "decide", job |-> jobState, bundle |-> Latest, diff |-> None,
                 approval |-> a, decision |-> d])
    /\ UNCHANGED <<gateVars, bundles, approvals, retained, clock>>

\* ReadOnlyDiffService.collect answers.
CollectReview(h) ==
    /\ review[h].op # "idle"
    /\ review[h].diff = None
    /\ Holds(h, [review[h] EXCEPT !.diff = tree])
    /\ UNCHANGED <<gateVars, bundles, approvals, retained, clock>>

-----------------------------------------------------------------------------
(* The transactions.                                                       *)

\* Fault: the bundle is not compared with the latest readiness event.
Matching_AnyRound(h) == review[h].diff \in Contents \ Secret

\* ReviewBundleService.create compares the diff with the latest readiness.
Matching(h) == review[h].diff = ready[Len(ready)] /\ review[h].diff \notin Secret

\* Fault: the job, not the round, identifies the bundle, and a new one replaces it.
Frozen_ByJob(b) == bundles' = <<b>>

\* ReviewBundleRepository.create: one bundle for each round, never replaced.
Frozen(b) ==
    bundles' = IF bundles # <<>> /\ Latest.round = b.round THEN bundles ELSE Append(bundles, b)

StoreBundle(h) ==
    /\ review[h].op = "freeze"
    /\ review[h].diff # None
    /\ Matching(h)
    /\ jobState = review[h].job
    /\ Frozen([round |-> Len(ready), content |-> review[h].diff])
    /\ Reply(h)
    /\ UNCHANGED <<gateVars, approvals, retained, clock>>

\* assert_live: the collected diff is the frozen one.
Live(h) ==
    /\ review[h].diff # None
    /\ review[h].diff = review[h].bundle.content
    /\ review[h].diff \notin Secret

\* Fault: the latest readiness event is not looked up.
Snapshot_AnyRound(h) == Latest = review[h].bundle /\ jobState = review[h].job

\* _assert_snapshot: the stored bundle, its round and the job are those read.
Snapshot(h) ==
    /\ Latest = review[h].bundle
    /\ Len(ready) = review[h].bundle.round
    /\ jobState = review[h].job

\* ApprovalWorkflowRepository.request records a pending approval.  For a job
\* that is already waiting it only returns the pending approval or refuses.
StoreRequest(h) ==
    /\ review[h].op = "request"
    /\ Live(h)
    /\ Snapshot(h)
    /\ jobState = "review_ready"
    /\ Pending = {}
    /\ approvals' = Append(approvals,
           [bundle |-> review[h].bundle, expires |-> clock + Ttl, decision |-> None,
            decidedAt |-> 0])
    /\ jobState' = "waiting_approval"
    /\ Reply(h)
    /\ UNCHANGED <<tree, command, checks, process, ready, gate, runs, bundles, retained, clock>>

\* resolve decides an approval once, and only before it expires.
Undecided(a) == approvals[a].decision = None /\ clock < approvals[a].expires

\* Fault: a rejection does not record the retention of its worktree.
Retain_Nothing(h) == retained' = retained

\* A rejection freezes the deadline of its worktree in the same transaction.
Retain(h) ==
    retained' = IF review[h].decision = "rejected"
                THEN Append(retained, [approval |-> review[h].approval,
                                       until |-> clock + RetentionDays])
                ELSE retained

\* What resolve requires of the review by then.
Resolvable(h) == Live(h) /\ Snapshot(h) /\ Cardinality(Pending) = 1

Resolve(h) ==
    LET a == review[h].approval IN
    /\ review[h].op = "decide"
    /\ Resolvable(h)
    /\ Undecided(a)
    /\ approvals' = [approvals EXCEPT ![a] =
           [bundle |-> approvals[a].bundle, expires |-> approvals[a].expires,
            decision |-> review[h].decision, decidedAt |-> clock]]
    /\ jobState' = Target(review[h].decision)
    /\ Retain(h)
    /\ Reply(h)
    /\ UNCHANGED <<tree, command, checks, process, ready, gate, runs, bundles, clock>>

\* An answer that changes nothing: a conflict, an expired approval, a retry
\* that is shown the recorded approval, a diff that could not be collected.
Refuse(h) ==
    /\ review[h].op # "idle"
    /\ Reply(h)
    /\ UNCHANGED <<gateVars, bundles, approvals, retained, clock>>

-----------------------------------------------------------------------------
(* The environment.                                                        *)

Tick ==
    /\ clock < MaxClock
    /\ clock' = clock + 1
    /\ UNCHANGED <<gateVars, bundles, approvals, retained, review>>

\* JobRepository.update sends a job whose changes were requested back to
\* verification.  The repository's tests do so; no route of the API does.
Rework ==
    /\ jobState = "running"
    /\ Len(ready) < MaxRounds
    /\ jobState' = "verifying"
    /\ UNCHANGED <<tree, command, checks, process, ready, gate, runs, reviewVars>>

RestartReview(k) ==
    /\ RestartGate(k)
    /\ review' = [h \in Reviewers |-> NoReview]
    /\ UNCHANGED <<bundles, approvals, retained, clock>>

-----------------------------------------------------------------------------
ReviewStep(h) ==
    \/ BeginFreeze(h)
    \/ BeginRequest(h)
    \/ \E a \in DOMAIN approvals, d \in Decision : BeginDecide(h, a, d)
    \/ CollectReview(h)
    \/ StoreBundle(h)
    \/ StoreRequest(h)
    \/ Resolve(h)
    \/ Refuse(h)

Next ==
    \/ (\E h \in Requests : GateStep(h)) /\ UNCHANGED reviewVars
    \/ (\E c \in Contents : Edit(c)) /\ UNCHANGED reviewVars
    \/ (\E k \in Commands : ProcessExits(k)) /\ UNCHANGED reviewVars
    \/ \E h \in Reviewers : ReviewStep(h)
    \/ \E k \in Commands : RestartReview(k)
    \/ Tick
    \/ Rework

Spec == Init /\ [][Next]_vars

-----------------------------------------------------------------------------
(* Properties.                                                             *)

\* What RecoveryService finds wrong with the approvals of a job when a backend
\* starts.
RecoveryIssue ==
    IF jobState # "waiting_approval"
    THEN IF Pending = {} THEN "none" ELSE "unexpected_pending_approval"
    ELSE CASE Pending = {} -> "approval_required"
           [] Cardinality(Pending) > 1 -> "multiple_pending_approvals"
           [] \E a \in Pending : Pending = {a} /\ approvals[a].expires <= clock -> "approval_expired"
           [] OTHER -> "none"

\* read_review never meets a review it calls inconsistent, and a restart at any
\* point finds nothing wrong but an approval that expired: a job waits for
\* approval exactly while one approval is pending, that approval binds the
\* latest bundle of the latest round, and no bundle has two approvals.
ReviewConsistent ==
    /\ bundles # <<>> => Cardinality(Matches(Latest)) <= 1
    /\ Pending # {} => Pending = Matches(Latest) /\ Len(ready) = Latest.round
    /\ RecoveryIssue \in {"none", "approval_expired"}

\* What an approval binds was verified and scanned: the bundle carries the
\* content of its round, and the round that of a passing check.
ApprovedWasVerified ==
    \A a \in DOMAIN approvals : approvals[a].decision = "approved" =>
        LET b == approvals[a].bundle IN
        /\ b.content = ready[b.round]
        /\ b.content \notin Secret
        /\ Verified(b.content)

\* A job is approved or rejected by exactly one approval, the one of the
\* latest bundle of the latest round: promotion and retention can load it.  A
\* rejection has one retention record, with the deadline its decision froze.
OutcomeBindsReview ==
    jobState \in {"approved", "rejected"} =>
        /\ Latest.round = Len(ready)
        /\ \E a \in Matches(Latest) :
               /\ {x \in DOMAIN approvals : approvals[x].decision \in {"approved", "rejected"}} = {a}
               /\ approvals[a].decision = jobState
               /\ retained = IF jobState = "approved" THEN <<>>
                             ELSE <<[approval |-> a,
                                     until |-> approvals[a].decidedAt + RetentionDays]>>

\* Review history only grows: rounds, bundles, decided approvals and retention
\* records keep what they said when they were written.
HistoryFrozen ==
    [][/\ \A i \in DOMAIN ready : i \in DOMAIN ready' /\ ready'[i] = ready[i]
       /\ \A i \in DOMAIN bundles : i \in DOMAIN bundles' /\ bundles'[i] = bundles[i]
       /\ \A i \in DOMAIN approvals :
              /\ i \in DOMAIN approvals'
              /\ approvals[i].decision # None => approvals'[i] = approvals[i]
       /\ \A i \in DOMAIN retained : i \in DOMAIN retained' /\ retained'[i] = retained[i]]_vars

-----------------------------------------------------------------------------
(* The inductive invariant behind them.                                    *)

Final == {"approved", "rejected"}

\* The states this part of the lifecycle moves through.
UnderReview ==
    /\ jobState \in {"verifying", "review_ready", "waiting_approval", "running"} \cup Final
    /\ jobState # "verifying" => ready # <<>>

\* A bundle carries the content of a round that was recorded.
OfRound(b) == b.round \in DOMAIN ready /\ b.content = ready[b.round]
BundlesOfRounds ==
    /\ \A i \in DOMAIN bundles : OfRound(bundles[i])
    /\ \A a \in DOMAIN approvals : OfRound(approvals[a].bundle)

\* No two approvals bind the same round, and a round that has one has left
\* review_ready for good.
OneApprovalEach ==
    /\ \A a, o \in DOMAIN approvals : approvals[a].bundle.round = approvals[o].bundle.round => a = o
    /\ jobState = "review_ready" =>
           \A a \in DOMAIN approvals : approvals[a].bundle.round # Len(ready)

\* A job waits exactly for the one approval that has no decision, that of the
\* latest bundle of the latest round.
WaitsForPending ==
    /\ jobState # "waiting_approval" => Pending = {}
    /\ jobState = "waiting_approval" =>
           /\ bundles # <<>>
           /\ Latest.round = Len(ready)
           /\ \E a \in DOMAIN approvals : Pending = {a} /\ approvals[a].bundle = Latest

\* Before the job's outcome no approval has one and nothing is retained.
OpenUntilOutcome ==
    jobState \notin Final =>
        /\ \A a \in DOMAIN approvals : approvals[a].decision \notin Final
        /\ retained = <<>>

\* What a request has read and may rely on: bundles and approvals that were
\* read are never taken away.
ReviewersInformed ==
    \A h \in Reviewers :
        /\ review[h].op = "freeze" => review[h].job = "review_ready"
        /\ review[h].op \in {"request", "decide"} => bundles # <<>> /\ review[h].bundle \in Bundle
        /\ review[h].op = "decide" =>
               /\ review[h].job = "waiting_approval"
               /\ review[h].approval \in DOMAIN approvals
               /\ review[h].decision \in Decision

ReviewInv ==
    /\ ReviewTypeOK
    /\ UnderReview
    /\ BundlesOfRounds
    /\ OneApprovalEach
    /\ WaitsForPending
    /\ OpenUntilOutcome
    /\ ReviewersInformed
    /\ OutcomeBindsReview

=============================================================================
