---------------------------- MODULE ReviewProofs ----------------------------
(* Proofs about verification and review, for any contents, commands and    *)
(* numbers of concurrent requests, rounds and approvals.                   *)
EXTENDS ReviewFlow, FiniteSetTheorems, TLAPS

-----------------------------------------------------------------------------
(* The gate.                                                               *)

\* The records a request and a check start with are of their types.
LEMMA GateValues == Idle \in Request /\ NoCheck \in CheckOf /\ Started \in CheckOf
BY DEF Idle, Request, NoCheck, Started, CheckOf

\* A request that moves changes its own record only.
LEMMA GoesOnly ==
    ASSUME gate \in [Requests -> Request], NEW h \in Requests, NEW r \in Request, Goes(h, r)
    PROVE  /\ gate' \in [Requests -> Request]
           /\ gate'[h] = r
           /\ \A g \in Requests : g # h => gate'[g] = gate[g]
BY DEF Goes

\* What was verified stays so while the finished checks keep their result.
LEMMA VerifiedStays ==
    ASSUME \A k \in Commands : checks[k].phase = "finished" => checks'[k] = checks[k],
           NEW CONSTANT c, Verified(c)
    PROVE  Verified(c)'
BY DEF Verified

\* The gate's invariant does not depend on where the job is.
LEMMA JobMoves ==
    ASSUME GateInv, jobState' \in JobState,
           UNCHANGED <<tree, command, checks, process, ready, gate, runs>>
    PROVE  GateInv'
<1>1. GateTypeOK'
  BY DEF GateInv, GateTypeOK
<1> QED
  BY <1>1 DEF GateInv, StartsRecorded, CheckedAlone, AwaitsOwnCheck, Awaiting, RequestsInformed,
              ReadyIsVerified, Verified

\* A request may go to any await but that for a check, once it knows what the
\* await relies on.
LEMMA RequestMoves ==
    ASSUME GateInv, NEW h \in Requests, NEW r \in Request, Goes(h, r),
           UNCHANGED <<jobState, tree, command, checks, process, ready, runs>>,
           r.at \notin {"checking", "recheck"},
           r.at \in {"authorize", "evaluate"} => r.diff \in Contents,
           r.at \in {"lock", "collect", "evaluate"} => Verified(r.want)
    PROVE  GateInv'
<1>0. /\ gate' \in [Requests -> Request]
      /\ gate'[h] = r
      /\ \A g \in Requests : g # h => gate'[g] = gate[g]
  BY GoesOnly DEF GateInv, GateTypeOK
<1>1. GateTypeOK'
  BY <1>0 DEF GateInv, GateTypeOK
<1>2. StartsRecorded' /\ CheckedAlone' /\ ReadyIsVerified'
  BY DEF GateInv, StartsRecorded, CheckedAlone, ReadyIsVerified, Verified
<1>3. AwaitsOwnCheck'
  BY <1>0 DEF GateInv, AwaitsOwnCheck, Awaiting
<1>4. RequestsInformed'
  BY <1>0 DEF GateInv, RequestsInformed, Verified
<1> QED
  BY <1>1, <1>2, <1>3, <1>4 DEF GateInv

\* The transaction that starts a check.
LEMMA StartCheckKeeps ==
    ASSUME GateInv, NEW h \in Requests, StartCheck(h)
    PROVE  GateInv'
<1> DEFINE r == [gate[h] EXCEPT !.at = "checking"]
<1>0. /\ gate[h] \in Request /\ gate[h].at = "authorize" /\ command \in Commands
      /\ checks \in [Commands -> CheckOf] /\ runs \in [Commands -> Nat]
      /\ \A k \in Commands : checks[k].phase # "started"
      /\ checks[command].phase = "none"
  BY DEF GateInv, GateTypeOK, StartCheck, Startable
<1>1. r \in Request /\ r.at = "checking" /\ r.diff = gate[h].diff /\ gate[h].diff \in Contents
  BY <1>0 DEF Request, Verifying, GateInv, RequestsInformed
<1>2. /\ gate' \in [Requests -> Request]
      /\ gate'[h] = r
      /\ \A g \in Requests : g # h => gate'[g] = gate[g]
  BY <1>1, GoesOnly DEF GateInv, GateTypeOK, StartCheck
<1> HIDE DEF r
<1>3. /\ checks' \in [Commands -> CheckOf]
      /\ checks'[command] = Started
      /\ \A k \in Commands : k # command => checks'[k] = checks[k]
  BY <1>0, GateValues DEF StartCheck
<1>4. /\ runs' \in [Commands -> Nat]
      /\ runs'[command] = runs[command] + 1
      /\ \A k \in Commands : k # command => runs'[k] = runs[k]
  BY <1>0 DEF StartCheck
<1>5. GateTypeOK'
  BY <1>0, <1>2, <1>3, <1>4 DEF GateInv, GateTypeOK, StartCheck
<1>6. StartsRecorded'
  BY <1>0, <1>3, <1>4 DEF GateInv, StartsRecorded, Started
<1>7. process = {} /\ process' = {command}
  BY <1>0 DEF GateInv, GateTypeOK, CheckedAlone, StartCheck
<1>8. CheckedAlone'
  BY <1>0, <1>3, <1>7 DEF CheckedAlone, Started
<1>9. AwaitsOwnCheck'
  <2>1. \A g \in Requests : ~Awaiting(g)
    BY <1>0 DEF GateInv, AwaitsOwnCheck
  <2>2. command' = command
    BY DEF StartCheck
  <2> QED
    BY <1>1, <1>2, <1>3, <2>1, <2>2 DEF AwaitsOwnCheck, Awaiting, Started
<1>10. \A c : Verified(c) => Verified(c)'
  BY <1>0, <1>3, VerifiedStays
<1>11. RequestsInformed'
  BY <1>1, <1>2, <1>10 DEF GateInv, RequestsInformed
<1>12. ReadyIsVerified'
  BY <1>10 DEF GateInv, ReadyIsVerified, StartCheck
<1> QED
  BY <1>5, <1>6, <1>8, <1>9, <1>11, <1>12 DEF GateInv

\* The command of a check returns.
LEMMA CommandEndsKeeps ==
    ASSUME GateInv, NEW h \in Requests, CommandEnds(h)
    PROVE  GateInv'
<1> PICK passed \in BOOLEAN : Goes(h, [gate[h] EXCEPT !.at = "recheck", !.passed = passed])
  BY DEF CommandEnds
<1> DEFINE r == [gate[h] EXCEPT !.at = "recheck", !.passed = passed]
<1>0. gate[h] \in Request /\ gate[h].at = "checking" /\ process' = process \ {command}
  BY DEF GateInv, GateTypeOK, CommandEnds
<1>1. r \in Request /\ r.at = "recheck" /\ r.diff = gate[h].diff /\ gate[h].diff \in Contents
  BY <1>0 DEF Request, Verifying, GateInv, RequestsInformed
<1>2. /\ gate' \in [Requests -> Request]
      /\ gate'[h] = r
      /\ \A g \in Requests : g # h => gate'[g] = gate[g]
  BY <1>1, GoesOnly DEF GateInv, GateTypeOK
<1> HIDE DEF r
<1> USE DEF CommandEnds
<1>3. GateTypeOK'
  BY <1>2 DEF GateInv, GateTypeOK
<1>4. StartsRecorded' /\ CheckedAlone' /\ ReadyIsVerified'
  BY DEF GateInv, StartsRecorded, CheckedAlone, ReadyIsVerified, Verified
<1>5. AwaitsOwnCheck'
  BY <1>0, <1>1, <1>2 DEF GateInv, AwaitsOwnCheck, Awaiting
<1>6. RequestsInformed'
  BY <1>1, <1>2 DEF GateInv, RequestsInformed, Verified
<1> QED
  BY <1>3, <1>4, <1>5, <1>6 DEF GateInv

\* The finally clause of verify.
LEMMA FinishCheckKeeps ==
    ASSUME GateInv, NEW h \in Requests, FinishCheck(h)
    PROVE  GateInv'
<1>0. /\ gate[h] \in Request /\ gate[h].at = "recheck" /\ command \in Commands
      /\ gate[h].diff \in Contents /\ gate[h].passed \in BOOLEAN
      /\ checks \in [Commands -> CheckOf]
      /\ Awaiting(h) /\ checks[command].phase = "started" /\ command \notin process
  BY DEF GateInv, GateTypeOK, FinishCheck, RequestsInformed, AwaitsOwnCheck, Awaiting, Request
<1>1. /\ gate' \in [Requests -> Request]
      /\ gate'[h] = Idle
      /\ \A g \in Requests : g # h => gate'[g] = gate[g]
  BY GoesOnly, GateValues DEF GateInv, GateTypeOK, FinishCheck, Answer
<1>2. Result(h) \in CheckOf /\ Result(h).phase = "finished"
  BY <1>0 DEF Result, CheckOf, Unmoved
<1>3. /\ checks' \in [Commands -> CheckOf]
      /\ checks'[command] = Result(h)
      /\ \A k \in Commands : k # command => checks'[k] = checks[k]
  BY <1>0, <1>2 DEF FinishCheck
<1>4. GateTypeOK'
  BY <1>1, <1>3 DEF GateInv, GateTypeOK, FinishCheck
<1>5. StartsRecorded'
  BY <1>0, <1>2, <1>3 DEF GateInv, StartsRecorded, FinishCheck
<1>6. CheckedAlone'
  BY <1>0, <1>2, <1>3 DEF GateInv, GateTypeOK, CheckedAlone, FinishCheck
<1>7. AwaitsOwnCheck'
  <2>1. \A g \in Requests : Awaiting(g) => g = h
    BY <1>0 DEF GateInv, AwaitsOwnCheck
  <2> QED
    BY <1>1, <2>1 DEF AwaitsOwnCheck, Awaiting, Idle
<1>8. \A c : Verified(c) => Verified(c)'
  BY <1>0, <1>3, VerifiedStays
<1>9. RequestsInformed'
  BY <1>1, <1>8 DEF GateInv, RequestsInformed, Idle
<1>10. ReadyIsVerified'
  BY <1>8 DEF GateInv, ReadyIsVerified, FinishCheck
<1> QED
  BY <1>4, <1>5, <1>6, <1>7, <1>9, <1>10 DEF GateInv

\* A job becomes ready: what is recorded is the verified content that passed.
LEMMA BecomeReadyKeeps ==
    ASSUME GateInv, NEW h \in Requests, BecomeReady(h)
    PROVE  GateInv'
<1>0. /\ gate[h].at = "evaluate" /\ gate[h].diff \in Contents /\ gate[h].diff \notin Secret
      /\ Verified(gate[h].diff)
      /\ ready \in Seq(Contents) /\ ready' = Append(ready, gate[h].diff)
  BY DEF GateInv, GateTypeOK, BecomeReady, Passes, RequestsInformed
<1>1. /\ gate' \in [Requests -> Request]
      /\ gate'[h] = Idle
      /\ \A g \in Requests : g # h => gate'[g] = gate[g]
  BY GoesOnly, GateValues DEF GateInv, GateTypeOK, BecomeReady, Answer
<1> USE DEF BecomeReady
<1>2. GateTypeOK'
  BY <1>0, <1>1 DEF GateInv, GateTypeOK, JobState
<1>3. StartsRecorded' /\ CheckedAlone'
  BY DEF GateInv, StartsRecorded, CheckedAlone
<1>4. AwaitsOwnCheck'
  BY <1>1 DEF GateInv, AwaitsOwnCheck, Awaiting, Idle
<1>5. RequestsInformed'
  BY <1>1 DEF GateInv, RequestsInformed, Verified, Idle
<1>6. ReadyIsVerified'
  <2>1. \A i \in DOMAIN ready' : ready'[i] = gate[h].diff \/ (i \in DOMAIN ready /\ ready'[i] = ready[i])
    BY <1>0
  <2>2. \A c : Verified(c) => Verified(c)'
    BY DEF Verified
  <2> QED
    BY <1>0, <2>1, <2>2 DEF GateInv, ReadyIsVerified
<1> QED
  BY <1>2, <1>3, <1>4, <1>5, <1>6 DEF GateInv

\* Every step of a request keeps the gate's invariant.
LEMMA RequestKeeps ==
    ASSUME GateInv, NEW h \in Requests, GateStep(h)
    PROVE  GateInv'
<1>0. gate[h] \in Request /\ command \in Commands /\ tree \in Contents /\ jobState \in JobState
  BY DEF GateInv, GateTypeOK
<1>1. CASE BeginVerify(h)
  <2> DEFINE r == [Idle EXCEPT !.at = "fingerprint", !.job = jobState]
  <2>1. r \in Request /\ r.at = "fingerprint"
    BY <1>0 DEF Idle, Request, Verifying
  <2> QED
    BY <1>1, <2>1, RequestMoves DEF BeginVerify
<1>2. CASE Fingerprint(h)
  <2> DEFINE r == [gate[h] EXCEPT !.at = "authorize", !.diff = tree]
  <2>1. r \in Request /\ r.at = "authorize" /\ r.diff \in Contents
    BY <1>0 DEF Request, Verifying
  <2> QED
    BY <1>2, <2>1, RequestMoves DEF Fingerprint
<1>3. CASE BeginReadiness(h)
  <2> DEFINE r == [Idle EXCEPT !.at = "lock", !.want = checks[command].content]
  <2>1. checks[command] \in CheckOf /\ checks[command].phase = "finished"
    BY <1>0, <1>3 DEF BeginReadiness, GateInv, GateTypeOK
  <2>2. checks[command].content \in Contents /\ Verified(checks[command].content)
    BY <1>0, <1>3, <2>1 DEF CheckOf, NoCheck, Started, Verified, BeginReadiness
  <2>3. r \in Request /\ r.at = "lock" /\ r.want = checks[command].content
    BY <2>2 DEF Idle, Request
  <2> QED
    BY <1>3, <2>2, <2>3, RequestMoves DEF BeginReadiness
<1>4. CASE LoadJob(h)
  <2> DEFINE r == [gate[h] EXCEPT !.at = "collect", !.job = jobState]
  <2>1. r \in Request /\ r.at = "collect" /\ r.want = gate[h].want
    BY <1>0 DEF Request, Evaluating
  <2>2. Verified(gate[h].want)
    BY <1>4 DEF GateInv, RequestsInformed, LoadJob
  <2> QED
    BY <1>4, <2>1, <2>2, RequestMoves DEF LoadJob
<1>5. CASE Collect(h)
  <2> DEFINE r == [gate[h] EXCEPT !.at = "evaluate", !.diff = tree]
  <2>1. r \in Request /\ r.at = "evaluate" /\ r.want = gate[h].want /\ r.diff \in Contents
    BY <1>0 DEF Request, Evaluating
  <2>2. Verified(gate[h].want)
    BY <1>5 DEF GateInv, RequestsInformed, Collect
  <2> QED
    BY <1>5, <2>1, <2>2, RequestMoves DEF Collect
<1>6. CASE Decline(h)
  <2>1. Idle \in Request /\ Idle.at = "idle"
    BY GateValues DEF Idle
  <2> QED
    BY <1>6, <2>1, RequestMoves DEF Decline, Answer
<1> QED
  BY <1>1, <1>2, <1>3, <1>4, <1>5, <1>6, StartCheckKeeps, CommandEndsKeeps, FinishCheckKeeps,
     BecomeReadyKeeps DEF GateStep

\* An edit of the worktree, a restart and the end of a process keep it too.
LEMMA SurroundingsKeep ==
    ASSUME GateInv,
           \/ \E c \in Contents : Edit(c)
           \/ \E k \in Commands : RestartGate(k) \/ ProcessExits(k)
    PROVE  GateInv'
<1> USE DEF GateInv
<1>1. ASSUME NEW c \in Contents, Edit(c) PROVE GateInv'
  BY <1>1 DEF Edit, GateTypeOK, StartsRecorded, CheckedAlone, AwaitsOwnCheck, Awaiting,
              RequestsInformed, ReadyIsVerified, Verified
<1>2. ASSUME NEW k \in Commands, RestartGate(k) PROVE GateInv'
  <2>1. \A h \in Requests : gate'[h] = Idle
    BY <1>2 DEF RestartGate
  <2>2. GateTypeOK'
    BY <1>2, GateValues DEF RestartGate, GateTypeOK
  <2>3. AwaitsOwnCheck' /\ RequestsInformed'
    BY <2>1 DEF AwaitsOwnCheck, Awaiting, RequestsInformed, Idle
  <2> QED
    BY <1>2, <2>2, <2>3 DEF RestartGate, StartsRecorded, CheckedAlone, ReadyIsVerified, Verified
<1>3. ASSUME NEW k \in Commands, ProcessExits(k) PROVE GateInv'
  BY <1>3 DEF ProcessExits, GateTypeOK, StartsRecorded, CheckedAlone, AwaitsOwnCheck, Awaiting,
              RequestsInformed, ReadyIsVerified, Verified
<1> QED
  BY <1>1, <1>2, <1>3

\* The gate starts in its invariant.
LEMMA GateStarts == GateInit => GateInv
<1> SUFFICES ASSUME GateInit PROVE GateInv
  OBVIOUS
<1>1. GateTypeOK
  BY GateValues DEF GateInit, GateTypeOK, JobState
<1>2. StartsRecorded /\ CheckedAlone
  BY DEF GateInit, StartsRecorded, CheckedAlone, NoCheck
<1>3. AwaitsOwnCheck /\ RequestsInformed /\ ReadyIsVerified
  BY DEF GateInit, AwaitsOwnCheck, Awaiting, RequestsInformed, ReadyIsVerified, Idle
<1> QED
  BY <1>1, <1>2, <1>3 DEF GateInv

\* The gate's invariant implies its two safety properties.
LEMMA GateImplies == GateInv => ReadyIsVerified /\ CheckedOnce
<1> SUFFICES ASSUME GateInv PROVE CheckedOnce
  BY DEF GateInv
<1>1. \A k \in Commands : runs[k] <= 1
  BY DEF GateInv, StartsRecorded
<1>2. \A k, l \in process : k = l
  BY DEF GateInv, GateTypeOK, CheckedAlone
<1> QED
  BY <1>1, <1>2 DEF CheckedOnce

\* The inductive invariant of verification and the secret gate: starts are
\* counted with their record, one check is unfinished at a time and only its
\* request waits for it, and what a readiness request compares with is verified.
THEOREM GateSafe == GateSpec => []GateInv
<1>1. GateInv /\ [GateNext]_gateVars => GateInv'
  <2> SUFFICES ASSUME GateInv, [GateNext]_gateVars PROVE GateInv'
    OBVIOUS
  <2>1. CASE UNCHANGED gateVars
    BY <2>1, JobMoves DEF gateVars, GateInv, GateTypeOK
  <2> QED
    BY <2>1, RequestKeeps, SurroundingsKeep DEF GateNext
<1> QED
  BY <1>1, GateStarts, PTL DEF GateSpec

\* What becomes ready for review is what the trusted command verified and the
\* scanner passed, whatever was written to the worktree meanwhile.
THEOREM ReadyVerified == GateSpec => []ReadyIsVerified
BY GateSafe, GateImplies, PTL

\* A verification command is started at most once and runs alone, over any
\* number of concurrent requests, crashes and changes of the configuration.
THEOREM StartedOnce == GateSpec => []CheckedOnce
BY GateSafe, GateImplies, PTL

\* A check passes only over the content it was authorized for.
THEOREM PassedUnmoved == GateSpec => PassedMeansUnmoved
<1> DEFINE Unmoving == \A k \in Commands :
              ~checks[k].passed /\ checks'[k].passed => checks'[k].content = tree
<1>1. GateInv /\ [GateNext]_gateVars => [Unmoving]_gateVars
  <2> SUFFICES ASSUME GateInv, GateNext PROVE Unmoving
    OBVIOUS
  <2>0. checks \in [Commands -> CheckOf] /\ command \in Commands
    BY DEF GateInv, GateTypeOK
  <2>1. CASE UNCHANGED checks
    BY <2>1
  <2>2. ASSUME NEW h \in Requests, StartCheck(h) PROVE Unmoving
    <3>1. \A k \in Commands : checks'[k] = IF k = command THEN Started ELSE checks[k]
      BY <2>0, <2>2 DEF StartCheck
    <3> QED
      BY <3>1 DEF Started
  <2>3. ASSUME NEW h \in Requests, FinishCheck(h) PROVE Unmoving
    <3>1. \A k \in Commands : checks'[k] = IF k = command THEN Result(h) ELSE checks[k]
      BY <2>0, <2>3 DEF FinishCheck
    <3>2. Result(h).passed = (gate[h].passed /\ Unmoved(h)) /\ Result(h).content = gate[h].diff
      BY Zenon DEF Result
    <3>3. Result(h).passed => Result(h).content = tree
      BY <3>2, Zenon DEF Unmoved
    <3> QED
      BY <3>1, <3>3, Zenon
  <2>4. ASSUME NEW h \in Requests, GateStep(h)
        PROVE  StartCheck(h) \/ FinishCheck(h) \/ UNCHANGED checks
    BY <2>4 DEF GateStep, BeginVerify, Fingerprint, CommandEnds, BeginReadiness, LoadJob, Collect,
                BecomeReady, Decline
  <2>5. ASSUME NEW c \in Contents, Edit(c) PROVE UNCHANGED checks
    BY <2>5 DEF Edit
  <2>6. ASSUME NEW k \in Commands, RestartGate(k) \/ ProcessExits(k) PROVE UNCHANGED checks
    BY <2>6 DEF RestartGate, ProcessExits
  <2> QED
    BY <2>1, <2>2, <2>3, <2>4, <2>5, <2>6 DEF GateNext
<1> QED
  BY <1>1, GateSafe, PTL DEF GateSpec, PassedMeansUnmoved

-----------------------------------------------------------------------------
(* The review: what every step may assume.                                 *)

\* An idle request is of its type and has nothing to rely on.
LEMMA ReviewValues == NoReview \in Review /\ NoReview.op = "idle"
BY DEF NoReview, Review

\* A request that moves changes its own record only.
LEMMA HoldsOnly ==
    ASSUME review \in [Reviewers -> Review], NEW h \in Reviewers, NEW r \in Review, Holds(h, r)
    PROVE  /\ review' \in [Reviewers -> Review]
           /\ review'[h] = r
           /\ \A g \in Reviewers : g # h => review'[g] = review[g]
BY DEF Holds

\* Only a job in verification becomes ready.
LEMMA ReadyFromVerifying ==
    ASSUME NEW s \in JobState, "review_ready" \in AllowedTransitions(s)
    PROVE  s = "verifying"
BY DEF JobState, AllowedTransitions, Onward, StopStates, TerminalJobStates

\* Each decision moves the job to a state of its own.
LEMMA Targets ==
    ASSUME NEW d \in Decision
    PROVE  /\ Target(d) \in {"running", "approved", "rejected"}
           /\ d \in Final <=> Target(d) \in Final
           /\ d \in Final => Target(d) = d
           /\ Target(d) \in JobState
BY DEF Decision, Target, Final, JobState

\* What a request relies on survives while bundles and approvals only grow.
LEMMA InformedStays ==
    ASSUME ReviewersInformed, UNCHANGED review,
           bundles # <<>> => bundles' # <<>>, DOMAIN approvals \subseteq DOMAIN approvals'
    PROVE  ReviewersInformed'
BY DEF ReviewersInformed

\* A request that ends or moves relies on what its new record says.
LEMMA InformedMoves ==
    ASSUME ReviewTypeOK, ReviewersInformed, NEW h \in Reviewers, NEW r \in Review, Holds(h, r),
           bundles # <<>> => bundles' # <<>>, DOMAIN approvals \subseteq DOMAIN approvals',
           r.op = "freeze" => r.job = "review_ready",
           r.op \in {"request", "decide"} => bundles' # <<>> /\ r.bundle \in Bundle,
           r.op = "decide" => /\ r.job = "waiting_approval"
                              /\ r.approval \in DOMAIN approvals'
                              /\ r.decision \in Decision
    PROVE  review' \in [Reviewers -> Review] /\ ReviewersInformed'
<1>1. /\ review' \in [Reviewers -> Review]
      /\ review'[h] = r
      /\ \A g \in Reviewers : g # h => review'[g] = review[g]
  BY HoldsOnly DEF ReviewTypeOK
<1> QED
  BY <1>1 DEF ReviewersInformed

\* A step that leaves the job, its rounds, bundles, approvals and retention
\* alone has only its requests to answer for.
LEMMA Unaffected ==
    ASSUME ReviewInv, GateTypeOK', UNCHANGED <<jobState, ready, bundles, approvals, retained>>,
           clock' \in Nat, review' \in [Reviewers -> Review], ReviewersInformed'
    PROVE  ReviewInv'
<1> USE DEF ReviewInv
<1>1. ReviewTypeOK'
  BY DEF ReviewTypeOK
<1>2. UnderReview' /\ BundlesOfRounds' /\ OneApprovalEach'
  BY DEF UnderReview, BundlesOfRounds, OfRound, OneApprovalEach
<1>3. WaitsForPending' /\ OpenUntilOutcome'
  BY DEF WaitsForPending, OpenUntilOutcome, Pending, Latest
<1>4. OutcomeBindsReview'
  BY DEF OutcomeBindsReview, Matches, Latest
<1> QED
  BY <1>1, <1>2, <1>3, <1>4

\* Requests that read and wait, and those that are refused.
LEMMA ReadingKeeps ==
    ASSUME ReviewInv, NEW h \in Reviewers,
           \/ BeginFreeze(h)
           \/ BeginRequest(h)
           \/ \E a \in DOMAIN approvals, d \in Decision : BeginDecide(h, a, d)
           \/ CollectReview(h)
           \/ Refuse(h)
    PROVE  ReviewInv'
<1>0. /\ ReviewTypeOK /\ ReviewersInformed /\ GateTypeOK /\ review[h] \in Review
      /\ tree \in Contents /\ jobState \in JobState /\ clock \in Nat
      /\ bundles \in Seq(Bundle) /\ approvals \in Seq(Approval)
  BY DEF ReviewInv, ReviewTypeOK, GateTypeOK
<1>1. bundles # <<>> => Latest \in Bundle
  BY <1>0 DEF Latest
<1> DEFINE Same == UNCHANGED <<gateVars, bundles, approvals, retained, clock>>
<1>2. ASSUME NEW r \in Review, Holds(h, r), Same,
             r.op = "freeze" => r.job = "review_ready",
             r.op \in {"request", "decide"} => bundles # <<>> /\ r.bundle \in Bundle,
             r.op = "decide" => /\ r.job = "waiting_approval"
                                /\ r.approval \in DOMAIN approvals
                                /\ r.decision \in Decision
      PROVE  ReviewInv'
  <2>1. review' \in [Reviewers -> Review] /\ ReviewersInformed'
    BY <1>0, <1>2, InformedMoves
  <2>2. GateTypeOK' /\ clock' \in Nat
    BY <1>0, <1>2 DEF GateTypeOK, gateVars
  <2> QED
    BY <1>2, <2>1, <2>2, Unaffected DEF gateVars
<1>3. CASE BeginFreeze(h)
  <2> DEFINE r == [NoReview EXCEPT !.op = "freeze", !.job = jobState]
  <2>1. r \in Review /\ r.op = "freeze" /\ r.job = jobState
    BY <1>0 DEF NoReview, Review
  <2> QED
    BY <1>2, <1>3, <2>1 DEF BeginFreeze
<1>4. CASE BeginRequest(h)
  <2> DEFINE r == [NoReview EXCEPT !.op = "request", !.job = jobState, !.bundle = Latest]
  <2>1. r \in Review /\ r.op = "request" /\ r.bundle = Latest
    BY <1>0, <1>1, <1>4 DEF NoReview, Review, BeginRequest
  <2> QED
    BY <1>1, <1>2, <1>4, <2>1 DEF BeginRequest
<1>5. ASSUME NEW a \in DOMAIN approvals, NEW d \in Decision, BeginDecide(h, a, d)
      PROVE  ReviewInv'
  <2> DEFINE r == [op |-> "decide", job |-> jobState, bundle |-> Latest, diff |-> None,
                   approval |-> a, decision |-> d]
  <2>1. bundles # <<>> /\ jobState = "waiting_approval"
    BY <1>5 DEF ReviewInv, WaitsForPending, BeginDecide
  <2>2. r \in Review
    BY <1>0, <1>1, <2>1 DEF Review
  <2>3. Holds(h, r) /\ Same
    BY <1>5 DEF BeginDecide
  <2> QED
    BY <1>1, <1>2, <2>1, <2>2, <2>3
<1>6. CASE CollectReview(h)
  <2> DEFINE r == [review[h] EXCEPT !.diff = tree]
  <2>1. /\ r \in Review /\ r.op = review[h].op /\ r.job = review[h].job
        /\ r.bundle = review[h].bundle /\ r.approval = review[h].approval
        /\ r.decision = review[h].decision
    BY <1>0 DEF Review
  <2>2. Holds(h, r) /\ Same
    BY <1>6 DEF CollectReview
  <2> HIDE DEF r, Same
  <2> QED
    BY <1>0, <1>2, <2>1, <2>2 DEF ReviewersInformed
<1>7. CASE Refuse(h)
  BY <1>2, <1>7, ReviewValues DEF Refuse, Reply
<1> QED
  BY <1>3, <1>4, <1>5, <1>6, <1>7

-----------------------------------------------------------------------------
(* The review: its transactions.                                           *)

\* A bundle is frozen: the readiness it carries is the latest.
LEMMA StoreBundleKeeps ==
    ASSUME ReviewInv, NEW h \in Reviewers, StoreBundle(h)
    PROVE  ReviewInv'
<1> DEFINE b == [round |-> Len(ready), content |-> review[h].diff]
<1>0. /\ ReviewTypeOK /\ GateTypeOK /\ ReviewersInformed /\ review[h] \in Review
      /\ bundles \in Seq(Bundle) /\ ready \in Seq(Contents) /\ clock \in Nat
      /\ UNCHANGED <<gateVars, approvals, retained, clock>>
  BY DEF ReviewInv, ReviewTypeOK, GateTypeOK, StoreBundle
<1>1. jobState = "review_ready" /\ ready # <<>>
  BY DEF ReviewInv, ReviewersInformed, UnderReview, StoreBundle
<1>2. b \in Bundle /\ OfRound(b)
  BY <1>0, <1>1 DEF StoreBundle, Matching, Review, Bundle, OfRound
<1>3. Frozen(b)
  BY DEF StoreBundle
<1> HIDE DEF b
<1>4. /\ bundles' \in Seq(Bundle) /\ bundles' # <<>>
      /\ \A i \in DOMAIN bundles' : bundles'[i] = b \/ (i \in DOMAIN bundles /\ bundles'[i] = bundles[i])
  BY <1>0, <1>2, <1>3 DEF Frozen
<1>5. review' \in [Reviewers -> Review] /\ ReviewersInformed'
  BY <1>0, <1>4, ReviewValues, InformedMoves DEF StoreBundle, Reply
<1>6. ReviewTypeOK'
  BY <1>0, <1>4, <1>5 DEF ReviewTypeOK, GateTypeOK, gateVars
<1>7. BundlesOfRounds'
  BY <1>0, <1>2, <1>4 DEF ReviewInv, BundlesOfRounds, OfRound, gateVars
<1>8. WaitsForPending' /\ OutcomeBindsReview'
  BY <1>0, <1>1 DEF ReviewInv, WaitsForPending, Pending, OutcomeBindsReview, gateVars
<1>9. UnderReview' /\ OneApprovalEach' /\ OpenUntilOutcome'
  BY <1>0 DEF ReviewInv, UnderReview, OneApprovalEach, OpenUntilOutcome, gateVars
<1> QED
  BY <1>5, <1>6, <1>7, <1>8, <1>9 DEF ReviewInv

\* An approval is requested: it is the first of its round, and the only one
\* without a decision.
LEMMA StoreRequestKeeps ==
    ASSUME ReviewInv, NEW h \in Reviewers, StoreRequest(h)
    PROVE  ReviewInv'
<1> DEFINE b == review[h].bundle
           e == [bundle |-> b, expires |-> clock + Ttl, decision |-> None, decidedAt |-> 0]
           n == Len(approvals) + 1
<1>0. /\ ReviewTypeOK /\ GateTypeOK /\ ReviewersInformed
      /\ bundles \in Seq(Bundle) /\ approvals \in Seq(Approval) /\ ready \in Seq(Contents)
      /\ clock \in Nat /\ jobState = "review_ready" /\ jobState' = "waiting_approval"
      /\ UNCHANGED <<tree, command, checks, process, ready, gate, runs, bundles, retained, clock>>
  BY DEF ReviewInv, ReviewTypeOK, GateTypeOK, StoreRequest
<1>1. bundles # <<>> /\ b \in Bundle /\ b = Latest /\ b.round = Len(ready) /\ OfRound(b)
  <2>1. bundles # <<>> /\ b \in Bundle /\ b = Latest /\ b.round = Len(ready)
    BY DEF ReviewInv, ReviewersInformed, StoreRequest, Snapshot
  <2>2. Len(bundles) \in DOMAIN bundles
    BY <1>0, <2>1
  <2> QED
    BY <2>1, <2>2 DEF ReviewInv, BundlesOfRounds, Latest
<1>2. e \in Approval /\ e.bundle = b /\ e.decision = None
  BY <1>0, <1>1, ReviewAssumption DEF Approval
<1>3. approvals' = Append(approvals, e)
  BY DEF StoreRequest
<1> HIDE DEF e, b
<1>4. /\ approvals' \in Seq(Approval) /\ DOMAIN approvals' = DOMAIN approvals \cup {n}
      /\ n \notin DOMAIN approvals /\ approvals'[n] = e
      /\ \A a \in DOMAIN approvals : approvals'[a] = approvals[a]
  BY <1>0, <1>2, <1>3
<1> HIDE DEF n
<1>5. review' \in [Reviewers -> Review] /\ ReviewersInformed'
  BY <1>0, <1>4, ReviewValues, InformedMoves DEF StoreRequest, Reply
<1>6. ReviewTypeOK'
  BY <1>0, <1>4, <1>5 DEF ReviewTypeOK, GateTypeOK, JobState
<1>7. UnderReview' /\ BundlesOfRounds'
  BY <1>0, <1>1, <1>2, <1>4 DEF ReviewInv, UnderReview, BundlesOfRounds, OfRound
<1>8. OneApprovalEach'
  BY <1>0, <1>1, <1>2, <1>4 DEF ReviewInv, OneApprovalEach
<1>9. Pending' = {n}
  <2>1. Pending = {}
    BY DEF StoreRequest
  <2> QED
    BY <1>2, <1>4, <2>1 DEF Pending
<1>10. WaitsForPending'
  BY <1>0, <1>1, <1>2, <1>4, <1>9 DEF WaitsForPending, Latest
<1>11. OpenUntilOutcome'
  <2>1. None \notin Final
    BY ReviewAssumption DEF Final, Decision
  <2> QED
    BY <1>0, <1>2, <1>4, <2>1 DEF ReviewInv, OpenUntilOutcome, Final
<1>12. OutcomeBindsReview'
  BY <1>0 DEF OutcomeBindsReview
<1> QED
  BY <1>5, <1>6, <1>7, <1>8, <1>10, <1>11, <1>12 DEF ReviewInv

\* An approval is decided: it was the pending one, and the job's outcome, if it
\* is one, is its own.
LEMMA ResolveKeeps ==
    ASSUME ReviewInv, NEW h \in Reviewers, Resolve(h)
    PROVE  ReviewInv'
<1> DEFINE n == review[h].approval
           d == review[h].decision
           e == [bundle |-> approvals[n].bundle, expires |-> approvals[n].expires,
                 decision |-> d, decidedAt |-> clock]
           t == [approval |-> n, until |-> clock + RetentionDays]
<1>0. /\ ReviewTypeOK /\ GateTypeOK /\ ReviewersInformed
      /\ approvals \in Seq(Approval) /\ retained \in Seq(Retained)
      /\ clock \in Nat /\ jobState' = Target(d)
      /\ UNCHANGED <<tree, command, checks, process, ready, gate, runs, bundles, clock>>
  BY DEF ReviewInv, ReviewTypeOK, GateTypeOK, Resolve
<1>1. /\ n \in DOMAIN approvals /\ d \in Decision /\ approvals[n] \in Approval
      /\ jobState = "waiting_approval" /\ approvals[n].decision = None
  BY <1>0 DEF ReviewersInformed, Resolve, Resolvable, Snapshot, Undecided
<1>2. Pending = {n} /\ bundles # <<>> /\ approvals[n].bundle = Latest /\ Latest.round = Len(ready)
  BY <1>1 DEF ReviewInv, WaitsForPending, Pending
<1>3. e \in Approval /\ e.bundle = approvals[n].bundle /\ e.decision = d /\ e.decidedAt = clock
  BY <1>0, <1>1 DEF Approval
<1>4. approvals' = [approvals EXCEPT ![n] = e]
  BY DEF Resolve
<1>5. t \in Retained /\ retained' = IF d = "rejected" THEN Append(retained, t) ELSE retained
  BY <1>0, <1>1, ReviewAssumption DEF Retained, Resolve, Retain
<1> HIDE DEF e, d, n
<1>6. /\ approvals' \in Seq(Approval) /\ DOMAIN approvals' = DOMAIN approvals
      /\ approvals'[n] = e
      /\ \A a \in DOMAIN approvals : a # n => approvals'[a] = approvals[a]
  BY <1>0, <1>1, <1>3, <1>4
<1>7. retained = <<>> /\ \A a \in DOMAIN approvals : approvals[a].decision \notin Final
  BY <1>1 DEF ReviewInv, OpenUntilOutcome, Final
<1>8. retained' \in Seq(Retained) /\ retained' = IF d = "rejected" THEN <<t>> ELSE <<>>
  BY <1>0, <1>5, <1>7
<1> HIDE DEF t
<1>9. review' \in [Reviewers -> Review] /\ ReviewersInformed'
  BY <1>0, <1>6, ReviewValues, InformedMoves DEF Resolve, Reply
<1>10. ReviewTypeOK'
  BY <1>0, <1>1, <1>6, <1>8, <1>9, Targets DEF ReviewTypeOK, GateTypeOK
<1>11. UnderReview'
  BY <1>0, <1>1, Targets DEF ReviewInv, UnderReview, Final
<1>12. BundlesOfRounds'
  BY <1>0, <1>1, <1>3, <1>6 DEF ReviewInv, BundlesOfRounds, OfRound
<1>13. OneApprovalEach'
  <2>1. \A a \in DOMAIN approvals : approvals'[a].bundle = approvals[a].bundle
    BY <1>3, <1>6
  <2>2. jobState' # "review_ready"
    BY <1>0, <1>1, Targets
  <2> QED
    BY <1>6, <2>1, <2>2 DEF ReviewInv, OneApprovalEach
<1>14. WaitsForPending'
  <2>1. d # None
    BY <1>1, ReviewAssumption
  <2>2. Pending' = {}
    BY <1>2, <1>3, <1>6, <2>1 DEF Pending
  <2>3. jobState' # "waiting_approval"
    BY <1>0, <1>1, Targets
  <2> QED
    BY <2>2, <2>3 DEF WaitsForPending
<1>15. OpenUntilOutcome'
  <2> SUFFICES ASSUME jobState' \notin Final
               PROVE  /\ \A a \in DOMAIN approvals' : approvals'[a].decision \notin Final
                      /\ retained' = <<>>
    BY DEF OpenUntilOutcome
  <2>1. d \notin Final
    BY <1>0, <1>1, Targets
  <2> QED
    BY <1>3, <1>6, <1>7, <1>8, <2>1 DEF Final
<1>16. OutcomeBindsReview'
  <2> SUFFICES ASSUME jobState' \in Final PROVE OutcomeBindsReview'
    BY DEF OutcomeBindsReview, Final
  <2>1. d \in Final /\ jobState' = d
    BY <1>0, <1>1, Targets
  <2>2. n \in Matches(Latest)' /\ Latest' = Latest
    BY <1>0, <1>1, <1>2, <1>3, <1>6 DEF Matches, Latest
  <2>3. {x \in DOMAIN approvals' : approvals'[x].decision \in Final} = {n}
    BY <1>1, <1>3, <1>6, <1>7, <2>1
  <2>4. retained' = IF jobState' = "approved" THEN <<>>
                    ELSE <<[approval |-> n, until |-> approvals'[n].decidedAt + RetentionDays]>>
    BY <1>3, <1>6, <1>8, <2>1 DEF Final, t
  <2> QED
    BY <1>0, <1>2, <1>3, <1>6, <2>1, <2>2, <2>3, <2>4 DEF OutcomeBindsReview, Final
<1> QED
  BY <1>9, <1>10, <1>11, <1>12, <1>13, <1>14, <1>15, <1>16 DEF ReviewInv

\* A job becomes ready for another round, of which there is no bundle yet.
LEMMA NextRoundKeeps ==
    ASSUME ReviewInv, GateTypeOK', NEW h \in Requests, BecomeReady(h), UNCHANGED reviewVars
    PROVE  ReviewInv'
<1>0. /\ ReviewTypeOK /\ ready \in Seq(Contents) /\ ready' \in Seq(Contents)
      /\ bundles \in Seq(Bundle) /\ approvals \in Seq(Approval)
      /\ ready' = Append(ready, gate[h].diff) /\ jobState' = "review_ready"
      /\ UNCHANGED <<bundles, approvals, retained, clock, review>>
  BY DEF ReviewInv, ReviewTypeOK, GateTypeOK, BecomeReady, reviewVars
<1>1. jobState = "verifying"
  BY ReadyFromVerifying DEF ReviewInv, ReviewTypeOK, GateTypeOK, BecomeReady
<1>2. /\ Len(ready') = Len(ready) + 1 /\ ready' # <<>>
      /\ \A i \in DOMAIN ready : i \in DOMAIN ready' /\ ready'[i] = ready[i]
  BY <1>0
<1>3. ReviewTypeOK'
  BY <1>0 DEF ReviewTypeOK
<1>4. UnderReview' /\ ReviewersInformed'
  BY <1>0, <1>2 DEF ReviewInv, UnderReview, ReviewersInformed
<1>5. BundlesOfRounds'
  BY <1>0, <1>2 DEF ReviewInv, BundlesOfRounds, OfRound
<1>6. OneApprovalEach'
  <2>1. \A a \in DOMAIN approvals : approvals[a].bundle.round \in 1..Len(ready)
    BY <1>0 DEF ReviewInv, BundlesOfRounds, OfRound
  <2> QED
    BY <1>0, <1>2, <2>1 DEF ReviewInv, OneApprovalEach
<1>7. WaitsForPending' /\ OpenUntilOutcome' /\ OutcomeBindsReview'
  BY <1>0, <1>1 DEF ReviewInv, WaitsForPending, Pending, OpenUntilOutcome, Final, OutcomeBindsReview
<1> QED
  BY <1>3, <1>4, <1>5, <1>6, <1>7 DEF ReviewInv

\* A job whose changes were requested goes back to verification.
LEMMA ReworkKeeps ==
    ASSUME ReviewInv, Rework
    PROVE  ReviewInv'
<1>0. /\ jobState = "running" /\ jobState' = "verifying"
      /\ UNCHANGED <<tree, command, checks, process, ready, gate, runs, bundles, approvals,
                     retained, clock, review>>
  BY DEF Rework, reviewVars
<1>1. ReviewTypeOK'
  BY <1>0 DEF ReviewInv, ReviewTypeOK, GateTypeOK, JobState
<1>2. UnderReview' /\ BundlesOfRounds' /\ OneApprovalEach' /\ ReviewersInformed'
  BY <1>0 DEF ReviewInv, UnderReview, BundlesOfRounds, OfRound, OneApprovalEach, ReviewersInformed
<1>3. WaitsForPending' /\ OpenUntilOutcome' /\ OutcomeBindsReview'
  BY <1>0 DEF ReviewInv, WaitsForPending, Pending, OpenUntilOutcome, Final, OutcomeBindsReview
<1> QED
  BY <1>1, <1>2, <1>3 DEF ReviewInv

-----------------------------------------------------------------------------
(* The theorems about the review.                                          *)

\* The review starts in its invariant.
LEMMA ReviewStarts == Init => GateInv /\ ReviewInv
<1> SUFFICES ASSUME Init PROVE GateInv /\ ReviewInv
  OBVIOUS
<1>1. GateInv
  BY GateStarts DEF Init
<1>2. /\ jobState = "verifying" /\ ready = <<>> /\ bundles = <<>> /\ approvals = <<>>
      /\ retained = <<>> /\ clock = 0 /\ review = [h \in Reviewers |-> NoReview]
  BY DEF Init, GateInit
<1>3. ReviewTypeOK
  BY <1>1, <1>2, ReviewValues DEF ReviewTypeOK, GateInv
<1>4. UnderReview /\ BundlesOfRounds /\ OneApprovalEach
  BY <1>2 DEF UnderReview, BundlesOfRounds, OneApprovalEach
<1>5. WaitsForPending /\ OpenUntilOutcome /\ OutcomeBindsReview
  BY <1>2 DEF WaitsForPending, Pending, OpenUntilOutcome, OutcomeBindsReview
<1>6. ReviewersInformed
  BY <1>2, ReviewValues DEF ReviewersInformed
<1> QED
  BY <1>1, <1>3, <1>4, <1>5, <1>6 DEF ReviewInv

\* A transaction of the review may move the job, but leaves the gate alone.
LEMMA ReviewOutsideGate ==
    ASSUME GateInv, ReviewInv, ReviewInv',
           \/ \E h \in Reviewers : ReviewStep(h)
           \/ Rework
    PROVE  GateInv'
<1>1. jobState' \in JobState
  BY DEF ReviewInv, ReviewTypeOK, GateTypeOK
<1>2. ASSUME NEW h \in Reviewers, ReviewStep(h)
      PROVE  UNCHANGED <<tree, command, checks, process, ready, gate, runs>>
  <2>1. ASSUME NEW a \in DOMAIN approvals, NEW d \in Decision, BeginDecide(h, a, d)
        PROVE  UNCHANGED <<tree, command, checks, process, ready, gate, runs>>
    BY <2>1 DEF BeginDecide, gateVars
  <2> QED
    BY <1>2, <2>1 DEF ReviewStep, BeginFreeze, BeginRequest, CollectReview, StoreBundle,
                      StoreRequest, Resolve, Refuse, gateVars
<1>3. CASE Rework
  BY <1>1, <1>3, JobMoves DEF Rework
<1> QED
  BY <1>1, <1>2, <1>3, JobMoves

\* A step of the gate other than the transaction that makes the job ready
\* leaves the job and its rounds alone.
LEMMA GateOutsideReview ==
    ASSUME NEW h \in Requests, GateStep(h)
    PROVE  BecomeReady(h) \/ UNCHANGED <<jobState, ready>>
BY DEF GateStep, BeginVerify, Fingerprint, StartCheck, CommandEnds, FinishCheck, BeginReadiness,
       LoadJob, Collect, Decline

\* The inductive invariant of the review, beside that of the gate: bundles and
\* approvals carry the content of a recorded round, a round has at most one
\* approval, a job waits for exactly the pending one, and until its outcome
\* nothing is retained.
THEOREM ReviewSafe == Spec => [](GateInv /\ ReviewInv)
<1>1. GateInv /\ ReviewInv /\ [Next]_vars => GateInv' /\ ReviewInv'
  <2> SUFFICES ASSUME GateInv, ReviewInv, [Next]_vars PROVE GateInv' /\ ReviewInv'
    OBVIOUS
  <2>0. /\ ReviewTypeOK /\ ReviewersInformed /\ clock \in Nat /\ MaxClock \in Nat
        /\ review \in [Reviewers -> Review]
    BY ReviewAssumption DEF ReviewInv, ReviewTypeOK
  <2>1. ASSUME GateInv', UNCHANGED <<jobState, ready, reviewVars>>
        PROVE  ReviewInv'
    <3>1. GateTypeOK' /\ clock' \in Nat /\ review' \in [Reviewers -> Review]
      BY <2>0, <2>1 DEF GateInv, reviewVars
    <3>2. ReviewersInformed'
      BY <2>0, <2>1, InformedStays DEF reviewVars
    <3> QED
      BY <2>1, <3>1, <3>2, Unaffected DEF reviewVars
  <2>2. ASSUME NEW h \in Requests, GateStep(h), UNCHANGED reviewVars
        PROVE  GateInv' /\ ReviewInv'
    <3>1. GateInv'
      BY <2>2, RequestKeeps
    <3>2. CASE BecomeReady(h)
      BY <2>2, <3>1, <3>2, NextRoundKeeps DEF GateInv
    <3> QED
      BY <2>1, <2>2, <3>1, <3>2, GateOutsideReview
  <2>3. CASE ((\E c \in Contents : Edit(c)) \/ (\E k \in Commands : ProcessExits(k))) /\ UNCHANGED reviewVars
    <3>1. GateInv'
      BY <2>3, SurroundingsKeep
    <3>2. UNCHANGED <<jobState, ready>>
      BY <2>3 DEF Edit, ProcessExits
    <3> QED
      BY <2>1, <2>3, <3>1, <3>2
  <2>4. ASSUME NEW h \in Reviewers, ReviewStep(h) PROVE GateInv' /\ ReviewInv'
    <3>1. ReviewInv'
      BY <2>4, ReadingKeeps, StoreBundleKeeps, StoreRequestKeeps, ResolveKeeps DEF ReviewStep
    <3> QED
      BY <2>4, <3>1, ReviewOutsideGate
  <2>5. ASSUME NEW k \in Commands, RestartReview(k) PROVE GateInv' /\ ReviewInv'
    <3>1. GateInv'
      BY <2>5, SurroundingsKeep DEF RestartReview
    <3>2. /\ UNCHANGED <<jobState, ready, bundles, approvals, retained, clock>>
          /\ review' = [h \in Reviewers |-> NoReview]
      BY <2>5 DEF RestartReview, RestartGate
    <3>3. review' \in [Reviewers -> Review] /\ ReviewersInformed'
      BY <3>2, ReviewValues DEF ReviewersInformed
    <3> QED
      BY <2>0, <3>1, <3>2, <3>3, Unaffected DEF GateInv
  <2>6. CASE Tick
    <3>1. clock' \in Nat
      BY <2>0, <2>6 DEF Tick
    <3>2. GateInv'
      BY <2>6, JobMoves DEF Tick, gateVars, GateInv, GateTypeOK
    <3>3. review' \in [Reviewers -> Review] /\ ReviewersInformed'
      BY <2>0, <2>6, InformedStays DEF Tick
    <3> QED
      BY <2>6, <3>1, <3>2, <3>3, Unaffected DEF Tick, gateVars, GateInv
  <2>7. CASE Rework
    BY <2>7, ReworkKeeps, ReviewOutsideGate
  <2>8. CASE UNCHANGED vars
    <3>1. GateInv'
      BY <2>8, JobMoves DEF vars, gateVars, GateInv, GateTypeOK
    <3> QED
      BY <2>1, <2>8, <3>1 DEF vars, gateVars
  <2> QED
    BY <2>2, <2>3, <2>4, <2>5, <2>6, <2>7, <2>8, Zenon DEF Next
<1> QED
  BY <1>1, ReviewStarts, PTL DEF Spec

\* A restart at any point finds nothing wrong but an approval that expired.
LEMMA RecoveryFindsNothing == ReviewInv => RecoveryIssue \in {"none", "approval_expired"}
<1> SUFFICES ASSUME ReviewInv PROVE RecoveryIssue \in {"none", "approval_expired"}
  OBVIOUS
<1>1. CASE jobState # "waiting_approval"
  <2>1. Pending = {}
    BY <1>1 DEF ReviewInv, WaitsForPending
  <2> QED
    BY <1>1, <2>1 DEF RecoveryIssue
<1>2. CASE jobState = "waiting_approval"
  <2>1. PICK a \in DOMAIN approvals : Pending = {a}
    BY <1>2 DEF ReviewInv, WaitsForPending
  <2>2. Pending # {} /\ ~(Cardinality(Pending) > 1)
    <3>1. Cardinality({a}) = 1
      BY FS_Singleton
    <3> QED
      BY <2>1, <3>1
  <2>3. CASE \E x \in Pending : Pending = {x} /\ approvals[x].expires <= clock
    BY <1>2, <2>2, <2>3, Zenon DEF RecoveryIssue
  <2>4. CASE ~\E x \in Pending : Pending = {x} /\ approvals[x].expires <= clock
    BY <1>2, <2>2, <2>4, Zenon DEF RecoveryIssue
  <2> QED
    BY <2>3, <2>4
<1> QED
  BY <1>1, <1>2

\* A job waits for approval exactly while one approval of its latest bundle is
\* pending, and no bundle has two approvals.
THEOREM NeverInconsistent == Spec => []ReviewConsistent
<1>1. ReviewInv => ReviewConsistent
  <2> SUFFICES ASSUME ReviewInv PROVE ReviewConsistent
    OBVIOUS
  <2>1. Cardinality(Matches(Latest)) <= 1
    <3>1. \A a, o \in Matches(Latest) : a = o
      BY DEF ReviewInv, OneApprovalEach, Matches
    <3>2. CASE Matches(Latest) = {}
      BY <3>2, FS_EmptySet
    <3>3. ASSUME NEW a \in Matches(Latest) PROVE Cardinality(Matches(Latest)) <= 1
      <4>1. Matches(Latest) = {a}
        BY <3>1, <3>3
      <4>2. Cardinality({a}) = 1
        BY FS_Singleton
      <4> QED
        BY <4>1, <4>2
    <3> QED
      BY <3>2, <3>3
  <2>2. Pending # {} => Pending = Matches(Latest) /\ Len(ready) = Latest.round
    <3> SUFFICES ASSUME Pending # {} PROVE Pending = Matches(Latest) /\ Len(ready) = Latest.round
      OBVIOUS
    <3>1. PICK a \in DOMAIN approvals : Pending = {a} /\ approvals[a].bundle = Latest
      BY DEF ReviewInv, WaitsForPending
    <3>2. Matches(Latest) = {a}
      BY <3>1 DEF ReviewInv, OneApprovalEach, Matches
    <3> QED
      BY <3>1, <3>2 DEF ReviewInv, WaitsForPending
  <2> QED
    BY <2>1, <2>2, RecoveryFindsNothing DEF ReviewConsistent
<1> QED
  BY <1>1, ReviewSafe, PTL

\* What an approval binds was verified by a trusted command and passed the
\* scanner, in the round the approval names.
THEOREM ApprovedVerified == Spec => []ApprovedWasVerified
<1>1. GateInv /\ ReviewInv => ApprovedWasVerified
  BY DEF GateInv, ReadyIsVerified, ReviewInv, BundlesOfRounds, OfRound, ApprovedWasVerified
<1> QED
  BY <1>1, ReviewSafe, PTL

\* A job is approved or rejected by exactly one approval, that of the latest
\* bundle of the latest round, and a rejection has its one retention record.
THEOREM OutcomeBound == Spec => []OutcomeBindsReview
<1>1. ReviewInv => OutcomeBindsReview
  BY DEF ReviewInv
<1> QED
  BY <1>1, ReviewSafe, PTL

\* Rounds, bundles, decided approvals and retention records are never changed
\* or removed.
THEOREM FrozenHistory == Spec => HistoryFrozen
<1> DEFINE Kept ==
       /\ \A i \in DOMAIN ready : i \in DOMAIN ready' /\ ready'[i] = ready[i]
       /\ \A i \in DOMAIN bundles : i \in DOMAIN bundles' /\ bundles'[i] = bundles[i]
       /\ \A i \in DOMAIN approvals :
              /\ i \in DOMAIN approvals'
              /\ approvals[i].decision # None => approvals'[i] = approvals[i]
       /\ \A i \in DOMAIN retained : i \in DOMAIN retained' /\ retained'[i] = retained[i]
<1>1. ReviewInv /\ [Next]_vars => [Kept]_vars
  <2> SUFFICES ASSUME ReviewInv, Next PROVE Kept
    OBVIOUS
  <2>0. /\ ready \in Seq(Contents) /\ bundles \in Seq(Bundle)
        /\ approvals \in Seq(Approval) /\ retained \in Seq(Retained)
    BY DEF ReviewInv, ReviewTypeOK, GateTypeOK
  <2>1. CASE UNCHANGED <<ready, bundles, approvals, retained>>
    BY <2>1
  <2>2. ASSUME NEW h \in Requests, BecomeReady(h), UNCHANGED reviewVars PROVE Kept
    BY <2>0, <2>2 DEF BecomeReady, reviewVars
  <2>3. ASSUME NEW h \in Reviewers, StoreBundle(h) PROVE Kept
    BY <2>0, <2>3 DEF StoreBundle, Frozen, gateVars
  <2>4. ASSUME NEW h \in Reviewers, StoreRequest(h) PROVE Kept
    BY <2>0, <2>4 DEF StoreRequest
  <2>5. ASSUME NEW h \in Reviewers, Resolve(h) PROVE Kept
    <3>1. PICK e, a : approvals' = [approvals EXCEPT ![a] = e] /\ approvals[a].decision = None
      BY <2>5 DEF Resolve, Undecided
    <3>2. PICK t \in Retained : retained' = retained \/ retained' = Append(retained, t)
      <4>1. review[h].approval \in Nat /\ clock + RetentionDays \in Nat
        BY ReviewAssumption DEF ReviewInv, ReviewTypeOK, Review
      <4> QED
        BY <2>5, <4>1 DEF Resolve, Retain, Retained
    <3>3. UNCHANGED <<ready, bundles>>
      BY <2>5 DEF Resolve
    <3>4. \A i \in DOMAIN approvals :
              i \in DOMAIN approvals' /\ (approvals[i].decision # None => approvals'[i] = approvals[i])
      BY <3>1
    <3>5. \A i \in DOMAIN retained : i \in DOMAIN retained' /\ retained'[i] = retained[i]
      <4>1. CASE retained' = retained
        BY <4>1
      <4>2. CASE retained' = Append(retained, t)
        BY <2>0, <4>2
      <4> QED
        BY <3>2, <4>1, <4>2
    <3> QED
      BY <3>3, <3>4, <3>5
  <2>6. ASSUME NEW h \in Requests, GateStep(h), UNCHANGED reviewVars PROVE Kept
    BY <2>1, <2>2, <2>6, GateOutsideReview DEF reviewVars
  <2>7. ASSUME NEW h \in Reviewers, ReviewStep(h) PROVE Kept
    <3>1. ASSUME NEW a \in DOMAIN approvals, NEW d \in Decision, BeginDecide(h, a, d)
          PROVE  UNCHANGED <<ready, bundles, approvals, retained>>
      BY <3>1 DEF BeginDecide, gateVars
    <3>2. CASE BeginFreeze(h) \/ BeginRequest(h) \/ CollectReview(h) \/ Refuse(h)
      BY <2>1, <3>2 DEF BeginFreeze, BeginRequest, CollectReview, Refuse, gateVars
    <3> QED
      BY <2>1, <2>3, <2>4, <2>5, <2>7, <3>1, <3>2, Zenon DEF ReviewStep
  <2>8. ASSUME \/ (\E c \in Contents : Edit(c)) /\ UNCHANGED reviewVars
               \/ (\E k \in Commands : ProcessExits(k)) /\ UNCHANGED reviewVars
               \/ \E k \in Commands : RestartReview(k)
               \/ Tick
               \/ Rework
        PROVE  UNCHANGED <<ready, bundles, approvals, retained>>
    BY <2>8 DEF Edit, ProcessExits, RestartReview, RestartGate, Tick, Rework, gateVars, reviewVars
  <2> QED
    BY <2>1, <2>6, <2>7, <2>8, Zenon DEF Next
<1> QED
  BY <1>1, ReviewSafe, PTL DEF Spec, HistoryFrozen

=============================================================================
