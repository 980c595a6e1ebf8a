# A verification project for Local Agent Workbench

Local Agent Workbench is a local backend (FastAPI, one asyncio event loop, one
SQLite database) that runs coding agents in isolated Git worktrees and moves
their changes through verification, review, approval and promotion. This
directory holds TLA+ models of the parts of it that can go wrong in ways a unit
test hardly reaches, TLC configurations that check them on small instances, and
proofs, checked by TLAPS, of the most important properties for instances of any
size. Paths below are relative to `src/local_agent_workbench/` of the
repository.

To repeat a check: `tlc -workers 2 -config MCPromotion.cfg MCPromotion`. To
repeat a proof: `tlapm PromotionProofs.tla`. `PROJECT.json` lists every run,
every theorem, the lines each definition models, the hazards the properties are
aimed at and, for each property, one mutation of the code that it detects.

## 1. Inventory

### Components, their state and their operations

| Component | State | Operations | Module |
| --- | --- | --- | --- |
| Job lifecycle (`engine.py`) | `jobs.state` | `validate_job_transition` | `JobLifecycle` |
| Native lane (`native_store.py`, `native_execution.py`, `team_store.py`, `codex_adapter.py`) | `native_attempts`, `project_teams`, native events; supervisor tasks, turns; process groups | start, claim, bind, append, cancel, finish, quarantine, close, restart; team edits; spawn, stop | `NativeLane` |
| Trusted verification (`task_workflow.py`, `verification.py`) | `workflow.check` events, the process of the command | verify, require_verified | `VerifyGate` |
| Secret gate (`secret_gate.py`) | `job.review_ready` events | evaluate | `VerifyGate` |
| Review bundle (`review_bundle.py`) | `review_bundles` | create | `ReviewFlow` |
| Approval workflow (`approval_service.py`, `db.py`) | `approvals`, decision and retention events | request, decide | `ReviewFlow` |
| Local promotion (`promotion.py`, `promotion_target.py`) | the checkout, the project lock, `promotion.*` events | promote | `Promotion` |
| Retention (`retention.py`, `worktree.py`) | rejected worktrees, `cleanup.*` events | cleanup | `RetainedTree` |
| Status reader (`telegram_gateway.py`, `remote_commands.py`) | `remote_receipts`, the polling offset | poll, receive, complete, claim, send, finish, recover | `StatusReader`, `ReplyContract` |
| Event ledger and stream (`db.py`, `event_stream.py`, `workspace_ui/workspace.js`) | `events`, the cursors of server, browser and page | append, subscribe, query, send, show, reconnect | `EventStream` |
| Worktree creation (`worktree.py`) | linked worktrees, `jobs.worktree_path` | create, recover, bind, roll back | `WorktreeCreate` |
| Phone control (`phone_control.py`, `phone_store.py`, `phone_policy.py`) | receipts, one-time actions | prompts, tasks, cancellations, decisions | `PhoneControl` |
| Phone outbox and gateway (`phone_store.py`, `phone_notifications.py`, `phone_gateway.py`) | `phone_outbox`, the notification cursor | queue, project, claim, send, acknowledge, recover | `PhoneOutbox`, `ReplyContract` |
| Planning (`planning.py`, `db.py`) | `jobs.state`, the events of planning | run | `JobStart` |
| Submission (`job_submission.py`) | jobs with their snapshot | submit, prepare, confirm | the phone's in `PhoneControl` |
| Diff collection, write boundary (`diff_service.py`, `write_boundary.py`) | the worktree's files, the collection in progress | collect, authorize, verify stable | `DiffCollect` |
| Backup and migrations (`db.py`) | the schema and rows, the destination file | initialize, backup | `Store` |
| Model library (`model_library.py`, `team_config.py`) | `config.json`, its lock | read, add a source or model | `ModelLibrary` |
| Start and stop of the programs (`app.py`) | the programs of a runtime home | load, initialize, serve, stop | `RuntimeHome` |
| Recovery (`db.py`) | none: a classification of unfinished jobs | classify | predicates of `ReviewFlow`, `JobStart` |
| Provider event parsing, logging, user interface | none of their own, or text | | not modelled (section 8) |

### How they interact

There are no messages between components inside the backend: they call each
other in one process and share the database. Every repository operation is one
`BEGIN IMMEDIATE` transaction, and a service awaits Git, the file system or a
subprocess between transactions. The phone gateway is the exception: a process
of its own that asks the backend by HTTP and gives a request up after 30
seconds, whether or not the backend still carries it out. Three kinds of actor live outside the event
loop: other processes the backend started (the Codex CLI, the verification
command, `git apply`, `git worktree remove`), which survive it; a second
backend, which only lock files keep apart; and people, who write worktrees and
checkouts at any time.

`NativeLane` ends a job in `verifying`. `VerifyGate` starts there and ends in
`review_ready`. `ReviewFlow` EXTENDS `VerifyGate`, so that the review runs
against a gate that can be entered again, and ends in `approved` or `rejected`.
`Promotion` starts from approved jobs and `RetainedTree` from a rejected one;
`RetainedTree` EXTENDS `DiffCollect`, whose collections are its checks of the
live review.
All of them use the states of `JobLifecycle`. `JobStart` EXTENDS
`WorktreeCreate`: planning takes a job to `queued`, then it is given the
directory the native lane later runs in, and it is claimed. `PhoneControl` reaches submission, the
lane's cancellation and the review's decision from the phone, and `PhoneOutbox`
carries its answers, the parts of a review and the notices of a job's progress.
`RuntimeHome` composes `Store` and `ModelLibrary`: a backend reads `config.json`
before it initialises the database, serves the settings pages while it runs, and
takes their requests with it when it ends.

### What is hard here

* An await between a test and the transaction that relies on it: two starts,
  two checks, two bundles, two decisions, each of which passed its tests.
* A worktree or a checkout that changes while it is inspected, verified,
  scanned, compared, promoted or removed.
* A backend that dies between the durable intent of an effect and the record of
  its outcome, while the process that has the effect goes on.
* A stop that cannot be confirmed, an acknowledgement that is lost.
* An edit that withdraws authority and a later one that restores it.
* An update that Telegram hands out again while its first copy is handled, and a
  request to the backend that outlives the gateway that made it.
* A directory, a branch or a half-made worktree that a dead backend left behind.
* A deadline that passes, or a clock that is set back, between two steps.
* A diff that is put together from many git commands and file reads while the
  files change.
* Programs of several releases that start together on one database, and a copy
  of it that is made while one of them migrates or writes.
* A planning request that writes the whole job as it read it, after another
  backend went on with the job.
* A configuration that two settings pages and a person change at once.

`PROJECT.json` lists each of these at its line, with the properties that would
catch it going wrong. One behaviour that looks like a hazard is by design: an
approval that expires undecided leaves its job in `waiting_approval`, since
"conflicting retries and expired approvals fail closed" (repository README, line
265) and nothing renews one.

## 2. Conventions of the models

A handler is split into actions exactly at its awaits; what lies between two
awaits, all its database statements included, is one action. A guard is the
conjunction of the tests the code makes since the last await, inside the
transaction and before it. A crash forgets the variables of the memory and keeps
the durable ones and the operating-system processes. An exception that ends a
request without a durable effect is one action (`Refuse`, `Decline`), enabled
wherever the code can raise, because Git, the file system and the database may
fail at any await.

Data is abstracted to what the properties tell apart: a worktree is its diff, a
checkout is the change it holds relative to the base commit, a hash or a token is the value
it is computed from (collisions are excluded). Variables marked *history* exist
for properties only; no guard reads them.

An operator whose comment starts with "Fault" is a plausible defect of the
definition that follows it. No specification uses it: it stands in the module so
that each property can be shown to detect something.

## 3. Modules and their correspondence with the code

**`JobLifecycle`** - the job states and `AllowedTransitions`. The other modules
name these states in their type invariants.

**`NativeLane`** - `attempt` is the row of `native_attempts`, `team` that of
`project_teams`, `ledger` the native events of a job. `handler` is a `start`
that awaits `verify_bound`. `task` is where `_run` and `_consume` of a job
stand: `Advance`, `Stream`, `Complete` and `Poll` follow the awaits of
`_consume` and the 50 ms poll around it; `Settle`, `StopEscapes` and `LeaveHeld`
are the `finally` clause, including the paths on which neither `finish` nor
`quarantine` runs. `turn` is the adapter's record of a turn and `group` the
kernel's view of its process group, which may have lost its leader and still
write. `Close` and `Exit` are the lifespan's shutdown, `Crash` the loss of the
process and `Restart` a new owner identity.

**`VerifyGate`** - `checks` are the `workflow.check` events by command, since
the hash of an authorization changes with the configured command. A request
goes `BeginVerify`, `Fingerprint`, `StartCheck`, the command, `FinishCheck`, or
`BeginReadiness`, `LoadJob`, `Collect`, `BecomeReady`. `process` holds the
commands whose process is alive: it may outlive the backend.

**`ReviewFlow`** - `bundles`, `approvals` and `retained` are the rows and events
of a review. The transactions compare what a request read before its await with
what is stored: `Matching`, `Snapshot`, `Resolvable`, `Undecided` are these
comparisons. `Rework` sends a job whose changes were requested back to
verification by the repository operation the tests use; no HTTP route does so.
`RecoveryIssue` is what `RecoveryService` would say of the approvals if a backend
started now.

**`Promotion`** - a request walks through the places of `Ahead` (the lock, two
live checks around the capture of the approved files, three inspections of the
checkout) and, with the intent recorded, those of `Begun`. `UseTarget` is the
operator, `Die` the loss of the backend; a `git apply` it had started becomes an
orphan that ends later, in any of the ways `git apply` can. `disturbed` is a
history: a job's worktree was written between the two live checks of its last
attempt; the first live check of a new attempt clears it.

**`DiffCollect`** - `scan` is where `ReadOnlyDiffService.collect` stands: the
status, the two inventories, then path after path `InspectPath`, `ReadFile`,
`Classify` (`--numstat`) and `Patch`, and in the end `_verify_stable`
(`Reverify` ... `FinishScan`). Each is what happens between two git processes.
A file is its data and a stamp for the device, inode, size and modification time
that `_path_state` keeps; every write is assumed to renew it, although `ctime` is
not part of it. A git process sees one state of the files it asks for. `root` is
the directory's device and inode, which the boundary compares. `held` is a history of what the
worktree held during the verification.

**`RetainedTree`** - the same shape as `Promotion`, for removal. A request goes
`BeginCleanup`, `Inspect`, the steps of a collection (`Collect`), `CheckLive`,
`RecordIntent`, and then `Inventory`, `Snapshot`, a second collection,
`CheckAgain` and `StartRemoval`. An orphaned or failing `git worktree remove`
may leave everything, some files or nothing. The stamp also stands for the inode
times of the disposal snapshot.

**`Store`** - `db` is the committed database as its version, how often each
migration was applied and a count of rows. `Begin`, `Migrate` and `Stop` are
`Database.initialize`; `WriteRow` stands for any transaction of a repository.
`backup` is where a backup command stands in `BackupService.create`: it checks
its destination and the source, copies page by page (`CopyPages` starts again
when the source was written), verifies the copy, and publishes it by `os.link`.
`EndBackup` is every error and the normal end; the temporary file that a crash
leaves is not modelled. SQLite is external: a commit is atomic, one connection
holds `BEGIN IMMEDIATE`, and an online copy is of one state.

**`ModelLibrary`** - `file` is `config.json`, whose revision is a hash and so
stands for its content; `adder` is a settings page with its request: `Submit`
takes the lock without waiting, `WriteTemporary` loads and validates,
`Recheck` compares again, `Replace` is `os.replace`. `Edit` is a person with an
editor. `due` is the history of what edits and additions make of the file.
Whether a running backend uses the new configuration (`restart_required`) is
left out: the library only reports it.

**`RuntimeHome`** - the composition: `Load` reads the configuration and fails on
a broken one, `StopProgram` ends a program and the requests it serves, `Serve`
is a request of a page to its running backend.

**`StatusReader`** - `phase` is `remote_receipts.phase`; `at` is where the
process is in `_durable_update`; `queue` is what Telegram would return again.
Its specification is `ReaderSpec` over `readerVars`, so that one module can
extend it beside `RuntimeHome`.

**`JobStart`** - `plan` counts the events of each stage of planning, which have
one idempotency key each; `planner` is where a `POST /plan` stands. In one
backend the handler runs without an await, but another backend may act between
its loads (`LoadPlanned`, `FindStart`) and its transaction (`AdvanceJob`), which
writes the job as it was loaded, without a worktree. `Admits` is what
`AtomicTransitionService.transition` asks by then.

**`WorktreeCreate`** - the directory and the branch under a job's names, the
requests that make or adopt them and the git processes they start. A request
goes `BeginCreate`, `LookAtTarget`, `LookAtBranch` and then either adopts what
it found (`VerifyLeftover`, `SeeStatus`, `SeeCheckout`, `Bind`) or makes it
(`AddBegins` ... `AddEnds`, `VerifyNew`, `CompareCheckout`, `Bind`), with
`RemoveTree` and `DeleteBranch` as its rollback. `Die` loses the backend and the
lock with it; the git process it waited for becomes an orphan that still makes,
completes or removes the directory (`OrphanAdds`, `OrphanEnds`). One backend at a
time creates worktrees: the lock of a job lives in the memory of its backend.

**`PhoneControl`** - an update is a message or a press of a button; a handler of
it stands at one of the awaits of `PhoneControl.process`, and the same update
may have two handlers. `action` is the table `phone_actions`: `Begin` is the
transaction that records a choice and `Finish` the one that records its outcome
and queues the answer; between them lies the effect, a task, a cancellation or a
decision (`Confirm`, `Affect`, `Resolve`), which commits by itself. `Spent` and
`Happened` are the tests that keep a retried update from repeating it.

**`PhoneOutbox`** - a row of `phone_outbox` is a reply, a part of a review or a
notice; `phase` and `id` are its columns. `request` holds the calls of the
backend, which their gateway may have given up, and `flight` the messages that
Telegram may still carry out. `Delivery` is
the whole of `PhoneStore.delivery` (the row it drops on the way included),
`Connect`, `Ack` and `Nack` the other routes, `Project` one call of
`PhoneNotifications.project` with its cursor.

**`EventStream`** - `events` is the table that all jobs share; `source` holds
the cursor of the server's generator (a sequence), that of the browser's
EventSource (an id) and where the request stands; `page` is what the workspace
page shows and `state.lastEvent`. `Break` loses the connection with what is on
the wire and the browser resumes by id; after an error frame `ConnectStream`
begins again from the start over what is already shown. `RefuseSubscription` is
the 503 of a subscription during a storage failure: the EventSource is dead from
then on, `state.stream` still holds it, and only `Select` leaves that state.

**`ReplyContract`** - what either journal promises for a row or an update,
without mentioning pollers, gateways or claims: it is attempted at most once,
arrives only if attempted, is recorded as delivered only if it arrived, and is
never taken up again once closed. Several rows may move in one step, since
`recover` and `project` move several, and a message may still arrive after its
row was declared uncertain. `StatusReader` implements it under the mapping
`RecordOf` of its phases and `PhoneOutbox` under one of the same name.

## 4. Runs

| Run | Instance | States | What it shows |
| --- | --- | --- | --- |
| `native_lane` | 2 jobs, 2 starts, 3 team revisions, 2 backends, 1 provider event | 2.0 million | one writer, which holds the lane; cancellation and revocation decide the outcome; no second launch; a closed history |
| `native_lane_live` | 1 job, 1 start | | a cancelled attempt's supervisor ends |
| `verify_gate` | 4 contents (one with a secret, one empty), 2 commands, 3 requests | 27 thousand | only verified and scanned content becomes ready; no command runs twice or beside another |
| `review_flow` | 2 contents, 2 commands, 1 gate request, 2 reviewers, 2 rounds, 3 clock values | 1.4 million | decisions bind to the frozen, verified round, in time and once |
| `promotion` | 2 jobs, 2 contents, 2 requests | 110 thousand | one `git apply` per job, recorded before it, completed only over the approved content |
| `retained_tree` | a tracked and an untracked file, 2 identities, 2 requests, 3 writes, 2 clock values | 505 thousand | a collected diff is of one state; one removal, of what was reviewed |
| `status_reader` | 3 updates (2 commands), 2 scopes, 3 clock values | 398 thousand | at most one reply, no update lost, no stale reply, and refinement of `ReplyContract` |
| `job_start` | 1 job, 2 planning requests, 2 worktree requests, 3 `git worktree add` | 808 thousand | a plan is recorded once and a stale request undoes nothing; only whole directories are bound; a rollback removes only what its request made |
| `phone_control` | 4 updates, 2 handlers, 3 tokens, 1 approval, 1 attempt, 2 clock values | 2.4 million | one task, decision or cancellation, the chosen one, in time; what the phone reports is what happened |
| `phone_outbox` | 1 review of 2 parts, 2 versions of a job, 2 request slots | 539 thousand | no row is sent twice, parts go in order, the latest labelled state has its notice; refinement of `ReplyContract` |
| `event_stream` | 2 jobs, 4 events, batches of 2 | 27 thousand | the page shows a job's events without a gap or a duplicate, and catches up |
| `runtime_home` | programs of 2 releases, 1 backup command, 2 settings pages, 2 sources and a model | 2.3 million | the schema is whole, backups are sound, no edit of the library is lost |

### Bounds, and why they are enough

* `Tries` (5) is the number in the code.
* Two jobs, requests, reviewers or updates suffice for a race; a third request
  in `verify_gate` lets two verifications race with a readiness request.
* Two backends or configured commands suffice for what a predecessor left
  behind; three team revisions for an edit that withdraws a profile and one that
  restores it.
* Two rounds in `review_flow` are needed for a stale bundle to meet a new round.
  Its instance has no content with a secret, which would not fit in five minutes
  beside two clean ones: the scanner is exercised by `verify_gate`, and in
  `ApprovedWasVerified` by the theorem only.
* `MaxClock` lies beyond every deadline of its instance.
* `MaxStamp` (3 in `retained_tree`) allows a write before, between and after the
  inspections, or one that is undone and a third. One tracked and one untracked
  file are the two that one git command does not see together; `MaxPatches` (1)
  lets the second patch be omitted.
* `Top` (2) gives a database that is empty, of the older and of the newer
  release; the backup command is of the older one, so that the newer program
  can migrate the database under it. `MaxRows` (1) is a write before or during a
  copy. `HandMade` has a broken file and an empty one of each version: a missing
  file reads like one of version one.
* `MaxEvents` (1) bounds provider events before the completion, `MaxRounds` the
  readiness events.
* `MaxMade` (3) lets a third `git worktree add` meet what a failed one and an
  orphan left. `MaxTokens` leaves a token for every prompt and button the updates
  can ask for. Four updates make a prompt, its answer, a choice and a second or
  contrary one; a decision or a cancellation has no prompt and needs three.
  `MaxOpens` (1) bounds the updates that open a prompt or offer buttons: the
  others answer or press.
* `Slots` (2) is how many requests are open at the backend at once: the
  gateway's own and one given up by its predecessor. The proofs hold for any
  number. `MaxVersion`
  (2) is a state without a label followed by one that has a label.
* `MaxEvents` (4 in `event_stream`) with two jobs lets ids and sequences differ
  and a job have more events than one batch.
* Symmetry permutes values no operator tells apart (jobs of one project with one
  profile, requests, settings pages, contents that are alike). The liveness run uses none.
* Deadlock is checked except in `NativeLane` and `PhoneControl`, whose systems may
  really stop: all attempts settled and the bound on backends reached; the owner
  sends nothing more.

### Fairness

`FairSpec` of `NativeLane` assumes weak fairness of each job's consumption and
finalisation, and nothing of its turn. They are parts of tasks of one asyncio loop that is never blocked
for long (Git, SQLite's writer and processes have timeouts), and `_run` polls
every 50 ms whatever the provider does. Nothing is assumed of requests,
operators, crashes or restarts. `CancelEndsSupervision` therefore says that the
supervisor ends, not that the attempt settles: a stop that cannot be confirmed
leaves it held, as the code does.

`FairSpec` of `EventStream` assumes weak fairness of the generator (which polls
every 100 ms), of the answer to a subscription that is not refused and of the
page's listeners. Nothing is assumed of writers, of the operator or of the
storage. `StreamCatchesUp` names what it excuses: a connection that breaks for
ever, another task selected, a stream closed by a storage failure, and a refused
subscription (`Refused`).

## 5. Properties

* `SingleWriter`, `WriterHoldsLane`, `LaunchedOnce`: "Concurrent or duplicate
  starts observe that attempt rather than launching again", "It confirms local
  process group termination before releasing the writer lane", "Restart does not
  replay it" (repository README, lines 84-90).
* `CancelWins`, `RevocationSticks`, `SettledIsLast`, `CancelEndsSupervision`: a
  cancellation or a withdrawal that is on record is never overtaken by a
  completion that arrives later.
* `ReadyIsVerified`, `CheckedOnce`, `PassedMeansUnmoved`:
  "Duplicate or uncertain requests do not run that command again", "any earlier
  unfinished check blocks another command" and the binding of evidence to the
  content before and after execution and to the scan (lines 92-100).
* `ReviewConsistent`, `ApprovedWasVerified`, `OutcomeBindsReview`,
  `HistoryFrozen`: recovery finds a coherent review, what was decided is what was shown, what was
  shown was verified, and nothing of it changes afterwards (lines 259-265).
* `AppliedOnce`, `CompletedIsApproved`, `InterruptedStays`:
  promotion (line 291). What is done to the checkout before or during `git apply`
  is not excused: it leaves a mixture, and the comparison refuses it. Only a
  worktree that changes and changes back between the two live checks is.
* `RemovedOnce`, `DestroyedWasReviewed`, `UncertainStays`: "An interrupted
  operation reports `needs_attention` and cannot repeat deletion" (lines
  295-299).
* `StableDiff`: a diff that is returned is of one state of the files it lists,
  and misses no change that was there throughout its verification: "It verifies
  `HEAD`, Git configuration, changed file inventory and file identity again
  before returning a result" (line 257).
* `NoUpdateLost`, `StaleReplyStays`, `KeepsContract`: "It
  records disposition before advancing the polling cursor", "A durable send
  claim permits at most one automatic attempt" (lines 173-175).
* `PlannedOnce`: a plan is durable and recorded once, and "returns the same plan
  block after a restart" (line 102); no planning request takes a worktree away.
* `BoundWasWhole`, `RollbackRemovesOwn`: "Retrying after a restart rebinds a
  complete, verified and unchanged worktree" (line 104), and a failure never
  destroys a directory that another request or backend made.
* `PromptUsedOnce`, `EffectOnce`, `EffectWasChosen`, `EffectInTime`,
  `OutcomeIsTrue`: "Each prompt accepts one request, and
  confirmation expires after two minutes", "restarting does not allocate a
  replacement task or extend an approval" (lines 203-209).
* `PartsInOrder`, `LatestNoticed`, `KeepsContract` of the outbox: "All
  review parts must be delivered before a decision can be accepted", "prevent
  automatic resend after an uncertain outcome, favoring missed messages over
  duplicates" (lines 203-209).
* `StreamIsPrefix`, `StreamCatchesUp`: "the server resumes after the matching job
  event without a gap or duplicate" (line 269). A refused subscription is an
  excuse of the second that the operator does not see as one: the page then shows
  "Reconnecting to ledger…" (`workspace.js`, line 677) although the browser will
  not reconnect, until another task is selected.
* `SchemaWhole`: every migration up to the version is applied exactly once, and a
  program that runs has the schema it needs.
* `BackupIsSound`: "Existing files are never replaced" (line 285), and a backup
  is a verified copy of its release's schema with the rows it must have.
* `EditsKept`: additions to the library and edits by hand follow one another.

Each module defines a type invariant, `TypeOK` or one that bears the component's
name. It is part of every proof; the runs check what the modules are for.

Five properties carry an exception that the code cannot avoid, and say so.
`CompletedIsApproved` excludes a worktree that changes and changes back exactly
while its files are captured. `DestroyedWasReviewed` excludes a write between
Git's listing of ignored files and the snapshot, and one while Git removes the
tree; the repository's README asks the operator not to edit it then (line 297).
`BoundWasWhole` excludes a change after the last look at the directory, which is
separated from the binding by the comparison of the checkout. `StableDiff` does
not look at the patch of a deleted path, which may have been back for the moment
git read it and leaves no state to compare, and speaks of each unlisted path by
itself. `EditsKept` excludes an edit by hand between a request's last comparison
and its rename, which the lock of the library does not reach.

## 6. Proofs

The proofs establish, for every value of the constants, the type invariants, the
inductive invariants, and the properties that follow from them:

| Module | Proves about | Properties |
| --- | --- | --- |
| `NativeLaneProofs` | `NativeLane` | `SingleWriter`, `WriterHoldsLane`, `CancelWins`, `RevocationSticks`, `LaunchedOnce`, `SettledIsLast` |
| `ReviewProofs` | `VerifyGate`, `ReviewFlow` | `ReadyIsVerified`, `CheckedOnce`, `PassedMeansUnmoved`; `ReviewConsistent`, `ApprovedWasVerified`, `OutcomeBindsReview`, `HistoryFrozen` |
| `PromotionProofs` | `Promotion` | `AppliedOnce`, `CompletedIsApproved`, `InterruptedStays` |
| `RetainedTreeProofs` | `DiffCollect`, `RetainedTree` | `StableDiff`; `RemovedOnce`, `DestroyedWasReviewed`, `UncertainStays` |
| `JobStartProofs` | `WorktreeCreate`, `JobStart` | `BoundWasWhole`, `RollbackRemovesOwn`; `PlannedOnce` |
| `PhoneControlProofs` | `PhoneControl` | `PromptUsedOnce`, `EffectOnce`, `EffectWasChosen`, `EffectInTime`, `OutcomeIsTrue` |
| `DeliveryProofs` | `PhoneOutbox`, `EventStream` | `PartsInOrder`, `LatestNoticed`, `KeepsContract`; `StreamIsPrefix` |
| `DurableProofs` | `RuntimeHome` (`Store`, `ModelLibrary`), `StatusReader` | `SchemaWhole`, `BackupIsSound`, `EditsKept`; `NoUpdateLost`, `StaleReplyStays`, `KeepsContract` |

**Assumptions.** The theorems rest on the named assumptions of the modules and
on nothing else, and TLC evaluates these in the runs. Most say that a constant
has the right type, or that a value which stands for the absence of something
("no job", "none", `Gone`, the clean or the foreign checkout) is none of the
things themselves. Five say more, because the program does: `OutboxAssumption`,
that reviews and replies are finitely many (a row is numbered after those that
are in the table) and that a notice is neither; `DiffAssumption`, that a path is
untracked exactly if the base commit does not have it; `RetainedAssumption`,
that a rejected diff has only text, since only a diff with nothing omitted can
be frozen; `StoreAssumption`, that every release knows at least one migration
and none beyond `Top`; `HomeAssumption`, that every settings page is served by
one of the backends. No theorem needs a bound on the number of jobs, requests,
backends, contents, files, updates or clock values.

The shape is the same throughout. An invariant that the runs check is seldom
inductive, so the component's module states what the code relies on as named
parts of one inductive invariant, which was model-checked before it was proved.
The proof has a lemma per action or per group of actions that change the same
variables, and lemmas that say once what an action may do to the others.

**`NativeLane`.** `SingleWriter` is not inductive: it does not say why a second
start is refused. `LaneInv` does. `OneHeld` says that one row holds the lane,
which is what the query in `claim` establishes, and `JobInv` has three parts:
`RowInv` relates a row's phase, its hold, the job's state, its outcome and the
recorded cancellation; `MemoryInv` says that tasks and turns exist only in a
living backend and only for an attempt it owns; `GroupInv` says that a group
that may write implies a held row, that a turn reported as stopped has no group,
and that a supervisor without a turn has launched nothing. The hard cases are
`finish` (the lane may be released because a confirmed stop leaves no writer)
and the crash (memory disappears, rows and groups stay). The proof has one step
per action; `LEMMA Untouched` disposes of the jobs an action does not concern.
`SingleWriter`, `WriterHoldsLane`, `CancelWins`, `RevocationSticks` and
`LaunchedOnce` are consequences. `SettledIsLast` speaks of the ledger and needs
`LedgerInv` besides: `native.settled` is there only for a settled row. Every
action that appends to the ledger works on an attempt that is not settled, so
nothing follows that event (`LEMMA LedgerSteps`).

**`VerifyGate`.** `CheckedOnce` says what the ledger shows; `GateInv` says why.
`StartsRecorded` ties each start of a command to its recorded check,
`CheckedAlone` says that at most one check is unfinished and only its process
may be alive, and `AwaitsOwnCheck` that a request which awaits the command is
the only one, and that the unfinished check is its own: without it a result
could be recorded for another command. `RequestsInformed` says that the content
a readiness request compares with stays verified while it waits, from which
`ReadyIsVerified` follows however the worktree changes in between.

**`ReviewFlow`.** Its steps are those of the gate and its own. The proof takes
`GateInv` as it is (`GateOutsideReview`, `ReviewOutsideGate`: each part leaves
the other's variables alone, except at the transitions of the job) and adds
`ReviewInv`: a bundle carries the content of a recorded round
(`BundlesOfRounds`), no two approvals bind one round (`OneApprovalEach`), a
waiting job waits for exactly one undecided approval, that of the latest bundle
of the latest round (`WaitsForPending`), nothing is decided or retained before
the job has its outcome (`OpenUntilOutcome`), and what a request has read is not
taken away (`ReviewersInformed`). `ReviewConsistent` then is a fact about one
state (`LEMMA RecoveryFindsNothing`): the cases of `RecoveryIssue` are gone
through in the order in which the code tests them. `HistoryFrozen` is an action
property, proved from the same invariant.

**`Promotion`.** `PromotionInv`: one request holds the project's lock
(`OneHolder`); what a request has captured is the approved content unless the
worktree was disturbed in this attempt (`RequestInv`); an approved job has no `git apply` yet.
`AppliedOnce` follows because `git apply` is started only by the one holder
whose intent moved the job out of `approved`. `InterruptedStays` is an action
property, proved from the same invariant: no action of a request reaches a job
that is applying and that no request works on.

**`DiffCollect`.** `StableDiff` relates what a collection returns to states of
the worktree that are past when it returns. `DiffInv` carries them along:
`StampsInOrder` (a stamp is never given twice, so a path whose stamp is
unchanged was not written), `ShownSteady` (such a path still has the data that
was shown), `ShownInOrder` (the paths are shown in their order and all of them
before the verification), `DeletedKnown`, and `HeldVerified`: once the tracked
paths have been listed again, there was a moment at which everything that is
still steady had its data. That the next path is the least one is proved by the
well-foundedness of `<` (`LEMMA MinIsFirst`).

**`RetainedTree`.** `RetainedInv` adds to `DiffInv` that one request holds the
lock and only it collects (`OneAtATime`), that the intent precedes `git worktree
remove` and nobody begins after it (`IntentFirst`), and `SeenHolds`: as long as
the stamp is that of its snapshot, a request is right about what it has looked
at, and a collection during which nobody wrote shows what is there (`Quiet`).
The hard case is the end of the second collection: only there do the snapshot,
the collection and the comparison with the rejected diff together say that the
directory is the reviewed one, which `RemovesReviewed` keeps while git, orphaned
or not, removes it. `RemovedOnce` and `UncertainStays` follow from
`IntentFirst`.

**`WorktreeCreate` and `JobStart`.** `RollbackRemovesOwn` needs `OwnTree`: from
`git worktree add` to the end of its rollback, the directory under the job's
name is the one the request made. This survives the loss of a backend only
because a rollback that was left to git keeps the branch until it ends, and the
branch keeps others from making the directory (`UndoneAlone`). `TrustedWhole`
says that what a request has found whole is so unless somebody else changed it,
whence `BoundWasWhole`. `StartInv` adds the planner: what a request has loaded
is a state the job has been in (`SeenPassed`), and the places of the states in
the lifecycle only grow (`LEMMA JobMoves`), so a stale request is refused and
`PlannedOnce` holds although two backends may plan at once.

**`PhoneControl`.** `PhoneInv` has a part for each kind of state: what an update
was answered (`Answers`), what a handler at each of its awaits has read and may
rely on (`Handles`), which action a confirmation belongs to (`Prepared`), and
that every effect is on record with its action (`OnRecord`). The subtle one is
`Handles`: two handlers of one update, or of two presses of a button, may both
stand between `Begin` and `Finish`, so it says what remains true of a handler
when the other one acts. Two lemmas carry this: `HandlerKeeps` for the handlers
an action does not concern and `GrowthKeeps` for the table, whose rows are added
and closed but never taken away.

**`PhoneOutbox`.** `SentOnce` does not say why a claimed row is not claimed
again. `OutboxInv` adds two parts: `ClaimInv` says that a row that was claimed
has all earlier parts recorded as sent, that a row that was sent had been
claimed, and that the row a gateway is about to send was claimed and not yet
sent; and `MessageInv` says that a message that may still arrive, or has
arrived, belongs to a row that was attempted, and that an acknowledgement is on
its way only for a row whose message arrived. The hard cases are the requests
that their gateway gave up: a late `next` claims a row nobody will send, a late
acknowledgement finds the row uncertain. `LEMMA RowsMove` says once what every
action may do to the table; `SentOnce` and `PartsInOrder` follow from the
invariant, and `ImplementsContract` proves the refinement: initial states map to
initial states, and each action moves each row by a step of the contract or not
at all. `LatestNoticed` becomes inductive with `NoticeInv`, which adds that the
cursor of the projection never passes the job's version.

**`EventStream`.** `StreamInv` ties the two cursors together: the server goes on
by sequence, the browser by id, and the events of other jobs lie between the
ids. `LedgerInOrder` says that in a job both have one order, because an event is
given the sequence after the greatest of its job (`LEMMA NextIsNext`).
`LastIsShown` says that the page has shown everything up to `state.lastEvent`
and that the cursor of the browser is not ahead of it. `WireInOrder` says that
the frames on the wire are the events that follow that cursor, none left out,
and `GeneratorKnows` that what the generator has passed is exactly what the
browser has or is about to get. The hard cases are the frame that is sent (it is
the first event the generator has not passed, `LEMMA SendFrameKeeps`) and the
frame that arrives (`ShowKeeps`), which may repeat what an earlier stream has
shown. The events of a job are a set of ids and a batch the first of them by
sequence, not a selected sequence: `SelectSeq` is recursive, and what it returns
for every table could not be proved.

**`RuntimeHome`.** `StoreInv` adds two parts to `SchemaWhole` and
`BackupIsSound`. `MigrationInv` says that a program that migrates is the writer
and that the version it found is still the database's: that is why no migration
is applied twice. `CopyInv` says that a copy is of a whole schema, has the rows
that were there when its command was started (rows are never taken away, `LEMMA
RowsStay`), and was verified once it is to be published. `LibraryInv` adds to
`EditsKept` that one request saves at a time, that the file is what a request
compared unless it was edited since, and that what is written is a valid
configuration. Since the two components share no variable, the proof takes the
steps of programs, backups and pages in lemmas of their own (`ProgramSteps`,
`BackupSteps`, `LibrarySteps` say what a step changes; `SchemaStep`,
`BackupStep`, `LibraryStep` that it preserves the invariant), and
`HomeInvariant` combines them.

**`StatusReader`.** `ReaderInv` relates the polling offset to the journal.
`OrderInv` says that updates arrive in order and that whatever is below the
offset, or below the rest of the batch, has a receipt, which is why advancing
the offset loses nothing (`NoUpdateLost`). `PlaceInv` says which phase the
current update has at each place of the process, and `ReplyInv` that a message
follows a claim, once. The refinement is proved as for the outbox:
`ReceiptsMove` says that each step moves each receipt as the contract allows or
leaves it, and `ContractStep` that this is a step of `ReplyContract` under the
mapping `RecordOf`.

The proofs showed two places where the model had to be made clearer. The cases
of `RecoveryIssue` overlapped, so that its value was not determined by its text:
they are now exclusive, in the order of the code. `OutboxAssumption` did not say
that notices are a kind of row of their own, without which `LatestNoticed` could
be met by a review.

## 7. What is model-checked only

`CancelEndsSupervision` and `StreamCatchesUp`, because liveness under fairness is
out of the prover's reach.

## 8. What is not modelled

* Of `diff_service.py` and `write_boundary.py`: `HEAD`, the index and the
  inspection of the status alone (a diff compares with the base commit, and a
  moved `HEAD` only ends a collection), renames, the porcelain status a
  diff also contains, the check of filter configuration, the roots a task may
  write, the syntax of paths. `VerifyGate`, `ReviewFlow` and `Promotion` take the
  diff as the content at one instant; `StableDiff` is why they may.
* The patterns of the secret scanner: text matching, a set of contents here.
* `codex_events.py`, `codex_accounts.py`, and `team_config.py` but for the
  references between its entries: parsing.
* The layout of bundles, events and replies; logging; the user interface beyond
  its event stream (the 500 rows it keeps included); heartbeats; the
  mapping of errors to HTTP status codes.
* The repository operations for usage and memory references, which write one row
  each.
* The submission of the page: one row inserted after an await that reads HEAD,
  with a snapshot of validated input. `PlannerRepository`, which no route or
  command reaches.
* The memory-only mode of `TelegramGateway`, which no command uses.
* `cancellation.py`: a helper no route is wired to.

## 9. Plan

Abstract specifications of the lane (a lock with an audit trail) and of the
job's life across modules, refined by `NativeLane` and `ReviewFlow`: the proofs
of section 6 have the invariants that such a refinement needs.
