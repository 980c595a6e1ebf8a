---------------------------- MODULE RetainedTree ----------------------------
(***************************************************************************)
(* Disposal of a rejected worktree: the cleanup requests of one rejected   *)
(* job with a retention record, after the review that ReviewFlow models.   *)
(*                                                                         *)
(* Both checks of the live review are collections of DiffCollect, one file *)
(* after the other.  Requests may be of several backend processes; each    *)
(* inspection is an await, so what it saw may have changed since.  A stamp *)
(* is also what the snapshot of all entries would find changed.            *)
(***************************************************************************)
EXTENDS DiffCollect

CONSTANTS
    Rejected,   \* the worktree whose diff the rejected bundle froze
    Original,   \* the identity the rejection recorded
    Requests,   \* concurrent POST /cleanup requests
    Deadline,   \* retain_until
    MaxClock    \* bound: the clock

ASSUME RetainedAssumption ==
    /\ Rejected \in [Paths -> Texts \cup {Absent}]
    /\ Original \in Identities
    /\ Deadline \in Nat
    /\ MaxClock \in Nat

VARIABLES
    ignored,    \* the worktree has files that git ignores
    clock,      \* the local UTC clock, which may be adjusted
    started,    \* job.worktree.cleanup.started is recorded
    completed,  \* job.worktree.cleanup.completed is recorded
    request,    \* the requests in flight
    orphan,     \* a git worktree remove outlived its backend
    removals,   \* history: git worktree remove processes started
    destroyed,  \* history: the worktree git removed, or Gone
    disturbed   \* history: a write the last inspections cannot see

cleanupVars == <<clock, started, completed, orphan, removals, destroyed, disturbed>>
vars == <<diffVars, ignored, request, cleanupVars>>

Tree == [id: Identities, data: [Paths -> Data], ignored: BOOLEAN]

\* Where a request waits, in order: for verify_removable and assert_live, with
\* the lock held; with the intent recorded, for the inventory of ignored files,
\* the rest of verify_removable, assert_live, its answer, git and the result.
Ahead   == {"inspect", "live", "intent"}
Begun   == {"inventory", "snapshot", "relive", "remove", "removing", "confirm", "complete"}
Request == [at: {"idle"} \cup Ahead \cup Begun, seen: 0..MaxStamp]
Idle    == [at |-> "idle", seen |-> 0]

TypeOK ==
    /\ DiffTypeOK
    /\ ignored \in BOOLEAN
    /\ clock \in 0..MaxClock
    /\ started \in BOOLEAN
    /\ completed \in BOOLEAN
    /\ request \in [Requests -> Request]
    /\ orphan \in BOOLEAN
    /\ removals \in Nat
    /\ destroyed \in Tree \cup {Gone}
    /\ disturbed \in BOOLEAN

Init ==
    /\ DiffInit
    /\ root = Original
    /\ Now = Rejected
    /\ ignored = FALSE
    /\ clock = 0
    /\ started = FALSE
    /\ completed = FALSE
    /\ request = [h \in Requests |-> Idle]
    /\ orphan = FALSE
    /\ removals = 0
    /\ destroyed = Gone
    /\ disturbed = FALSE

Holding(h) == request[h].at # "idle"
Becomes(h, r)  == request' = [request EXCEPT ![h] = r]
MovesTo(h, at) == Becomes(h, [request[h] EXCEPT !.at = at])

\* A request is answered: its lock and what it saw are gone.
Answer(h) == Becomes(h, Idle)

-----------------------------------------------------------------------------
(* The way to the intent.  A request that fails any test is answered.      *)

\* Fault: an interrupted cleanup may be asked for again.
Disposable_Again == ~completed

\* What _cleanup_locked requires of the audit events.
Disposable == ~started /\ ~completed

\* The inspection period is over.
Due == clock >= Deadline

\* The project's lock is tried, not waited for.
BeginCleanup(h) ==
    /\ request[h].at = "idle"
    /\ \A other \in Requests : ~Holding(other)
    /\ Disposable
    /\ Due
    /\ MovesTo(h, "inspect")
    /\ UNCHANGED <<diffVars, ignored, cleanupVars>>

\* verify_bound and worktree_identity: the directory the rejection recorded.
SameTree == root = Original

\* _disposal_snapshot takes nothing but regular files and directories.
Safe == \A p \in Paths : Now[p] # Link

\* verify_removable: the recorded directory, without ignored files.
Inspect(h) ==
    /\ request[h].at = "inspect"
    /\ SameTree
    /\ ~ignored
    /\ Safe
    /\ MovesTo(h, "live")
    /\ UNCHANGED <<diffVars, ignored, cleanupVars>>

\* The collection that assert_live waits for.
Collect(h) ==
    /\ request[h].at \in {"live", "relive"}
    /\ CollectStep
    /\ UNCHANGED <<ignored, request, cleanupVars>>

\* assert_live: the diff is the frozen one.
Live ==
    /\ scan.at = "done"
    /\ scan.shown = [p \in Paths |-> IF Rejected[p] = BaseOf[p] THEN "none" ELSE Rejected[p]]

CheckLive(h) ==
    /\ request[h].at = "live"
    /\ Live
    /\ EndScan
    /\ MovesTo(h, "intent")
    /\ UNCHANGED <<root, files, stamp, ignored, cleanupVars>>

\* record_cleanup of the intent.  The rejected review it compares with can no
\* longer change, and its event has one idempotency key.
RecordIntent(h) ==
    /\ request[h].at = "intent"
    /\ started' = TRUE
    /\ MovesTo(h, "inventory")
    /\ UNCHANGED <<diffVars, ignored, clock, completed, orphan, removals, destroyed, disturbed>>

-----------------------------------------------------------------------------
(* remove_retained, with the intent recorded.                              *)

\* verify_removable again: git lists the ignored files ...
Inventory(h) ==
    /\ request[h].at = "inventory"
    /\ SameTree
    /\ ~ignored
    /\ MovesTo(h, "snapshot")
    /\ UNCHANGED <<diffVars, ignored, cleanupVars>>

\* ... then the index; the identity and every entry are taken without an await.
Snapshot(h) ==
    /\ request[h].at = "snapshot"
    /\ SameTree
    /\ Safe
    /\ Becomes(h, [at |-> "relive", seen |-> stamp])
    /\ UNCHANGED <<diffVars, ignored, cleanupVars>>

\* before_remove awaits assert_live.
CheckAgain(h) ==
    /\ request[h].at = "relive"
    /\ Live
    /\ EndScan
    /\ MovesTo(h, "remove")
    /\ UNCHANGED <<root, files, stamp, ignored, cleanupVars>>

\* Fault: the entries are not compared with the snapshot.
LastLook_NoSnapshot(h) == Due /\ SameTree

\* The end of before_remove and the last comparisons, without an await.
LastLook(h) == Due /\ SameTree /\ stamp = request[h].seen

StartRemoval(h) ==
    /\ request[h].at = "remove"
    /\ LastLook(h)
    /\ removals' = removals + 1
    /\ MovesTo(h, "removing")
    /\ UNCHANGED <<diffVars, ignored, clock, started, completed, orphan, destroyed, disturbed>>

\* git worktree remove --force takes the directory and its registration.
Removes ==
    /\ root # Gone
    /\ root' = Gone
    /\ destroyed' = [id |-> root, data |-> Now, ignored |-> ignored]
    /\ UNCHANGED files

\* It is interrupted and leaves some of the files.
RemovesPartly ==
    /\ root # Gone
    /\ \E p \in Paths : files' = [files EXCEPT ![p] = [data |-> Absent, stamp |-> stamp]]
    /\ destroyed' = [id |-> root, data |-> Now, ignored |-> ignored]
    /\ UNCHANGED root

RemovalSucceeds(h) ==
    /\ request[h].at = "removing"
    /\ Removes
    /\ MovesTo(h, "confirm")
    /\ UNCHANGED <<stamp, scan, held, ignored, clock, started, completed, orphan, removals,
                   disturbed>>

\* Fault: a removal that fails is tried again.
RemovalFails_Retried(h) ==
    /\ request[h].at = "removing"
    /\ Removes \/ RemovesPartly \/ UNCHANGED <<root, files, destroyed>>
    /\ MovesTo(h, "remove")
    /\ UNCHANGED <<stamp, scan, held, ignored, clock, started, completed, orphan, removals,
                   disturbed>>

\* A nonzero exit or the timeout, with nothing, some or all of it removed.
RemovalFails(h) ==
    /\ request[h].at = "removing"
    /\ Removes \/ RemovesPartly \/ UNCHANGED <<root, files, destroyed>>
    /\ Answer(h)
    /\ UNCHANGED <<stamp, scan, held, ignored, clock, started, completed, orphan, removals,
                   disturbed>>

\* The directory and its registration are gone; git kept the branch.
Vanished == root = Gone

Confirm(h) ==
    /\ request[h].at = "confirm"
    /\ Vanished
    /\ MovesTo(h, "complete")
    /\ UNCHANGED <<diffVars, ignored, cleanupVars>>

\* record_cleanup of the completion.
Complete(h) ==
    /\ request[h].at = "complete"
    /\ completed' = TRUE
    /\ Answer(h)
    /\ UNCHANGED <<diffVars, ignored, clock, started, orphan, removals, destroyed, disturbed>>

\* A test that fails or an error: the request is answered.
Refuse(h) ==
    /\ request[h].at \notin {"idle", "removing"}
    /\ Answer(h)
    /\ EndScan
    /\ UNCHANGED <<root, files, stamp, ignored, cleanupVars>>

-----------------------------------------------------------------------------
(* The environment.                                                        *)

\* The backend of a request dies; git runs in a session of its own.
Die(h) ==
    /\ Holding(h)
    /\ orphan' = (orphan \/ request[h].at = "removing")
    /\ Answer(h)
    /\ EndScan
    /\ UNCHANGED <<root, files, stamp, ignored, clock, started, completed, removals,
                   destroyed, disturbed>>

OrphanEnds ==
    /\ orphan
    /\ orphan' = FALSE
    /\ Removes \/ RemovesPartly \/ UNCHANGED <<root, files, destroyed>>
    /\ UNCHANGED <<stamp, scan, held, ignored, request, clock, started, completed, removals,
                   disturbed>>

\* Two moments are beyond the inspections: between git's list of ignored files
\* and the snapshot, and once git is removing.
Disturbs ==
    disturbed' = \/ disturbed
                 \/ orphan
                 \/ \E h \in Requests : request[h].at \in {"snapshot", "removing"}

\* A file that git ignores appears or disappears.
WriteIgnored ==
    /\ root # Gone
    /\ stamp < MaxStamp
    /\ stamp' = stamp + 1
    /\ ignored' = ~ignored
    /\ UNCHANGED <<root, files, scan, held>>

\* Somebody writes in the worktree, replaces it or puts one in its place.
Write ==
    /\ \/ (\E p \in Paths, d \in Data : WriteFile(p, d)) /\ UNCHANGED ignored
       \/ (\E id \in Identities : ReplaceRoot(id)) /\ UNCHANGED ignored
       \/ WriteIgnored
    /\ Disturbs
    /\ UNCHANGED <<request, clock, started, completed, orphan, removals, destroyed>>

\* Time passes, or the clock is adjusted.
SetClock(t) ==
    /\ clock' = t
    /\ UNCHANGED <<diffVars, ignored, request, started, completed, orphan, removals,
                   destroyed, disturbed>>

-----------------------------------------------------------------------------
Step(h) ==
    \/ BeginCleanup(h)
    \/ Inspect(h)
    \/ Collect(h)
    \/ CheckLive(h)
    \/ RecordIntent(h)
    \/ Inventory(h)
    \/ Snapshot(h)
    \/ CheckAgain(h)
    \/ StartRemoval(h)
    \/ RemovalSucceeds(h)
    \/ RemovalFails(h)
    \/ Confirm(h)
    \/ Complete(h)
    \/ Refuse(h)
    \/ Die(h)

Next ==
    \/ \E h \in Requests : Step(h)
    \/ OrphanEnds
    \/ Write
    \/ \E t \in 0..MaxClock : SetClock(t)

Spec == Init /\ [][Next]_vars

-----------------------------------------------------------------------------
(* Properties.                                                             *)

\* A worktree is handed to git worktree remove at most once, over concurrent
\* requests, failures, crashes and a directory that reappears.
RemovedOnce == removals <= 1

\* What is destroyed is the directory the rejection recorded, with the files
\* that were reviewed and nothing that git ignores, although the diff is read
\* file by file and the inspections are apart from each other: only a write at
\* one of the two moments they cannot see may be lost.
DestroyedWasReviewed ==
    destroyed # Gone /\ ~disturbed =>
        /\ destroyed.id = Original
        /\ destroyed.data = Rejected
        /\ ~destroyed.ignored

\* The intent is recorded, the outcome is not and no request is working on it.
Uncertain == started /\ ~completed /\ \A h \in Requests : request[h].at \notin Begun

\* An interrupted cleanup is left to the operator: nothing starts it again or
\* declares it complete.
UncertainStays == [][Uncertain => Uncertain' /\ removals' = removals]_vars

-----------------------------------------------------------------------------
(* The inductive invariant behind them.                                    *)

\* The project's lock: one request at a time, and only it collects.
OneAtATime ==
    /\ \A h, other \in Requests : Holding(h) /\ Holding(other) => h = other
    /\ scan.at # "idle" => \E h \in Requests : request[h].at \in {"live", "relive"}

\* The intent comes before git, and nobody begins once it is recorded.
IntentFirst ==
    /\ removals <= 1
    /\ ~started => removals = 0
    /\ \A h \in Requests :
           /\ request[h].at \in Ahead => ~started
           /\ request[h].at \in Begun => started
           /\ request[h].at \in {"inventory", "snapshot", "relive", "remove"} => removals = 0
    /\ orphan => started /\ \A h \in Requests : ~Holding(h)

\* A collection during which nobody wrote shows what is there.
Quiet ==
    /\ \A p \in Paths : scan.shown[p] \in Data => Now[p] = scan.shown[p]
    /\ scan.at \notin {"idle", "status", "tracked"} =>
           \A p \in Tracked \ Listed(scan.changes) : Now[p] = BaseOf[p]
    /\ scan.at \notin Listing => \A p \in Paths \ Listed(scan.changes) : Now[p] = BaseOf[p]

\* While the stamp is the one of its snapshot, a request is right about what it
\* has looked at.
SeenHolds ==
    \A h \in Requests :
        /\ request[h].at = "snapshot" /\ ~disturbed => ~ignored
        /\ request[h].at \in {"relive", "remove"} => request[h].seen <= stamp
        /\ request[h].at \in {"relive", "remove"} /\ request[h].seen = stamp =>
               /\ ~disturbed => ~ignored
               /\ request[h].at = "relive" => Quiet
               /\ request[h].at = "remove" => Now = Rejected

\* What git is removing is the reviewed directory.
Removing == orphan \/ \E h \in Requests : request[h].at = "removing"
RemovesReviewed ==
    Removing /\ ~disturbed => root = Original /\ Now = Rejected /\ ~ignored

RetainedInv ==
    /\ TypeOK
    /\ DiffInv
    /\ OneAtATime
    /\ IntentFirst
    /\ SeenHolds
    /\ RemovesReviewed
    /\ DestroyedWasReviewed

=============================================================================
