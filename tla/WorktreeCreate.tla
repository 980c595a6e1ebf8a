--------------------------- MODULE WorktreeCreate ---------------------------
(***************************************************************************)
(* Creation of the linked worktree of one queued job: found, created,      *)
(* verified, bound to the job or rolled back.  Its branch and its          *)
(* directory have names derived from the job, so every attempt, of this    *)
(* backend or of an earlier one, competes for the same two names.          *)
(*                                                                         *)
(* A directory is abstracted to the git worktree add that made it, zero    *)
(* for none, and to its files: those of the base commit, a part of them,   *)
(* or something else.  Each call of git is an await.                       *)
(***************************************************************************)
EXTENDS Naturals, JobLifecycle

CONSTANTS
    Requests,   \* concurrent POST /worktree requests
    Checkouts,  \* HEAD and status of the project's checkout
    Gone,       \* no directory
    MaxMade     \* bound: git worktree add processes

Tree == [maker: Nat, files: {"partial", "whole", "changed"}]

ASSUME CreateAssumption ==
    /\ Gone \notin Tree
    /\ Checkouts # {}
    /\ MaxMade \in Nat

VARIABLES
    state,      \* jobs.state, which others move
    bound,      \* jobs.worktree_path and its event are recorded
    tree,       \* the directory with the job's key
    branch,     \* the job's branch exists
    checkout,   \* the project's checkout
    request,    \* the requests in flight
    orphans,    \* git processes that outlived their backend
    made,       \* git worktree add processes so far
    boundTree,  \* history: the directory when it was bound
    destroyed,  \* history: what requests removed
    disturbed   \* history: somebody else changed a trusted directory

job  == <<state, bound>>
git  == <<tree, branch, checkout>>
past == <<boundTree, destroyed, disturbed>>
createVars == <<job, git, request, orphans, made, past>>

\* Where a request waits: for the repository's identity, the branch, a leftover
\* directory, its status; for the checkout, git worktree add, the new
\* directory, the checkout again; for the transaction; for the two calls of a
\* rollback.
Looking == {"repository", "branch", "leftover", "status", "checkout", "bind"}
Making  == {"add", "adding", "verify", "compare", "bind", "remove", "delete"}
Idle    == [at |-> "idle", maker |-> 0, seen |-> FALSE, before |-> Gone]
Request == [at: {"idle"} \cup Looking \cup Making, maker: Nat, seen: BOOLEAN,
            before: Checkouts \cup {Gone}]
Process == [at: {"add", "adding", "remove", "delete"}, maker: Nat]

CreateTypeOK ==
    /\ state \in JobState
    /\ bound \in BOOLEAN
    /\ tree \in Tree \cup {Gone}
    /\ branch \in BOOLEAN
    /\ checkout \in Checkouts
    /\ request \in [Requests -> Request]
    /\ orphans \in SUBSET Process
    /\ made \in 0..MaxMade
    /\ boundTree \in Tree \cup {Gone}
    /\ destroyed \in SUBSET [maker: Nat, by: Nat, bound: BOOLEAN]
    /\ disturbed \in BOOLEAN

CreateInit ==
    /\ state = "created"
    /\ bound = FALSE
    /\ tree = Gone
    /\ branch = FALSE
    /\ checkout \in Checkouts
    /\ request = [h \in Requests |-> Idle]
    /\ orphans = {}
    /\ made = 0
    /\ boundTree = Gone
    /\ destroyed = {}
    /\ disturbed = FALSE

At(h, place) == request[h].at = place
Becomes(h, r) == request' = [request EXCEPT ![h] = r]
Goes(h, place) == Becomes(h, [request[h] EXCEPT !.at = place])
Answer(h) == Becomes(h, Idle)

\* The directory is this request's own, and a failure is rolled back.
Fresh(h) == request[h].maker # 0

-----------------------------------------------------------------------------
(* Before anything is created.                                             *)

\* The asyncio.Lock of the job.
LockFree(h) == \A other \in Requests : At(other, "idle")

\* A job that is already bound is only read; another must be queued.
BeginCreate(h) ==
    /\ At(h, "idle")
    /\ LockFree(h)
    /\ ~bound
    /\ state = "queued"
    /\ Goes(h, "repository")
    /\ UNCHANGED <<job, git, orphans, made, past>>

\* _verify_repository succeeded; _artifact_exists looks at the directory.
LookAtTarget(h) ==
    /\ At(h, "repository")
    /\ Becomes(h, [request[h] EXCEPT !.at = "branch", !.seen = (tree # Gone)])
    /\ UNCHANGED <<job, git, orphans, made, past>>

\* _artifact_exists looks at the branch: both, or neither.
LookAtBranch(h) ==
    /\ At(h, "branch")
    /\ request[h].seen = branch
    /\ Goes(h, IF branch THEN "leftover" ELSE "checkout")
    /\ UNCHANGED <<job, git, orphans, made, past>>

-----------------------------------------------------------------------------
(* A directory that an earlier attempt left behind.                        *)

\* _verify_worktree: a linked worktree at the base commit on the branch, which
\* a directory somebody else put there is not.
Linked == tree # Gone /\ tree.maker # 0 /\ branch

VerifyLeftover(h) ==
    /\ At(h, "leftover")
    /\ Linked
    /\ Goes(h, "status")
    /\ UNCHANGED <<job, git, orphans, made, past>>

\* Fault: the leftover directory is not compared with its base commit.
Unchanged_Unchecked == tree # Gone

\* git status of a leftover directory is empty.
Unchanged == tree # Gone /\ tree.files = "whole"

SeeStatus(h) ==
    /\ At(h, "status")
    /\ Unchanged
    /\ Goes(h, "bind")
    /\ UNCHANGED <<job, git, orphans, made, past>>

-----------------------------------------------------------------------------
(* A new directory.                                                        *)

\* _repository_state, and git worktree add is started.
SeeCheckout(h) ==
    /\ At(h, "checkout")
    /\ made < MaxMade
    /\ made' = made + 1
    /\ Becomes(h, [at |-> "add", maker |-> made + 1, seen |-> request[h].seen, before |-> checkout])
    /\ UNCHANGED <<job, git, orphans, past>>

\* git creates the branch and the directory, which both must be new.
AddBegins(m) ==
    /\ tree = Gone
    /\ ~branch
    /\ tree' = [maker |-> m, files |-> "partial"]
    /\ branch' = TRUE

AddTree(h) ==
    /\ At(h, "add")
    /\ AddBegins(request[h].maker)
    /\ Goes(h, "adding")
    /\ UNCHANGED <<job, checkout, orphans, made, past>>

\* git has written all files of the base commit.
AddEnds(m) ==
    /\ tree # Gone
    /\ tree.maker = m
    /\ tree' = [maker |-> m, files |-> IF tree.files = "partial" THEN "whole" ELSE tree.files]
    /\ UNCHANGED branch

AddSucceeds(h) ==
    /\ At(h, "adding")
    /\ AddEnds(request[h].maker)
    /\ Goes(h, "verify")
    /\ UNCHANGED <<job, checkout, orphans, made, past>>

\* Fault: a failed git worktree add is rolled back as well.
AfterAddFailed_RolledBack(h) == Goes(h, "remove")

\* A failed or timed out git worktree add is answered and nothing is undone.
AfterAddFailed(h) == Answer(h)

\* git leaves what it has written, or cleans its directory up.
AddFails(h) ==
    /\ request[h].at \in {"add", "adding"}
    /\ \/ UNCHANGED tree
       \/ At(h, "adding") /\ tree # Gone /\ tree.maker = request[h].maker /\ tree' = Gone
    /\ AfterAddFailed(h)
    /\ UNCHANGED <<job, branch, checkout, orphans, made, past>>

VerifyNew(h) ==
    /\ At(h, "verify")
    /\ Linked
    /\ Goes(h, "compare")
    /\ UNCHANGED <<job, git, orphans, made, past>>

\* The checkout is as it was before git worktree add.
CompareCheckout(h) ==
    /\ At(h, "compare")
    /\ checkout = request[h].before
    /\ Goes(h, "bind")
    /\ UNCHANGED <<job, git, orphans, made, past>>

-----------------------------------------------------------------------------
(* The binding and the rollback.                                           *)

\* AtomicTransitionService.bind_worktree: the job is as it was loaded.
Bind(h) ==
    /\ At(h, "bind")
    /\ state = "queued"
    /\ ~bound
    /\ bound' = TRUE
    /\ boundTree' = tree
    /\ Answer(h)
    /\ UNCHANGED <<state, git, orphans, made, destroyed, disturbed>>

\* A test or a call fails with a directory of the request's own.
Undo(h) ==
    /\ request[h].at \in {"verify", "compare", "bind"}
    /\ Fresh(h)
    /\ Goes(h, "remove")
    /\ UNCHANGED <<job, git, orphans, made, past>>

\* git worktree remove --force, which refuses what is not a linked worktree.
RemoveTree(h) ==
    /\ At(h, "remove")
    /\ Linked
    /\ tree' = Gone
    /\ destroyed' = destroyed \cup
           {[maker |-> tree.maker, by |-> request[h].maker, bound |-> bound]}
    /\ Goes(h, "delete")
    /\ UNCHANGED <<job, branch, checkout, orphans, made, boundTree, disturbed>>

\* git branch -D
DeleteBranch(h) ==
    /\ At(h, "delete")
    /\ branch' = FALSE
    /\ Answer(h)
    /\ UNCHANGED <<job, tree, checkout, orphans, made, past>>

\* The rollback fails: the state requires attention.
RollbackFails(h) ==
    /\ request[h].at \in {"remove", "delete"}
    /\ \/ UNCHANGED tree
       \/ At(h, "remove") /\ Linked /\ tree' = [tree EXCEPT !.files = "partial"]
    /\ Answer(h)
    /\ UNCHANGED <<job, branch, checkout, orphans, made, past>>

\* A test or a call fails before anything was created.
Refuse(h) ==
    /\ ~At(h, "idle")
    /\ ~Fresh(h)
    /\ Answer(h)
    /\ UNCHANGED <<job, git, orphans, made, past>>

-----------------------------------------------------------------------------
(* The environment.                                                        *)

\* No request will look at the files again before it binds them: those of a new
\* directory are not looked at, those of a leftover one before this.
Trusted == \E h \in Requests : request[h].at \in {"adding", "verify", "compare", "bind"}

\* The backend dies; the git process it was waiting for goes on.
Die ==
    /\ \E h \in Requests : ~At(h, "idle")
    /\ orphans' = orphans \cup
           {[at |-> request[h].at, maker |-> request[h].maker] :
                h \in {i \in Requests : request[i].at \in {"add", "adding", "remove", "delete"}}}
    /\ request' = [h \in Requests |-> Idle]
    /\ UNCHANGED <<job, git, made, past>>

\* What such a process still does before it ends.
OrphanEnds(o) ==
    /\ orphans' = orphans \ {o}
    /\ \/ UNCHANGED <<tree, branch>>
       \/ /\ o.at = "adding"
          /\ AddEnds(o.maker)
       \/ /\ o.at = "remove"
          /\ Linked
          /\ tree' \in {Gone, [tree EXCEPT !.files = "partial"]}
          /\ UNCHANGED branch
       \/ /\ o.at = "delete"
          /\ branch' = FALSE
          /\ UNCHANGED tree
    /\ disturbed' = (disturbed \/ (Trusted /\ <<tree, branch>>' # <<tree, branch>>))
    /\ UNCHANGED <<job, checkout, request, made, boundTree, destroyed>>

\* Such a git worktree add may only now begin.
OrphanAdds(o) ==
    /\ o.at = "add"
    /\ AddBegins(o.maker)
    /\ orphans' = (orphans \ {o}) \cup {[o EXCEPT !.at = "adding"]}
    /\ UNCHANGED <<job, checkout, request, made, past>>

\* Somebody writes the directory, or puts one where none is.
Write ==
    /\ tree' = IF tree = Gone THEN [maker |-> 0, files |-> "changed"]
                              ELSE [tree EXCEPT !.files = "changed"]
    /\ disturbed' = (disturbed \/ Trusted)
    /\ UNCHANGED <<job, branch, checkout, request, orphans, made, boundTree, destroyed>>

\* The operator inspects what requires attention and clears it away.
TidyUp ==
    /\ ~bound
    /\ \A h \in Requests : At(h, "idle")
    /\ orphans = {}
    /\ tree' = Gone
    /\ branch' = FALSE
    /\ UNCHANGED <<job, checkout, request, orphans, made, past>>

\* Somebody works in the checkout.
UseCheckout ==
    /\ checkout' \in Checkouts \ {checkout}
    /\ UNCHANGED <<job, tree, branch, request, orphans, made, past>>

-----------------------------------------------------------------------------
Step(h) ==
    \/ BeginCreate(h) \/ LookAtTarget(h) \/ LookAtBranch(h)
    \/ VerifyLeftover(h) \/ SeeStatus(h)
    \/ SeeCheckout(h) \/ AddTree(h) \/ AddSucceeds(h) \/ AddFails(h)
    \/ VerifyNew(h) \/ CompareCheckout(h)
    \/ Bind(h) \/ Undo(h) \/ RemoveTree(h) \/ DeleteBranch(h) \/ RollbackFails(h)
    \/ Refuse(h)

Environment ==
    \/ Die
    \/ \E o \in orphans : OrphanEnds(o) \/ OrphanAdds(o)
    \/ Write
    \/ TidyUp
    \/ UseCheckout

-----------------------------------------------------------------------------
(* Properties.                                                             *)

\* A job is bound to a complete directory at its base commit: what a crash, a
\* timeout or somebody's edit left partial or modified is never taken for one.
\* Only a change that somebody else makes after the last look escapes.
BoundWasWhole == bound /\ ~disturbed => boundTree # Gone /\ boundTree.files = "whole"

\* A rollback removes the directory its own request created and no other: not
\* one that an earlier backend left or is still writing, and never one that
\* the job is bound to.
RollbackRemovesOwn == \A d \in destroyed : d.maker = d.by /\ ~d.bound

-----------------------------------------------------------------------------
(* The inductive invariant behind them.                                    *)

\* The job's lock, which every request that looks for a binding holds.
OneAtATime ==
    \A h \in Requests : ~At(h, "idle") =>
        ~bound /\ \A other \in Requests : ~At(other, "idle") => other = h

\* A request numbers its git worktree add when it starts one, and not before.
MakersNumbered ==
    \A h \in Requests :
        /\ request[h].at \in Making \ {"bind"} => Fresh(h)
        /\ request[h].at \in {"idle"} \cup (Looking \ {"bind"}) => ~Fresh(h)

\* The rollback that a dead backend left to git: there is at most one, it keeps
\* the branch until it ends, and so nobody else makes a directory before that.
Undoers == {o \in orphans : o.at \in {"remove", "delete"}}
UndoneAlone ==
    /\ \A o, u \in Undoers : o = u
    /\ Undoers # {} => branch
    /\ \A h \in Requests : Fresh(h) \/ At(h, "checkout") => Undoers = {}

\* From git worktree add to the end of its rollback the directory is the one
\* that the request made.
OwnTree ==
    \A h \in Requests : Fresh(h) /\ ~At(h, "add") =>
        /\ branch
        /\ ~At(h, "delete") => tree # Gone /\ tree.maker = request[h].maker

\* What a request has found whole, or is told that git has written, is so unless
\* somebody else changed it.
TrustedWhole ==
    ~disturbed => \A h \in Requests :
        /\ At(h, "adding") => tree # Gone /\ tree.files = "partial"
        /\ request[h].at \in {"verify", "compare", "bind"} => tree # Gone /\ tree.files = "whole"

CreateInv ==
    /\ CreateTypeOK
    /\ OneAtATime
    /\ MakersNumbered
    /\ UndoneAlone
    /\ OwnTree
    /\ TrustedWhole
    /\ BoundWasWhole
    /\ RollbackRemovesOwn

=============================================================================
