--------------------------- MODULE JobStartProofs ---------------------------
(* Proofs about the way of a job to its execution, for any numbers of      *)
(* planning requests, worktree requests and git processes.                 *)
EXTENDS JobStart, TLAPS

-----------------------------------------------------------------------------
(* Worktree creation: what every step may assume.                          *)

\* An idle request is of its type and has made nothing.
LEMMA IdleValues == Idle \in Request /\ Idle.at = "idle" /\ Idle.maker = 0
BY DEF Idle, Request

\* A request that moves changes its own record only.
LEMMA BecomesOnly ==
    ASSUME CreateTypeOK, NEW h \in Requests, NEW r \in Request, Becomes(h, r)
    PROVE  /\ request' \in [Requests -> Request]
           /\ request'[h] = r
           /\ \A g \in Requests : g # h => request'[g] = request[g]
BY DEF CreateTypeOK, Becomes

\* A request that goes on keeps what it made.
LEMMA GoesOnly ==
    ASSUME CreateTypeOK, NEW h \in Requests, NEW place \in {"idle"} \cup Looking \cup Making,
           Goes(h, place)
    PROVE  /\ request' \in [Requests -> Request]
           /\ request'[h].at = place
           /\ request'[h].maker = request[h].maker
           /\ \A g \in Requests : g # h => request'[g] = request[g]
<1> DEFINE r == [request[h] EXCEPT !.at = place]
<1>1. request[h] \in Request
  BY DEF CreateTypeOK
<1>2. r \in Request /\ r.at = place /\ r.maker = request[h].maker
  BY <1>1 DEF Request
<1> HIDE DEF r
<1> QED
  BY <1>2, BecomesOnly DEF Goes, r

\* A request that is answered is idle again.
LEMMA AnswerOnly ==
    ASSUME CreateTypeOK, NEW h \in Requests, Answer(h)
    PROVE  /\ request' \in [Requests -> Request]
           /\ request'[h].at = "idle"
           /\ request'[h].maker = 0
           /\ \A g \in Requests : g # h => request'[g] = request[g]
BY IdleValues, BecomesOnly DEF Answer

\* A step of the one request that holds the job's lock, whatever it does to the
\* directory, has only its own await to answer for.
LEMMA HolderKeeps ==
    ASSUME CreateInv, NEW h \in Requests, \A g \in Requests : g # h => At(g, "idle"),
           CreateTypeOK', BoundWasWhole', RollbackRemovesOwn',
           \A g \in Requests : g # h => request'[g] = request[g],
           orphans' = orphans, branch /\ ~branch' => Undoers = {},
           request'[h].at # "idle" => ~bound',
           request'[h].at \in Making \ {"bind"} => request'[h].maker # 0,
           request'[h].at \in {"idle"} \cup (Looking \ {"bind"}) => request'[h].maker = 0,
           request'[h].maker # 0 \/ request'[h].at = "checkout" => Undoers = {},
           request'[h].maker # 0 /\ request'[h].at # "add" =>
               /\ branch'
               /\ request'[h].at # "delete" => tree' # Gone /\ tree'.maker = request'[h].maker,
           ~disturbed' =>
               /\ request'[h].at = "adding" => tree' # Gone /\ tree'.files = "partial"
               /\ request'[h].at \in {"verify", "compare", "bind"} =>
                      tree' # Gone /\ tree'.files = "whole"
    PROVE  CreateInv'
<1>0. \A g \in Requests : g # h => request'[g].at = "idle" /\ request'[g].maker = 0
  BY DEF CreateInv, MakersNumbered, Fresh, At
<1>1. OneAtATime'
  BY <1>0 DEF OneAtATime, At
<1>5. MakersNumbered'
  BY <1>0 DEF MakersNumbered, Fresh, Making, Looking
<1>2. UndoneAlone'
  <2>1. Undoers' = Undoers
    BY DEF Undoers
  <2>2. (Undoers # {} => branch)'
    BY <2>1 DEF CreateInv, UndoneAlone, CreateTypeOK
  <2> QED
    BY <1>0, <2>1, <2>2 DEF CreateInv, UndoneAlone, Fresh, At
<1>3. OwnTree'
  BY <1>0 DEF OwnTree, Fresh, At
<1>4. TrustedWhole'
  BY <1>0 DEF TrustedWhole, At
<1> QED
  BY <1>1, <1>2, <1>3, <1>4, <1>5 DEF CreateInv

-----------------------------------------------------------------------------
(* Worktree creation: the steps of a request.                              *)

\* Requests that look, compare, fail or give up change their own record only.
LEMMA LookingKeeps ==
    ASSUME CreateInv, NEW h \in Requests,
           \/ BeginCreate(h)
           \/ LookAtTarget(h)
           \/ LookAtBranch(h)
           \/ VerifyLeftover(h)
           \/ SeeStatus(h)
           \/ VerifyNew(h)
           \/ CompareCheckout(h)
           \/ Undo(h)
           \/ Refuse(h)
    PROVE  CreateInv'
<1>0. /\ CreateTypeOK /\ request[h] \in Request /\ request \in [Requests -> Request]
      /\ tree \in Tree \cup {Gone} /\ branch \in BOOLEAN
  BY DEF CreateInv, CreateTypeOK
<1>1. UNCHANGED <<job, git, orphans, made, past>>
  BY DEF BeginCreate, LookAtTarget, LookAtBranch, VerifyLeftover, SeeStatus, VerifyNew,
         CompareCheckout, Undo, Refuse
<1>2. ASSUME \A g \in Requests : g # h => At(g, "idle"),
             request' \in [Requests -> Request],
             \A g \in Requests : g # h => request'[g] = request[g],
             request'[h].at # "idle" => ~bound,
             request'[h].at \in Making \ {"bind"} => request'[h].maker # 0,
             request'[h].at \in {"idle"} \cup (Looking \ {"bind"}) => request'[h].maker = 0,
             request'[h].maker # 0 \/ request'[h].at = "checkout" => Undoers = {},
             request'[h].maker # 0 /\ request'[h].at # "add" =>
                 /\ branch
                 /\ request'[h].at # "delete" => tree # Gone /\ tree.maker = request'[h].maker,
             ~disturbed =>
                 /\ request'[h].at = "adding" => tree # Gone /\ tree.files = "partial"
                 /\ request'[h].at \in {"verify", "compare", "bind"} =>
                        tree # Gone /\ tree.files = "whole"
      PROVE  CreateInv'
  <2>1. CreateTypeOK' /\ BoundWasWhole' /\ RollbackRemovesOwn'
    BY <1>1, <1>2 DEF CreateInv, CreateTypeOK, BoundWasWhole, RollbackRemovesOwn, job, git, past
  <2> QED
    BY <1>1, <1>2, <2>1, HolderKeeps DEF job, git, past
<1>3. ~At(h, "idle") => /\ ~bound
                        /\ \A g \in Requests : g # h => At(g, "idle")
  BY DEF CreateInv, OneAtATime
<1>4. CASE BeginCreate(h)
  <2>1. ~bound /\ \A g \in Requests : At(g, "idle")
    BY <1>4 DEF BeginCreate, LockFree
  <2>2. /\ request' \in [Requests -> Request]
        /\ request'[h].at = "repository" /\ request'[h].maker = request[h].maker
        /\ \A g \in Requests : g # h => request'[g] = request[g]
    BY <1>0, <1>4, GoesOnly DEF BeginCreate, Looking
  <2>3. request[h].maker = 0
    BY <2>1 DEF CreateInv, MakersNumbered, At, Fresh
  <2> QED
    BY <1>2, <2>1, <2>2, <2>3 DEF Making
<1>5. CASE LookAtTarget(h)
  <2> DEFINE r == [request[h] EXCEPT !.at = "branch", !.seen = (tree # Gone)]
  <2>1. r \in Request /\ r.maker = request[h].maker /\ r.at = "branch"
    BY <1>0 DEF Request, Looking
  <2> HIDE DEF r
  <2>2. /\ request' \in [Requests -> Request] /\ request'[h] = r
        /\ \A g \in Requests : g # h => request'[g] = request[g]
    BY <1>0, <1>5, <2>1, BecomesOnly DEF LookAtTarget, r
  <2>3. request[h].maker = 0 /\ ~At(h, "idle")
    BY <1>5 DEF LookAtTarget, CreateInv, MakersNumbered, At, Fresh, Looking
  <2> QED
    BY <1>2, <1>3, <2>1, <2>2, <2>3 DEF Making
<1>6. CASE LookAtBranch(h)
  <2> DEFINE place == IF branch THEN "leftover" ELSE "checkout"
  <2>1. /\ request' \in [Requests -> Request]
        /\ request'[h].at = place /\ request'[h].maker = request[h].maker
        /\ \A g \in Requests : g # h => request'[g] = request[g]
    BY <1>0, <1>6, GoesOnly DEF LookAtBranch, Looking
  <2>2. request[h].maker = 0 /\ ~At(h, "idle")
    BY <1>6 DEF LookAtBranch, CreateInv, MakersNumbered, At, Fresh, Looking
  <2>3. place = "checkout" => Undoers = {}
    BY DEF CreateInv, UndoneAlone
  <2> QED
    BY <1>2, <1>3, <2>1, <2>2, <2>3 DEF Making
<1>7. CASE VerifyLeftover(h)
  <2>1. /\ request' \in [Requests -> Request]
        /\ request'[h].at = "status" /\ request'[h].maker = request[h].maker
        /\ \A g \in Requests : g # h => request'[g] = request[g]
    BY <1>0, <1>7, GoesOnly DEF VerifyLeftover, Looking
  <2>2. request[h].maker = 0 /\ ~At(h, "idle")
    BY <1>7 DEF VerifyLeftover, CreateInv, MakersNumbered, At, Fresh, Looking
  <2> QED
    BY <1>2, <1>3, <2>1, <2>2 DEF Making
<1>8. CASE SeeStatus(h)
  <2>1. /\ request' \in [Requests -> Request]
        /\ request'[h].at = "bind" /\ request'[h].maker = request[h].maker
        /\ \A g \in Requests : g # h => request'[g] = request[g]
    BY <1>0, <1>8, GoesOnly DEF SeeStatus, Looking
  <2>2. request[h].maker = 0 /\ ~At(h, "idle") /\ tree # Gone /\ tree.files = "whole"
    BY <1>8 DEF SeeStatus, Unchanged, CreateInv, MakersNumbered, At, Fresh, Looking
  <2> QED
    BY <1>2, <1>3, <2>1, <2>2 DEF Making
<1>9. ASSUME NEW place \in {"compare", "bind", "remove"}, Goes(h, place), Fresh(h),
             request[h].at \in {"verify", "compare", "bind"}
      PROVE  CreateInv'
  <2>1. /\ request' \in [Requests -> Request]
        /\ request'[h].at = place /\ request'[h].maker = request[h].maker
        /\ \A g \in Requests : g # h => request'[g] = request[g]
    BY <1>0, <1>9, GoesOnly DEF Making
  <2>2. Undoers = {} /\ branch /\ tree # Gone /\ tree.maker = request[h].maker
    BY <1>9 DEF CreateInv, UndoneAlone, OwnTree, At
  <2>3. ~disturbed => tree.files = "whole"
    BY <1>9 DEF CreateInv, TrustedWhole
  <2> QED
    BY <1>2, <1>3, <1>9, <2>1, <2>2, <2>3 DEF At, Fresh, Looking
<1>10. request[h].at \in {"verify", "compare"} => Fresh(h)
  BY DEF CreateInv, MakersNumbered, Making
<1>11. CASE VerifyNew(h)
  BY <1>9, <1>10, <1>11 DEF VerifyNew, At
<1>12. CASE CompareCheckout(h)
  BY <1>9, <1>10, <1>12 DEF CompareCheckout, At
<1>13. CASE Undo(h)
  BY <1>9, <1>13 DEF Undo
<1>14. CASE Refuse(h)
  <2>1. /\ request' \in [Requests -> Request]
        /\ request'[h].at = "idle" /\ request'[h].maker = 0
        /\ \A g \in Requests : g # h => request'[g] = request[g]
    BY <1>0, <1>14, AnswerOnly DEF Refuse
  <2> QED
    BY <1>2, <1>3, <1>14, <2>1 DEF Refuse, Making
<1> QED
  BY <1>4, <1>5, <1>6, <1>7, <1>8, <1>11, <1>12, <1>13, <1>14, Zenon

\* What a step of a request that is under way knows of the others, of its own
\* directory and of a rollback left to git.
LEMMA HolderKnows ==
    ASSUME CreateInv, NEW h \in Requests, ~At(h, "idle")
    PROVE  /\ CreateTypeOK /\ request[h] \in Request
           /\ ~bound
           /\ \A g \in Requests : g # h => At(g, "idle")
           /\ Fresh(h) => Undoers = {}
           /\ Fresh(h) /\ ~At(h, "add") => branch
           /\ Fresh(h) /\ request[h].at \notin {"add", "delete"} =>
                  tree # Gone /\ tree \in Tree /\ tree.maker = request[h].maker
BY DEF CreateInv, CreateTypeOK, OneAtATime, UndoneAlone, OwnTree, At

\* git worktree add is started.
LEMMA SeeCheckoutKeeps ==
    ASSUME CreateInv, NEW h \in Requests, SeeCheckout(h)
    PROVE  CreateInv'
<1> DEFINE r == [at |-> "add", maker |-> made + 1, seen |-> request[h].seen, before |-> checkout]
<1>0. /\ CreateTypeOK /\ request[h] \in Request /\ checkout \in Checkouts /\ made \in Nat
      /\ made' \in 0..MaxMade
      /\ UNCHANGED <<job, git, orphans, past>>
  BY CreateAssumption DEF CreateInv, CreateTypeOK, SeeCheckout
<1>6. At(h, "checkout")
  BY DEF SeeCheckout
<1>5. ~At(h, "idle") /\ Undoers = {}
  BY <1>6 DEF CreateInv, At, UndoneAlone
<1>1. r \in Request /\ r.at = "add" /\ r.maker = made + 1
  BY <1>0 DEF Request, Making
<1> HIDE DEF r
<1>2. /\ request' \in [Requests -> Request] /\ request'[h] = r
      /\ \A g \in Requests : g # h => request'[g] = request[g]
  BY <1>0, <1>1, BecomesOnly DEF SeeCheckout, r
<1>3. CreateTypeOK' /\ BoundWasWhole' /\ RollbackRemovesOwn'
  BY <1>0, <1>2 DEF CreateInv, CreateTypeOK, BoundWasWhole, RollbackRemovesOwn, job, git, past
<1>4. r.maker # 0
  BY <1>0, <1>1
<1> QED
  BY <1>0, <1>1, <1>2, <1>3, <1>4, <1>5, HolderKeeps, HolderKnows DEF job, git, past, Looking

\* git has made the branch and begun to write the directory.
LEMMA AddTreeKeeps ==
    ASSUME CreateInv, NEW h \in Requests, AddTree(h)
    PROVE  CreateInv'
<1>0. /\ CreateTypeOK /\ request[h] \in Request /\ ~At(h, "idle") /\ Fresh(h)
      /\ UNCHANGED <<job, checkout, orphans, made, past>>
  BY DEF CreateInv, CreateTypeOK, AddTree, At, MakersNumbered, Making
<1>1. /\ tree' = [maker |-> request[h].maker, files |-> "partial"]
      /\ tree' \in Tree /\ tree' # Gone /\ branch' = TRUE
  BY <1>0, CreateAssumption DEF AddTree, AddBegins, Tree, Request
<1>2. /\ request' \in [Requests -> Request]
      /\ request'[h].at = "adding" /\ request'[h].maker = request[h].maker
      /\ \A g \in Requests : g # h => request'[g] = request[g]
  BY <1>0, GoesOnly DEF AddTree, Making
<1>3. CreateTypeOK' /\ BoundWasWhole' /\ RollbackRemovesOwn'
  BY <1>0, <1>1, <1>2 DEF CreateInv, CreateTypeOK, BoundWasWhole, RollbackRemovesOwn, job, past
<1>4. tree'.maker = request[h].maker /\ tree'.files = "partial"
  BY <1>1
<1> QED
  BY <1>0, <1>1, <1>2, <1>3, <1>4, HolderKeeps, HolderKnows DEF job, past, Looking, Fresh

\* git has written all files.
LEMMA AddSucceedsKeeps ==
    ASSUME CreateInv, NEW h \in Requests, AddSucceeds(h)
    PROVE  CreateInv'
<1>0. /\ CreateTypeOK /\ request[h] \in Request /\ ~At(h, "idle") /\ Fresh(h) /\ At(h, "adding")
      /\ UNCHANGED <<job, branch, checkout, orphans, made, past>>
  BY DEF CreateInv, CreateTypeOK, AddSucceeds, AddEnds, At, MakersNumbered, Making
<1>1. /\ branch /\ tree \in Tree /\ tree.maker = request[h].maker
      /\ ~disturbed => tree.files = "partial"
  BY <1>0, HolderKnows DEF At, CreateInv, TrustedWhole
<1> DEFINE t == [maker |-> request[h].maker,
                 files |-> IF tree.files = "partial" THEN "whole" ELSE tree.files]
<1>2. /\ tree' = t /\ t \in Tree /\ t # Gone /\ t.maker = request[h].maker
      /\ ~disturbed => t.files = "whole"
  BY <1>0, <1>1, CreateAssumption DEF AddSucceeds, AddEnds, Tree, Request
<1> HIDE DEF t
<1>3. /\ request' \in [Requests -> Request]
      /\ request'[h].at = "verify" /\ request'[h].maker = request[h].maker
      /\ \A g \in Requests : g # h => request'[g] = request[g]
  BY <1>0, GoesOnly DEF AddSucceeds, Making
<1>4. CreateTypeOK' /\ BoundWasWhole' /\ RollbackRemovesOwn'
  BY <1>0, <1>2, <1>3 DEF CreateInv, CreateTypeOK, BoundWasWhole, RollbackRemovesOwn, job, past
<1> QED
  BY <1>0, <1>1, <1>2, <1>3, <1>4, HolderKeeps, HolderKnows DEF job, past, Looking, Fresh

\* A request that is answered has nothing left to answer for, whatever became
\* of the directory.
LEMMA AnsweredKeeps ==
    ASSUME CreateInv, NEW h \in Requests, ~At(h, "idle"), Answer(h),
           tree' \in Tree \cup {Gone}, branch' \in BOOLEAN, branch /\ ~branch' => Undoers = {},
           bound' \in BOOLEAN, boundTree' \in Tree \cup {Gone}, BoundWasWhole',
           UNCHANGED <<state, checkout, orphans, made, destroyed, disturbed>>
    PROVE  CreateInv'
<1>1. /\ request' \in [Requests -> Request]
      /\ request'[h].at = "idle" /\ request'[h].maker = 0
      /\ \A g \in Requests : g # h => request'[g] = request[g]
  BY AnswerOnly DEF CreateInv
<1>2. CreateTypeOK' /\ RollbackRemovesOwn'
  BY <1>1 DEF CreateInv, CreateTypeOK, RollbackRemovesOwn
<1> QED
  BY <1>1, <1>2, HolderKeeps, HolderKnows DEF Making

\* git worktree add fails, the job is bound, the branch is deleted at the end of
\* a rollback, or the rollback fails.
LEMMA AnsweringKeeps ==
    ASSUME CreateInv, NEW h \in Requests,
           AddFails(h) \/ Bind(h) \/ DeleteBranch(h) \/ RollbackFails(h)
    PROVE  CreateInv'
<1>0. /\ CreateTypeOK /\ BoundWasWhole
      /\ bound \in BOOLEAN /\ branch \in BOOLEAN /\ disturbed \in BOOLEAN
      /\ tree \in Tree \cup {Gone} /\ boundTree \in Tree \cup {Gone}
  BY DEF CreateInv, CreateTypeOK
<1>1. ~At(h, "idle") /\ Answer(h)
  BY DEF AddFails, AfterAddFailed, Bind, DeleteBranch, RollbackFails, At
<1>2. CASE AddFails(h)
  <2>1. tree' \in Tree \cup {Gone}
    BY <1>0, <1>2 DEF AddFails
  <2> QED
    BY <1>0, <1>1, <1>2, <2>1, AnsweredKeeps DEF AddFails, job, past, BoundWasWhole
<1>3. CASE Bind(h)
  <2>1. ~disturbed => tree # Gone /\ tree.files = "whole"
    BY <1>3 DEF Bind, At, CreateInv, TrustedWhole
  <2>2. BoundWasWhole' /\ bound' \in BOOLEAN
    BY <1>3, <2>1 DEF Bind, BoundWasWhole
  <2> QED
    BY <1>0, <1>1, <1>3, <2>2, AnsweredKeeps DEF Bind, git
<1>4. CASE DeleteBranch(h)
  <2>1. Undoers = {}
    BY <1>4 DEF DeleteBranch, At, CreateInv, UndoneAlone, MakersNumbered, Making
  <2> QED
    BY <1>0, <1>1, <1>4, <2>1, AnsweredKeeps DEF DeleteBranch, job, past, BoundWasWhole
<1>5. CASE RollbackFails(h)
  <2>1. tree' \in Tree \cup {Gone}
    BY <1>0, <1>5 DEF RollbackFails, Linked, Tree
  <2> QED
    BY <1>0, <1>1, <1>5, <2>1, AnsweredKeeps DEF RollbackFails, job, past, BoundWasWhole
<1> QED
  BY <1>2, <1>3, <1>4, <1>5

\* A rollback removes the directory.
LEMMA RemoveTreeKeeps ==
    ASSUME CreateInv, NEW h \in Requests, RemoveTree(h)
    PROVE  CreateInv'
<1>0. /\ CreateTypeOK /\ request[h] \in Request /\ ~At(h, "idle") /\ Fresh(h) /\ At(h, "remove")
      /\ UNCHANGED <<job, branch, checkout, orphans, made, boundTree, disturbed>>
      /\ tree' = Gone
      /\ destroyed \in SUBSET [maker: Nat, by: Nat, bound: BOOLEAN]
  BY DEF CreateInv, CreateTypeOK, RemoveTree, At, MakersNumbered, Making
<1>1. ~bound /\ branch /\ tree \in Tree /\ tree.maker = request[h].maker /\ Undoers = {}
  BY <1>0, HolderKnows DEF At
<1> DEFINE d == [maker |-> tree.maker, by |-> request[h].maker, bound |-> bound]
<1>2. /\ destroyed' = destroyed \cup {d}
      /\ d \in [maker: Nat, by: Nat, bound: BOOLEAN] /\ d.maker = d.by /\ ~d.bound
  BY <1>0, <1>1 DEF RemoveTree, Tree, CreateTypeOK
<1> HIDE DEF d
<1>3. /\ request' \in [Requests -> Request]
      /\ request'[h].at = "delete" /\ request'[h].maker = request[h].maker
      /\ \A g \in Requests : g # h => request'[g] = request[g]
  BY <1>0, GoesOnly DEF RemoveTree, Making
<1>4. CreateTypeOK'
  BY <1>0, <1>2, <1>3 DEF CreateTypeOK, job
<1>5. BoundWasWhole'
  BY <1>0 DEF CreateInv, BoundWasWhole, job
<1>6. RollbackRemovesOwn'
  BY <1>2 DEF CreateInv, RollbackRemovesOwn
<1> QED
  BY <1>0, <1>1, <1>3, <1>4, <1>5, <1>6, HolderKeeps, HolderKnows DEF job, Looking, Fresh

\* Every step of a request keeps the invariant.
LEMMA RequestKeeps ==
    ASSUME CreateInv, NEW h \in Requests, Step(h)
    PROVE  CreateInv'
BY LookingKeeps, SeeCheckoutKeeps, AddTreeKeeps, AddSucceedsKeeps, AnsweringKeeps,
   RemoveTreeKeeps, Zenon DEF Step

-----------------------------------------------------------------------------
(* Worktree creation: its environment.                                     *)

\* While every request stands still, what others do keeps the invariant if it
\* respects the directory in use.
LEMMA OthersKeep ==
    ASSUME CreateInv, CreateTypeOK', BoundWasWhole', RollbackRemovesOwn', UNCHANGED <<bound, request>>,
           Undoers' \subseteq Undoers, Undoers' # {} => branch',
           \A h \in Requests : Fresh(h) /\ ~At(h, "add") =>
               /\ branch'
               /\ ~At(h, "delete") => tree' # Gone /\ tree'.maker = request[h].maker,
           Trusted /\ ~disturbed' => ~disturbed /\ tree' = tree
    PROVE  CreateInv'
<1>1. OneAtATime' /\ MakersNumbered'
  BY DEF CreateInv, OneAtATime, MakersNumbered, At, Fresh
<1>2. UndoneAlone'
  BY DEF CreateInv, UndoneAlone, At, Fresh
<1>3. OwnTree'
  BY DEF OwnTree, At, Fresh
<1>4. TrustedWhole'
  BY DEF CreateInv, TrustedWhole, Trusted, At
<1> QED
  BY <1>1, <1>2, <1>3, <1>4 DEF CreateInv

\* Somebody writes the directory, works in the checkout, or clears away what no
\* request is using.
LEMMA PeopleKeep ==
    ASSUME CreateInv, Write \/ TidyUp \/ UseCheckout
    PROVE  CreateInv'
<1>0. /\ CreateTypeOK /\ tree \in Tree \cup {Gone} /\ disturbed \in BOOLEAN /\ branch \in BOOLEAN
      /\ UndoneAlone /\ OwnTree /\ BoundWasWhole
      /\ bound \in BOOLEAN /\ boundTree \in Tree \cup {Gone}
  BY DEF CreateInv, CreateTypeOK
<1>1. CASE Write
  <2>1. /\ tree' \in Tree /\ tree' # Gone
        /\ tree # Gone => tree'.maker = tree.maker
    BY <1>0, <1>1, CreateAssumption DEF Write, Tree
  <2>2. /\ UNCHANGED <<state, bound, branch, checkout, request, orphans, made, boundTree, destroyed>>
        /\ disturbed' = (disturbed \/ Trusted)
    BY <1>1 DEF Write, job
  <2>3. disturbed' \in BOOLEAN /\ (~disturbed' => ~disturbed /\ ~Trusted)
    BY <1>0, <2>2, Zenon DEF Trusted
  <2>4. CreateTypeOK' /\ BoundWasWhole' /\ RollbackRemovesOwn'
    BY <1>0, <2>1, <2>2, <2>3 DEF CreateInv, CreateTypeOK, BoundWasWhole, RollbackRemovesOwn
  <2>5. Undoers' = Undoers
    BY <2>2 DEF Undoers
  <2> QED
    BY <1>0, <2>1, <2>2, <2>3, <2>4, <2>5, OthersKeep DEF UndoneAlone, OwnTree
<1>2. CASE TidyUp
  <2>1. /\ ~bound /\ \A h \in Requests : At(h, "idle")
        /\ Undoers = {} /\ tree' = Gone /\ branch' = FALSE
        /\ UNCHANGED <<state, bound, checkout, request, orphans, made, boundTree, destroyed, disturbed>>
    BY <1>2 DEF TidyUp, job, past, Undoers
  <2>2. CreateTypeOK' /\ BoundWasWhole' /\ RollbackRemovesOwn'
    BY <1>0, <2>1 DEF CreateInv, CreateTypeOK, BoundWasWhole, RollbackRemovesOwn
  <2>3. \A h \in Requests : ~Fresh(h)
    BY <2>1 DEF CreateInv, MakersNumbered, At
  <2>4. Undoers' = {} /\ ~Trusted
    BY <2>1 DEF Undoers, Trusted, At
  <2> QED
    BY <2>1, <2>2, <2>3, <2>4, OthersKeep
<1>3. CASE UseCheckout
  <2>1. /\ checkout' \in Checkouts
        /\ UNCHANGED <<state, bound, tree, branch, request, orphans, made, boundTree, destroyed,
                       disturbed>>
    BY <1>3 DEF UseCheckout, job, past
  <2>2. CreateTypeOK' /\ BoundWasWhole' /\ RollbackRemovesOwn'
    BY <1>0, <2>1 DEF CreateInv, CreateTypeOK, BoundWasWhole, RollbackRemovesOwn
  <2>3. Undoers' = Undoers
    BY <2>1 DEF Undoers
  <2> QED
    BY <1>0, <2>1, <2>2, <2>3, OthersKeep DEF UndoneAlone, OwnTree
<1> QED
  BY <1>1, <1>2, <1>3

\* A git process that outlived its backend ends.  A rollback among them has the
\* directory and the branch to itself.
LEMMA OrphanEndsKeeps ==
    ASSUME CreateInv, NEW o \in orphans, OrphanEnds(o)
    PROVE  CreateInv'
<1>0. /\ CreateTypeOK /\ tree \in Tree \cup {Gone} /\ disturbed \in BOOLEAN /\ branch \in BOOLEAN
      /\ UndoneAlone /\ OwnTree /\ BoundWasWhole
      /\ bound \in BOOLEAN /\ boundTree \in Tree \cup {Gone} /\ o \in Process
  BY DEF CreateInv, CreateTypeOK
<1>1. /\ orphans' = orphans \ {o}
      /\ UNCHANGED <<state, bound, checkout, request, made, boundTree, destroyed>>
      /\ disturbed' = (disturbed \/ (Trusted /\ <<tree', branch'>> # <<tree, branch>>))
  BY DEF OrphanEnds, job
<1>2. /\ disturbed' \in BOOLEAN
      /\ Trusted /\ ~disturbed' => ~disturbed /\ tree' = tree
  BY <1>0, <1>1, Zenon DEF Trusted
<1>3. Undoers' \subseteq Undoers /\ (o \in Undoers => Undoers' = {})
  BY <1>0, <1>1 DEF Undoers, UndoneAlone
<1>4. ASSUME tree' \in Tree \cup {Gone}, branch' \in BOOLEAN, Undoers' # {} => branch',
             \A h \in Requests : Fresh(h) /\ ~At(h, "add") =>
                 /\ branch'
                 /\ ~At(h, "delete") => tree' # Gone /\ tree'.maker = request[h].maker
      PROVE  CreateInv'
  <2>1. CreateTypeOK' /\ BoundWasWhole' /\ RollbackRemovesOwn'
    BY <1>0, <1>1, <1>2, <1>4 DEF CreateInv, CreateTypeOK, BoundWasWhole, RollbackRemovesOwn
  <2> QED
    BY <1>1, <1>2, <1>3, <1>4, <2>1, OthersKeep
<1>5. CASE UNCHANGED <<tree, branch>>
  BY <1>0, <1>3, <1>4, <1>5 DEF UndoneAlone, OwnTree
<1>6. CASE o.at = "adding" /\ AddEnds(o.maker)
  <2>1. /\ branch' = branch /\ tree \in Tree
        /\ tree' = [maker |-> o.maker, files |-> IF tree.files = "partial" THEN "whole" ELSE tree.files]
        /\ tree.maker = o.maker
    BY <1>0, <1>6 DEF AddEnds
  <2>2. tree' \in Tree /\ tree' # Gone /\ tree'.maker = tree.maker
    BY <2>1, CreateAssumption DEF Tree
  <2> QED
    BY <1>0, <1>3, <1>4, <2>1, <2>2 DEF UndoneAlone, OwnTree
<1>7. ASSUME o \in Undoers, tree' \in Tree \cup {Gone}, branch' \in BOOLEAN PROVE CreateInv'
  <2>1. \A h \in Requests : ~Fresh(h)
    BY <1>0, <1>7 DEF UndoneAlone
  <2> QED
    BY <1>3, <1>4, <1>7, <2>1
<1>8. CASE o.at = "remove" /\ Linked /\ tree' \in {Gone, [tree EXCEPT !.files = "partial"]} /\ UNCHANGED branch
  <2>1. tree' \in Tree \cup {Gone} /\ branch' \in BOOLEAN /\ o \in Undoers
    BY <1>0, <1>8 DEF Linked, Tree, Undoers
  <2> QED
    BY <1>7, <2>1
<1>9. CASE o.at = "delete" /\ branch' = FALSE /\ UNCHANGED tree
  <2>1. tree' \in Tree \cup {Gone} /\ branch' \in BOOLEAN /\ o \in Undoers
    BY <1>0, <1>9 DEF Undoers
  <2> QED
    BY <1>7, <2>1
<1> QED
  BY <1>5, <1>6, <1>8, <1>9, Zenon DEF OrphanEnds

\* A git process that outlived its backend only now makes the directory, which
\* no request has one of.
LEMMA OrphanAddsKeeps ==
    ASSUME CreateInv, NEW o \in orphans, OrphanAdds(o)
    PROVE  CreateInv'
<1> DEFINE a == [o EXCEPT !.at = "adding"]
<1>0. /\ CreateTypeOK /\ tree = Gone /\ branch = FALSE
      /\ UndoneAlone /\ OwnTree /\ BoundWasWhole /\ TrustedWhole
      /\ bound \in BOOLEAN /\ boundTree \in Tree \cup {Gone} /\ o \in Process
      /\ orphans \subseteq Process /\ o.at = "add"
  BY DEF CreateInv, CreateTypeOK, OrphanAdds, AddBegins
<1>1. a \in Process /\ a.at = "adding"
  BY <1>0 DEF Process
<1>2. /\ orphans' = (orphans \ {o}) \cup {a}
      /\ UNCHANGED <<state, bound, checkout, request, made, boundTree, destroyed, disturbed>>
      /\ tree' = [maker |-> o.maker, files |-> "partial"] /\ branch' = TRUE
  BY DEF OrphanAdds, AddBegins, job, past
<1>3. tree' \in Tree
  BY <1>0, <1>2 DEF Tree, Process
<1> HIDE DEF a
<1>4. CreateTypeOK' /\ BoundWasWhole' /\ RollbackRemovesOwn'
  BY <1>0, <1>1, <1>2, <1>3 DEF CreateInv, CreateTypeOK, BoundWasWhole, RollbackRemovesOwn
<1>5. Undoers' \subseteq Undoers
  BY <1>0, <1>1, <1>2 DEF Undoers
<1>6. \A h \in Requests : Fresh(h) => At(h, "add")
  BY <1>0 DEF OwnTree
<1>7. Trusted => disturbed
  <2>1. ASSUME NEW h \in Requests, ~disturbed
        PROVE  request[h].at \notin {"adding", "verify", "compare", "bind"}
    BY <1>0, <2>1 DEF TrustedWhole, At
  <2> QED
    BY <2>1 DEF Trusted
<1> QED
  BY <1>2, <1>4, <1>5, <1>6, <1>7, OthersKeep

\* The backend dies and leaves the git process of its one request behind.
LEMMA DieKeeps ==
    ASSUME CreateInv, Die
    PROVE  CreateInv'
<1> DEFINE Left == {i \in Requests : request[i].at \in {"add", "adding", "remove", "delete"}}
           left(h) == [at |-> request[h].at, maker |-> request[h].maker]
<1>0. /\ CreateTypeOK /\ UndoneAlone /\ OwnTree /\ OneAtATime /\ MakersNumbered
      /\ request \in [Requests -> Request] /\ orphans \subseteq Process
  BY DEF CreateInv, CreateTypeOK
<1>1. /\ orphans' = orphans \cup {left(h) : h \in Left}
      /\ UNCHANGED <<job, git, made, past>>
      /\ request' = [h \in Requests |-> Idle]
  BY DEF Die
<1>2. \A h \in Requests : request'[h] = Idle
  BY <1>1
<1>3. \A h \in Left : left(h) \in Process
  BY <1>0 DEF Process, Request
<1>4. CreateTypeOK' /\ BoundWasWhole' /\ RollbackRemovesOwn'
  BY <1>0, <1>1, <1>3, IdleValues DEF CreateInv, CreateTypeOK, BoundWasWhole, RollbackRemovesOwn,
                                      job, git, past
<1>5. OneAtATime' /\ MakersNumbered' /\ OwnTree' /\ TrustedWhole'
  BY <1>2, IdleValues DEF OneAtATime, MakersNumbered, OwnTree, TrustedWhole, At, Fresh, Making
<1>6. UndoneAlone'
  <2>1. ASSUME NEW h \in Left, left(h).at \in {"remove", "delete"}
        PROVE  Undoers = {} /\ branch /\ Left = {h}
    BY <1>0, <2>1 DEF UndoneAlone, OwnTree, OneAtATime, MakersNumbered, At, Making
  <2>2. \A u \in Undoers' : u \in Undoers \/ \E h \in Left : u = left(h) /\ left(h).at \in {"remove", "delete"}
    BY <1>1 DEF Undoers
  <2>3. (\A o, u \in Undoers : o = u)' /\ (Undoers # {} => branch)'
    <3>1. CASE \E h \in Left : left(h).at \in {"remove", "delete"}
      <4>1. PICK h \in Left : left(h).at \in {"remove", "delete"}
        BY <3>1
      <4>2. \A u \in Undoers' : u = left(h)
        BY <2>1, <2>2, <4>1
      <4> QED
        BY <1>1, <2>1, <4>1, <4>2 DEF git
    <3>2. CASE ~\E h \in Left : left(h).at \in {"remove", "delete"}
      <4>1. Undoers' \subseteq Undoers
        BY <2>2, <3>2
      <4> QED
        BY <1>0, <1>1, <4>1 DEF UndoneAlone, git
    <3> QED
      BY <3>1, <3>2
  <2> QED
    BY <1>2, <2>3, IdleValues DEF UndoneAlone, At, Fresh
<1> QED
  BY <1>4, <1>5, <1>6 DEF CreateInv

\* What git, people and a crash do keeps the invariant.
LEMMA EnvironmentKeeps ==
    ASSUME CreateInv, Environment
    PROVE  CreateInv'
BY DieKeeps, OrphanEndsKeeps, OrphanAddsKeeps, PeopleKeep DEF Environment

\* Creation starts in its invariant.
LEMMA CreateStarts == CreateInit => CreateInv
<1> SUFFICES ASSUME CreateInit PROVE CreateInv
  OBVIOUS
<1>7. request \in [Requests -> Request]
  BY IdleValues DEF CreateInit
<1>8. state \in JobState /\ made \in 0..MaxMade
  BY CreateAssumption DEF CreateInit, JobState
<1>1. CreateTypeOK
  BY <1>7, <1>8 DEF CreateInit, CreateTypeOK
<1>2. \A h \in Requests : request[h] = Idle
  BY DEF CreateInit
<1>3. OneAtATime /\ MakersNumbered /\ OwnTree /\ TrustedWhole
  BY <1>2, IdleValues DEF OneAtATime, MakersNumbered, OwnTree, TrustedWhole, At, Fresh, Making
<1>4. Undoers = {}
  BY DEF CreateInit, Undoers
<1>5. UndoneAlone
  BY <1>4 DEF UndoneAlone
<1>6. BoundWasWhole /\ RollbackRemovesOwn
  BY DEF CreateInit, BoundWasWhole, RollbackRemovesOwn
<1> QED
  BY <1>1, <1>3, <1>5, <1>6 DEF CreateInv

\* Creation does not depend on where the job is, only on whether it is bound.
LEMMA JobMoves ==
    ASSUME CreateInv, state' \in JobState, bound' \in BOOLEAN, bound' => bound,
           UNCHANGED <<git, request, orphans, made, past>>
    PROVE  CreateInv'
<1>1. CreateTypeOK' /\ BoundWasWhole' /\ RollbackRemovesOwn'
  BY DEF CreateInv, CreateTypeOK, BoundWasWhole, RollbackRemovesOwn, git, past
<1>2. OneAtATime' /\ MakersNumbered' /\ OwnTree' /\ TrustedWhole'
  BY DEF CreateInv, OneAtATime, MakersNumbered, OwnTree, TrustedWhole, At, Fresh, git, past
<1>3. UndoneAlone'
  BY DEF CreateInv, UndoneAlone, Undoers, At, Fresh, git
<1> QED
  BY <1>1, <1>2, <1>3 DEF CreateInv

-----------------------------------------------------------------------------
(* Planning.                                                               *)

\* The places of the states of a job that is planned.
LEMMA Places ==
    /\ Place("created") = 1 /\ Place("classified") = 2 /\ Place("planning") = 3
    /\ Place("queued") = 4 /\ Place("running") = 5
<1>1. \A i \in 1..5 : i = 1 \/ i = 2 \/ i = 3 \/ i = 4 \/ i = 5
  OBVIOUS
<1>2. /\ Course[1] = "created" /\ Course[2] = "classified" /\ Course[3] = "planning"
      /\ Course[4] = "queued" /\ Course[5] = "running"
  BY DEF Course
<1>3. ASSUME NEW n \in 1..5 PROVE Place(Course[n]) = n
  <2>1. \A i \in 1..5 : Course[i] = Course[n] => i = n
    BY <1>1, <1>2
  <2> QED
    BY <2>1 DEF Place
<1> QED
  BY <1>2, <1>3

\* What a planning request about to advance a job moves it to is the next stage
\* after the one it has seen.
LEMMA Targets ==
    ASSUME NEW p \in Planners, planner[p].seen \in {"created", "classified", "planning"}
    PROVE  /\ Target(p) \in Stages
           /\ Place(Target(p)) = Place(planner[p].seen) + 1
<1>1. /\ Course[2] = "classified" /\ Course[3] = "planning" /\ Course[4] = "queued"
  BY DEF Course
<1> QED
  BY <1>1, Places DEF Target, Stages

\* A planning request that reads, waits or ends changes its own record only.
LEMMA PlanningKeeps ==
    ASSUME StartInv, NEW p \in Planners,
           BeginPlan(p) \/ LoadPlanned(p) \/ FindStart(p) \/ EndPlan(p)
    PROVE  StartInv'
<1>0. /\ TypeOK /\ CreateInv /\ SeenPassed /\ BoundAfterPlanning /\ PlannedOnce
      /\ planner[p] \in Planner /\ planner \in [Planners -> Planner] /\ state \in JobState
      /\ UNCHANGED <<createVars, plan>>
  BY DEF StartInv, TypeOK, CreateTypeOK, BeginPlan, LoadPlanned, FindStart, EndPlan
<1>1. UNCHANGED <<state, bound, git, request, orphans, made, past, boundTree>>
  BY <1>0 DEF createVars, job, past
<1>2. CreateInv'
  BY <1>0, <1>1, JobMoves DEF CreateInv, CreateTypeOK
<1>3. BoundAfterPlanning' /\ PlannedOnce'
  BY <1>0, <1>1 DEF BoundAfterPlanning, PlannedOnce, WorktreeMissing
<1>4. ASSUME NEW r \in Planner, planner' = [planner EXCEPT ![p] = r],
             r.at \in {"demo", "advance"} =>
                 /\ r.seen \in {"created", "classified", "planning"}
                 /\ Place(r.seen) <= Place(state),
             r.at = "demo" => r.seen = "planning"
      PROVE  StartInv'
  <2>1. /\ planner' \in [Planners -> Planner]
        /\ planner'[p] = r
        /\ \A q \in Planners : q # p => planner'[q] = planner[q]
    BY <1>0, <1>4
  <2>2. TypeOK'
    BY <1>0, <1>2, <2>1 DEF TypeOK, CreateInv
  <2>3. SeenPassed'
    BY <1>0, <1>1, <1>4, <2>1 DEF SeenPassed
  <2> QED
    BY <1>2, <1>3, <2>2, <2>3 DEF StartInv
<1>5. CASE BeginPlan(p)
  <2> DEFINE r == [planner[p] EXCEPT !.at = "load"]
  <2>1. r \in Planner /\ r.at = "load"
    BY <1>0 DEF Planner
  <2> QED
    BY <1>4, <1>5, <2>1 DEF BeginPlan, Moves
<1>6. CASE LoadPlanned(p)
  <2> DEFINE r == [at |-> NextPlace, seen |-> state, tries |-> planner[p].tries + 1]
  <2>1. state \in Stages \cup {"created"} /\ planner[p].tries + 1 \in 0..Tries
    BY <1>0, <1>6, StartAssumption DEF LoadPlanned, Planner
  <2>2. /\ NextPlace \in {"demo", "advance", "read"}
        /\ NextPlace = "demo" => state = "planning"
        /\ NextPlace = "advance" => state \in {"created", "classified"}
    BY <2>1 DEF NextPlace, Stages
  <2>3. r \in Planner
    BY <1>0, <2>1, <2>2 DEF Planner
  <2>4. Place(state) <= Place(state)
    BY <2>1, Places DEF Stages
  <2>5. planner' = [planner EXCEPT ![p] = r]
    BY <1>6 DEF LoadPlanned
  <2> QED
    BY <1>4, <2>2, <2>3, <2>4, <2>5
<1>7. CASE FindStart(p)
  <2> DEFINE r == [planner[p] EXCEPT !.at = "advance"]
  <2>1. r \in Planner /\ r.at = "advance" /\ r.seen = planner[p].seen
    BY <1>0 DEF Planner
  <2>2. /\ planner[p].seen \in {"created", "classified", "planning"}
        /\ Place(planner[p].seen) <= Place(state)
    BY <1>0, <1>7 DEF SeenPassed, FindStart
  <2> QED
    BY <1>4, <1>7, <2>1, <2>2 DEF FindStart, Moves
<1>8. CASE EndPlan(p)
  <2>1. Resting \in Planner /\ Resting.at = "idle"
    BY StartAssumption DEF Resting, Planner, JobState
  <2> QED
    BY <1>4, <1>8, <2>1 DEF EndPlan, Rests
<1> QED
  BY <1>5, <1>6, <1>7, <1>8

\* A planning request advances the job: the stage it records was the next one,
\* and the worktree its record of the job leaves out was not there.
LEMMA AdvanceKeeps ==
    ASSUME StartInv, NEW p \in Planners, AdvanceJob(p)
    PROVE  StartInv'
<1> DEFINE t == Target(p)
           r == [planner[p] EXCEPT !.at = "load"]
<1>0. /\ TypeOK /\ CreateInv /\ SeenPassed /\ BoundAfterPlanning /\ PlannedOnce
      /\ planner[p] \in Planner /\ planner \in [Planners -> Planner] /\ plan \in [Stages -> Nat]
      /\ state \in JobState /\ bound \in BOOLEAN
      /\ UNCHANGED <<git, request, orphans, made, past, boundTree>>
  BY DEF StartInv, TypeOK, CreateTypeOK, AdvanceJob, past
<1>1. /\ planner[p].seen \in {"created", "classified", "planning"}
      /\ Place(planner[p].seen) <= Place(state)
  BY <1>0 DEF SeenPassed, AdvanceJob
<1>2. t \in Stages /\ Place(t) = Place(planner[p].seen) + 1
  BY <1>1, Targets
<1>3. r \in Planner /\ r.at = "load"
  BY <1>0 DEF Planner
<1>4. /\ planner' \in [Planners -> Planner]
      /\ planner'[p] = r
      /\ \A q \in Planners : q # p => planner'[q] = planner[q]
  BY <1>0, <1>3 DEF AdvanceJob, Moves
<1> HIDE DEF r, t
<1>5. \/ /\ plan[t] = 0 /\ state' = t /\ bound' = FALSE
         /\ plan' = [plan EXCEPT ![t] = plan[t] + 1]
      \/ UNCHANGED <<state, bound, plan>>
  BY DEF AdvanceJob, Admits, t
<1>6. CASE UNCHANGED <<state, bound, plan>>
  <2>1. CreateInv'
    BY <1>0, <1>6, JobMoves
  <2>2. TypeOK'
    BY <1>0, <1>4, <1>6, <2>1 DEF TypeOK, CreateInv
  <2>3. SeenPassed' /\ BoundAfterPlanning' /\ PlannedOnce'
    BY <1>0, <1>3, <1>4, <1>6 DEF SeenPassed, BoundAfterPlanning, PlannedOnce, WorktreeMissing
  <2> QED
    BY <2>1, <2>2, <2>3 DEF StartInv
<1>7. CASE /\ plan[t] = 0 /\ state' = t /\ bound' = FALSE
           /\ plan' = [plan EXCEPT ![t] = plan[t] + 1]
  <2>1. Place(state) < Place(t)
    BY <1>0, <1>2, <1>7, Places DEF PlannedOnce, BoundAfterPlanning, Stages
  <2>2. Place(state) = Place(planner[p].seen) /\ state = planner[p].seen
    BY <1>0, <1>1, <1>2, <2>1, Places DEF BoundAfterPlanning, Stages
  <2>3. bound = FALSE /\ boundTree = Gone
    BY <1>0, <1>1, <2>2 DEF BoundAfterPlanning, PlannedOnce
  <2>4. CreateInv' /\ state' \in JobState
    BY <1>0, <1>2, <1>7, JobMoves DEF Stages, JobState
  <2>5. /\ plan' \in [Stages -> Nat]
        /\ \A s \in Stages : plan'[s] = IF s = t THEN 1 ELSE plan[s]
    BY <1>0, <1>2, <1>7
  <2>6. TypeOK'
    BY <1>4, <2>4, <2>5 DEF TypeOK, CreateInv
  <2>7. SeenPassed'
    <3>1. Place(state) <= Place(state')
      BY <1>0, <1>2, <1>7, <2>1, Places DEF BoundAfterPlanning, Stages
    <3>2. \A q \in Planners : planner[q].at \in {"demo", "advance"} => Place(planner[q].seen) <= Place(state')
      BY <1>0, <1>2, <1>7, <3>1, Places DEF SeenPassed, BoundAfterPlanning, Stages
    <3> QED
      BY <1>0, <1>3, <1>4, <3>2 DEF SeenPassed
  <2>8. BoundAfterPlanning'
    BY <1>2, <1>7 DEF BoundAfterPlanning
  <2>9. PlannedOnce'
    <3>1. \A s \in Stages : plan'[s] = IF Place(state') >= Place(s) THEN 1 ELSE 0
      BY <1>0, <1>1, <1>2, <1>7, <2>2, <2>5, Places DEF PlannedOnce, Stages
    <3>2. ~WorktreeMissing'
      BY <1>2, <1>7 DEF WorktreeMissing, Stages
    <3> QED
      BY <1>0, <2>3, <3>1, <3>2 DEF PlannedOnce
  <2> QED
    BY <2>4, <2>6, <2>7, <2>8, <2>9 DEF StartInv
<1> QED
  BY <1>5, <1>6, <1>7

-----------------------------------------------------------------------------
(* The job on its way.                                                     *)

\* A step that leaves the state of the job and its planning alone, and binds the
\* job only when it is queued.
LEMMA BindingKeeps ==
    ASSUME StartInv, CreateInv', UNCHANGED <<state, plan, planner>>,
           \/ UNCHANGED <<bound, boundTree>>
           \/ state = "queued" /\ bound' = TRUE
    PROVE  StartInv'
<1>1. TypeOK'
  BY DEF StartInv, TypeOK, CreateInv
<1>2. SeenPassed'
  BY DEF StartInv, SeenPassed
<1>3. BoundAfterPlanning'
  BY DEF StartInv, BoundAfterPlanning
<1>4. PlannedOnce'
  BY DEF StartInv, PlannedOnce, WorktreeMissing
<1> QED
  BY <1>1, <1>2, <1>3, <1>4 DEF StartInv

\* A worktree request binds a queued job and does nothing else to it.
LEMMA StepsBind ==
    ASSUME NEW h \in Requests, Step(h)
    PROVE  /\ UNCHANGED state
           /\ \/ UNCHANGED <<bound, boundTree>>
              \/ state = "queued" /\ bound' = TRUE
<1>1. CASE BeginCreate(h) \/ LookAtTarget(h) \/ LookAtBranch(h) \/ VerifyLeftover(h) \/ SeeStatus(h)
           \/ SeeCheckout(h) \/ AddTree(h) \/ AddSucceeds(h) \/ AddFails(h)
  BY <1>1 DEF BeginCreate, LookAtTarget, LookAtBranch, VerifyLeftover, SeeStatus, SeeCheckout,
              AddTree, AddSucceeds, AddFails, job, past
<1>2. CASE VerifyNew(h) \/ CompareCheckout(h) \/ Bind(h) \/ Undo(h) \/ RemoveTree(h)
           \/ DeleteBranch(h) \/ RollbackFails(h) \/ Refuse(h)
  BY <1>2 DEF VerifyNew, CompareCheckout, Bind, Undo, RemoveTree, DeleteBranch, RollbackFails,
              Refuse, job, past
<1> QED
  BY <1>1, <1>2, Zenon DEF Step

\* Nobody else binds the job or moves it.
LEMMA EnvironmentBinds ==
    ASSUME Environment
    PROVE  UNCHANGED <<state, bound, boundTree>>
BY DEF Environment, Die, OrphanEnds, OrphanAdds, Write, TidyUp, UseCheckout, job, past

\* A queued job with a worktree is claimed.
LEMMA ClaimKeeps ==
    ASSUME StartInv, Claim
    PROVE  StartInv'
<1>0. /\ TypeOK /\ CreateInv /\ SeenPassed /\ BoundAfterPlanning /\ PlannedOnce
      /\ state = "queued" /\ bound /\ state' = "running" /\ bound \in BOOLEAN
      /\ UNCHANGED <<bound, git, request, orphans, made, past, boundTree, plan, planner>>
  BY DEF StartInv, TypeOK, CreateTypeOK, Claim, past
<1>1. CreateInv'
  BY <1>0, JobMoves DEF JobState
<1>2. TypeOK'
  BY <1>0, <1>1 DEF TypeOK, CreateInv
<1>3. SeenPassed'
  BY <1>0, Places DEF SeenPassed
<1>4. BoundAfterPlanning' /\ PlannedOnce'
  BY <1>0, Places DEF BoundAfterPlanning, PlannedOnce, WorktreeMissing, Stages
<1> QED
  BY <1>1, <1>2, <1>3, <1>4 DEF StartInv

\* The inductive invariant of planning and worktree creation: one request at a
\* time holds the job's lock and has the directory it made, a rollback left to
\* git has the names to itself, what a request trusts is whole unless somebody
\* else changed it, and a planning request never acts on a state the job has
\* not been in.
THEOREM StartSafe == Spec => []StartInv
<1>1. Init => StartInv
  <2> SUFFICES ASSUME Init PROVE StartInv
    OBVIOUS
  <2>1. CreateInv /\ state = "created" /\ bound = FALSE /\ boundTree = Gone
    BY CreateStarts DEF Init, CreateInit
  <2>2. /\ plan = [t \in Stages |-> 0] /\ planner = [p \in Planners |-> Resting]
        /\ Resting \in Planner /\ Resting.at = "idle"
    BY StartAssumption DEF Init, Resting, Planner, JobState
  <2>3. TypeOK
    BY <2>1, <2>2 DEF TypeOK, CreateInv
  <2>4. SeenPassed
    BY <2>2 DEF SeenPassed
  <2>5. BoundAfterPlanning /\ PlannedOnce
    BY <2>1, <2>2, Places DEF BoundAfterPlanning, PlannedOnce, WorktreeMissing, Stages
  <2> QED
    BY <2>1, <2>3, <2>4, <2>5 DEF StartInv
<1>2. StartInv /\ [Next]_vars => StartInv'
  <2> SUFFICES ASSUME StartInv, [Next]_vars PROVE StartInv'
    OBVIOUS
  <2>1. ASSUME NEW p \in Planners, Plan(p) PROVE StartInv'
    BY <2>1, PlanningKeeps, AdvanceKeeps DEF Plan
  <2>2. ASSUME NEW h \in Requests, Step(h), UNCHANGED <<plan, planner>> PROVE StartInv'
    BY <2>2, RequestKeeps, StepsBind, BindingKeeps DEF StartInv
  <2>3. CASE Environment /\ UNCHANGED <<plan, planner>>
    BY <2>3, EnvironmentKeeps, EnvironmentBinds, BindingKeeps DEF StartInv
  <2>4. CASE UNCHANGED vars
    <3>1. UNCHANGED <<state, bound, git, request, orphans, made, past, boundTree, plan, planner>>
      BY <2>4 DEF vars, createVars, job, past
    <3>2. CreateInv'
      BY <3>1, JobMoves DEF StartInv, CreateInv, CreateTypeOK
    <3> QED
      BY <3>1, <3>2, BindingKeeps
  <2> QED
    BY <2>1, <2>2, <2>3, <2>4, ClaimKeeps, Zenon DEF Next
<1> QED
  BY <1>1, <1>2, PTL DEF Spec

\* Each stage of planning is recorded once, by requests of any number of
\* backends that stop anywhere, and recovery never misses a worktree.
THEOREM StagesOnce == Spec => []PlannedOnce
<1>1. StartInv => PlannedOnce
  BY DEF StartInv
<1> QED
  BY <1>1, StartSafe, PTL

\* A job is bound to a whole directory unless somebody else changed it after the
\* last look.
THEOREM BoundWhole == Spec => []BoundWasWhole
<1>1. StartInv => BoundWasWhole
  BY DEF StartInv, CreateInv
<1> QED
  BY <1>1, StartSafe, PTL

\* A rollback removes the directory its own request made, never another's and
\* never one that the job is bound to, over crashes that leave git running.
THEOREM RemovesOwn == Spec => []RollbackRemovesOwn
<1>1. StartInv => RollbackRemovesOwn
  BY DEF StartInv, CreateInv
<1> QED
  BY <1>1, StartSafe, PTL

=============================================================================
