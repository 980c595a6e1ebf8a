--------------------------- MODULE MCRetainedTree ---------------------------
(* A tracked and an untracked file, so that a git command that sees one    *)
(* state of the files of its kind is no restriction.  Requests are         *)
(* interchangeable.                                                        *)
EXTENDS RetainedTree, TLC

CONSTANTS x, y

MCBaseOf   == 1 :> x @@ 2 :> Absent
MCRejected == 1 :> y @@ 2 :> Absent
Symmetric  == Permutations(Requests)

=============================================================================
