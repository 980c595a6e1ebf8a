---------------------------- MODULE MCReviewFlow ----------------------------
(* Commands and requests are interchangeable; contents are not.            *)
EXTENDS ReviewFlow, TLC

Symmetric == Permutations(Commands) \cup Permutations(Reviewers)

=============================================================================
