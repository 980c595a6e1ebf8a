---------------------------- MODULE MCJobStart ------------------------------
EXTENDS JobStart, TLC

Symmetric ==
    Permutations(Requests) \cup Permutations(Checkouts) \cup Permutations(Planners)

=============================================================================
