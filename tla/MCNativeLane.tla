---------------------------- MODULE MCNativeLane ----------------------------
(* Jobs of one project that froze the same profile: jobs and requests are  *)
(* interchangeable, which makes the symmetry reduction sound.              *)
EXTENDS NativeLane, TLC

CONSTANTS p1, a1

MCProfileOf == [j \in Jobs |-> a1]
MCProjectOf == [j \in Jobs |-> p1]
Symmetric   == Permutations(Jobs) \cup Permutations(Handlers)

=============================================================================
