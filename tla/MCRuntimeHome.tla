--------------------------- MODULE MCRuntimeHome ----------------------------
(* Two releases of the program, the backup command of the first of them,   *)
(* and two settings pages of one backend.  A missing configuration reads   *)
(* like one of version one, so it is left out.                             *)
EXTENDS RuntimeHome, TLC

CONSTANTS old, new, cli, c1, c2, m1

MCRelease  == old :> 1 @@ new :> 2 @@ cli :> 1
MCSourceOf == m1 :> c1
MCServedBy == [a \in Adders |-> new]
MCHandMade == {Broken} \cup [version: {1, 2}, entries: {{}}]
Symmetric  == Permutations(Adders)

=============================================================================
