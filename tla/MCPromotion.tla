---------------------------- MODULE MCPromotion -----------------------------
(* Two jobs whose reviews froze different contents; requests are           *)
(* interchangeable.                                                        *)
EXTENDS Promotion, TLC

CONSTANTS j1, j2, a, b

MCApprovedOf == j1 :> a @@ j2 :> b
Symmetric    == Permutations(Requests)

=============================================================================
