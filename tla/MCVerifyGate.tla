---------------------------- MODULE MCVerifyGate ----------------------------
(* Requests and commands are interchangeable.  The contents are not: a and *)
(* b are clean, s carries a secret and e is an empty diff.                 *)
EXTENDS VerifyGate, TLC

Symmetric == Permutations(Requests) \cup Permutations(Commands)

=============================================================================
