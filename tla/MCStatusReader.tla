--------------------------- MODULE MCStatusReader ---------------------------
(* Two commands of the owner and one update that is none.                  *)
EXTENDS StatusReader, TLC

Symmetric == Permutations(Scopes)

=============================================================================
