--------------------------- MODULE MCPhoneControl ---------------------------
EXTENDS PhoneControl, TLC

Symmetric == Permutations(Handlers)

=============================================================================
