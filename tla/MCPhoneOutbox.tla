---------------------------- MODULE MCPhoneOutbox ---------------------------
EXTENDS PhoneOutbox, TLC

Symmetric == Permutations(Slots)

=============================================================================
