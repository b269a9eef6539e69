--------------------------- MODULE MCPhoneSession ---------------------------
EXTENDS PhoneSession, TLC

CONSTANTS a1, a2

MCAccounts == {a1, a2}
Symmetric == Permutations(MCAccounts)
=============================================================================
