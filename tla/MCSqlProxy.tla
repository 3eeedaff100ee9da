----------------------------- MODULE MCSqlProxy -----------------------------
EXTENDS SessionInv, TLC

CONSTANTS k1, k2

SessionSymmetry == Permutations({k1, k2})

=============================================================================
