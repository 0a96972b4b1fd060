--------------------------- MODULE MCWorkCapacity ---------------------------
EXTENDS WorkCapacity, TLC

CONSTANTS k1, k2, d1, c1, c2, w1, w2

ProcessSymmetry == Permutations(Callers) \cup Permutations(Workers)
=============================================================================
