------------------------------ MODULE MCExpiry ------------------------------
EXTENDS Expiry, TLC

CONSTANTS p1, p2, r1, r2
MCPointers == {p1, p2}
MCReaders == {r1, r2}
MCEnds == {-1, 1, 3}
Symmetry == Permutations(MCPointers) \cup Permutations(MCReaders)
=============================================================================
