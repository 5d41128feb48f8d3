----------------------------- MODULE MCLeastOfN -----------------------------
EXTENDS LeastOfN, TLC

CONSTANTS p1, p2, p3, p4, r1, r2
MCPointers == {p1, p2, p3, p4}
MCReaders == {r1, r2}
Symmetry == Permutations(MCPointers) \cup Permutations(MCReaders)
=============================================================================
