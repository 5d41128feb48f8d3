------------------------------- MODULE MCStack -------------------------------
EXTENDS Stack, TLC

CONSTANTS p1, p2, p3, p4, p5
MCPointers == {p1, p2, p3, p4, p5}
Symmetry == Permutations(MCPointers)
=============================================================================
