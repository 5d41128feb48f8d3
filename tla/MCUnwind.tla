------------------------------ MODULE MCUnwind ------------------------------
EXTENDS Unwind, TLC

CONSTANTS p1, p2, p3, p4, p5, p6
MCPointers == {p1, p2, p3, p4, p5, p6}
Symmetry == Permutations(MCPointers)
=============================================================================
