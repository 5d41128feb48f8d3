CONSTANTS
  p1 = p1
  p2 = p2
  p3 = p3
  p4 = p4
  p5 = p5
  p6 = p6
  Pointers <- MCPointers
  Capacity = 3
  MaxFaults = 2
SYMMETRY Symmetry
SPECIFICATION USpec
INVARIANTS KeysAreIndexes NeverOutOfSync OrphansAreCounted
