CONSTANTS
  p1 = p1
  p2 = p2
  p3 = p3
  p4 = p4
  r1 = r1
  r2 = r2
  Pointers <- MCPointers
  Readers <- MCReaders
  Capacity = 3
  Draws = 2
  MaxClock = 3
SYMMETRY Symmetry
SPECIFICATION LSpec
INVARIANTS LTypeOK KeysAreIndexes StampsFollowReads
PROPERTY ImplementsLayer
