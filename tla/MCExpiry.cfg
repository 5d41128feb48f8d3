CONSTANTS
  p1 = p1
  p2 = p2
  r1 = r1
  r2 = r2
  None = None
  Pointers <- MCPointers
  Readers <- MCReaders
  Ends <- MCEnds
  Start = 1
  MaxClock = 5
  Limit = 8
SYMMETRY Symmetry
SPECIFICATION Spec
INVARIANTS TypeOK DeadlinesExact VerdictsRight CondemnedHaveATaker
