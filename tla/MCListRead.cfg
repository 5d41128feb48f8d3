CONSTANTS
  p1 = p1
  p2 = p2
  p3 = p3
  p4 = p4
  Pointers <- MCPointers
  Capacity = 2
  MaxGeneration = 9
  None = None
SPECIFICATION Spec
INVARIANT TailIsThere
