CONSTANTS
  p1 = p1
  p2 = p2
  p3 = p3
  p4 = p4
  p5 = p5
  None = None
  Pointers <- MCPointers
  Capacity = 2
  CapacityOuter = 3
SYMMETRY Symmetry
SPECIFICATION SSpec
INVARIANTS SharedOut OuterAgrees KeptWithin ExpiredNeverServed ReadersAreTold
PROPERTY EachIsALayer
