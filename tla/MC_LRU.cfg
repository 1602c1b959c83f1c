SPECIFICATION HSpec
CONSTANTS
  Key = {k1, k2, k3, k4, k5}
  Page = {p1, p2}
  Node = {n1, n2, n3, n4}
  Capacity = 3
  End = End
SYMMETRY Symmetry
INVARIANTS
  TypeOK
  Consistent
  Bounded
  RecencyOrder
PROPERTY
  ImplementsLRU
