\* Six keys and each policy, ARC with room for three.
SPECIFICATION Spec
CONSTANTS
  Keys = {k1, k2, k3, k4, k5, k6}
  Kinds = {"lru", "2q", "arc"}
  Capacity = 3
  NoKey = NoKey
INVARIANTS
  CapacityHolds

  
SYMMETRY MCSymmetry
