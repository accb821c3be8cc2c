SPECIFICATION Spec
CONSTANTS
  Ids = {a, b}
  Capacity = 2
  RefillRate = 2
  UnitsPerSecond = 3
  MaxTime = 4
SYMMETRY Symmetric
INVARIANTS TypeOK WindowBound DeniedOnlyWhenSpent
