SPECIFICATION AshmemSpec
CONSTANTS
  Areas = {a1, a2}
  size = 3
  Offsets = {0, 1, 2, 4}
  NrToScan = {2}
  AllocMayFail = FALSE
SYMMETRY AreaSymmetry
INVARIANTS
  ListsConsistent
PROPERTIES
  ImplementsPages
