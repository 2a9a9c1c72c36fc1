SPECIFICATION Spec
CONSTANTS
  Attempts = {a1, a2, a3}
  Coordinated = TRUE
  Detaches = FALSE
  Panics = FALSE
  None = None
INVARIANTS OneRunningTree
SYMMETRY Symmetry
CHECK_DEADLOCK FALSE
