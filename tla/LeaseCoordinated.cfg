SPECIFICATION Spec
CONSTANTS
  Attempts = {a1, a2, a3}
  Coordinated = TRUE
  Detaches = FALSE
  Panics = TRUE
  None = None
INVARIANTS OneTreeUnlessProbed DroppedLeaseRecovers OwnedUnlessProbed
PROPERTIES LeaseEndsOverNoRunningTree
SYMMETRY Symmetry
\* The attempts are a bound: when all have ended the model stops.
CHECK_DEADLOCK FALSE
