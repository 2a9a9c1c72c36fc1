SPECIFICATION FairSpec
CONSTANTS
  Procs = {r, c, d, f}
  Root = r
  Foreign = {f}
  Undumpable = {c}
  Pids = {1, 2, 3}
  RootPid = 2
  Yama = TRUE
  Rounds = 2
  None = None
INVARIANTS NoForeignSignal
PROPERTIES ConfirmedMeansDead SignalsReachTheirAim ReapEnds
\* A reap that has answered stops.
CHECK_DEADLOCK FALSE
