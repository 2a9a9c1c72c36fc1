SPECIFICATION FairSpec
CONSTANTS
  MaxSeq = 4
  RingFrames = 3
  PageFrames = 2
  QueueLimit = 3
  MaxGens = 2
INVARIANTS
  TypeOK
  ReplayBounded
PROPERTIES
  StreamKept
  DrainNeverSpills
  SessionEnds
CHECK_DEADLOCK FALSE
