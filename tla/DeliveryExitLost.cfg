SPECIFICATION FairSpec
CONSTANTS
  MaxSeq = 3
  RingFrames = 2
  PageFrames = 2
  QueueLimit = 3
  MaxGens = 1
PROPERTY ExitArrives
CHECK_DEADLOCK FALSE
