SPECIFICATION Spec
CONSTANTS
  Launchers = {l1}
  MaxIncs = 2
  MaxBoots = 2
  MaxCrashes = 1
INVARIANTS
  TypeOK OneWriter EmptyStaysEmpty ReplacedIsEmpty WriterHoldsClaim StopWins InputReachesOneWorker RecoveryHasAnOwner
PROPERTIES BlankOnlyIfUntouched
