SPECIFICATION PatientSpec
CONSTANTS
  Launchers = {l1}
  MaxIncs = 2
  MaxBoots = 1
  MaxCrashes = 1


PROPERTY RecoveryIsAutomatic
