\* One failed scan, and no other interference than the target's.
SPECIFICATION Spec
CONSTANTS
  MaxCards = 1
  MaxActs = 1
  MaxReopens = 0
  MaxBadScans = 1
  MaxFaults = 0
PROPERTY FailedScanBreaksAdjacency
