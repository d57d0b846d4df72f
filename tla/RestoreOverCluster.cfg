SPECIFICATION FairSpec
CONSTANTS
  Restores = {r1}
  Size = 1
  MaxUID = 2
  MaxFaults = 1
  None = None
PROPERTIES NoRestoreIntoCluster
CHECK_DEADLOCK FALSE
