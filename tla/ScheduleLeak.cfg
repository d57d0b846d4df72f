SPECIFICATION FairSpec
CONSTANTS
  Specs = {daily}
  Unparsable = {}
  MaxUID = 1
  MaxEdits = 0
  MaxFaults = 0
  MaxRestarts = 0
  None = None
PROPERTY RemovedFromPool
CHECK_DEADLOCK FALSE
