SPECIFICATION FairSpec
CONSTANTS
  Restores = {r1, r2}
  Size = 2
  MaxUID = 2
  MaxFaults = 1
  None = None
INVARIANTS RestoreInv AgentsOnOwnVolumes RestoredWhole
PROPERTIES EndIsFinal KeepsPromise RestoreEnds
CHECK_DEADLOCK FALSE
