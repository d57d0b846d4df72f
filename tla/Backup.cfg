SPECIFICATION FairSpec
CONSTANTS
  Names = {b}
  MaxUID = 2
  MaxFaults = 1
  None = None
INVARIANTS BackupInv CompletedHasSnapshot
PROPERTIES PhaseAdvances KeepsPromise BackupEnds
CHECK_DEADLOCK FALSE
