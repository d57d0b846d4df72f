SPECIFICATION FairEstablishedSpec
CONSTANTS
  Versions = {v1}
  InitVersion = v1
  InitReplicas = {1, 2, 3}
  TargetReplicas = {1, 2, 3}
  MaxOrdinal = 3
  MaxEdits = 3
  MaxFaults = 0
  None = None
PROPERTY Converges
