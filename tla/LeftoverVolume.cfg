SPECIFICATION EstablishedSpec
CONSTANTS
  Versions = {v1, v2}
  InitVersion = v1
  InitReplicas = {2}
  TargetReplicas = {1, 2}
  MaxOrdinal = 1
  MaxEdits = 4
  MaxFaults = 0
  None = None
INVARIANTS NoLeftoverData
