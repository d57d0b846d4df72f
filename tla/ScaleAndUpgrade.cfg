SPECIFICATION FairEstablishedSpec
CONSTANTS
  Versions = {v1, v2}
  InitVersion = v1
  InitReplicas = {2, 3}
  TargetReplicas = {1, 2, 3}
  MaxOrdinal = 3
  MaxEdits = 2
  MaxFaults = 0
  None = None
INVARIANTS JoinConfigMatches
PROPERTIES RemovedWithPeer OnlyOutdatedReplaced SettledStays Converges
