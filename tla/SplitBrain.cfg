SPECIFICATION EstablishedSpec
CONSTANTS
  Versions = {v1}
  InitVersion = v1
  InitReplicas = {1}
  TargetReplicas = {3}
  MaxOrdinal = 2
  MaxEdits = 1
  MaxFaults = 2
  None = None
INVARIANT OneEtcdCluster
