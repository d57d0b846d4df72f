SPECIFICATION FairSpec
CONSTANTS
  Versions = {v1, v2, v3}
  InitVersion = v1
  InitReplicas = {1, 2, 3}
  TargetReplicas = {}
  MaxOrdinal = 2
  MaxEdits = 1
  MaxFaults = 0
  None = None
INVARIANTS OneEtcdCluster UpgradeInv UpgradeKeepsQuorum
PROPERTIES Converges UpgradeWaits
