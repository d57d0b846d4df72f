SPECIFICATION Spec
CONSTANTS
  Versions = {v1}
  InitVersion = v1
  InitReplicas = {1}
  TargetReplicas = {1, 2}
  MaxOrdinal = 2
  MaxEdits = 3
  MaxFaults = 1
  None = None
INVARIANTS IndInv NoLeftoverData TombstoneHasPeer
PROPERTIES MemberKeepsData RemovedWithPeer FollowsMembership
