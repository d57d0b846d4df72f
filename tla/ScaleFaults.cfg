SPECIFICATION EstablishedSpec
CONSTANTS
  Versions = {v1, v2}
  InitVersion = v1
  InitReplicas = {2, 3}
  TargetReplicas = {1, 2, 3}
  MaxOrdinal = 3
  MaxEdits = 1
  MaxFaults = 2
  None = None
INVARIANTS PeerInv JoinInv FinalizerConfirmed DataSurvives
PROPERTIES MemberKeepsData OnlyOutdatedReplaced
