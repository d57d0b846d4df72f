SPECIFICATION FairSpec
CONSTANTS
  Specs = {daily, hourly, malformed}
  Unparsable = {malformed}
  MaxUID = 2
  MaxEdits = 1
  MaxFaults = 1
  MaxRestarts = 1
  None = None
INVARIANTS ScheduleInv EveryEntryRecorded EntryNeedsFinalizer
PROPERTIES LiveStaysScheduled BackupsHappen DeletionCompletes
CHECK_DEADLOCK FALSE
