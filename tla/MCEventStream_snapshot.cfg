SPECIFICATION FairSpec
CONSTANTS
  Page = {"session"}
  Load = {1}
  MaxEvents = 3
  MaxFaults = 2
INVARIANT SnapshotReplayed
CHECK_DEADLOCK FALSE
