SPECIFICATION FairSpec
CONSTANTS
  Page = {"task", "session"}
  Load = {1, 2}
  MaxEvents = 3
  MaxFaults = 2
INVARIANTS
  StreamTypeOK
  NumbersRise
  StreamTellsAll
PROPERTIES
  FeedSpec
  EndIsSeen
  EndIsShown
CHECK_DEADLOCK FALSE
