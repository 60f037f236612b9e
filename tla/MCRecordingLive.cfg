SPECIFICATION FairSpec
CONSTANTS
  Capacity = 0
  HighRecords = 2
  LowRecords = 0
  HighBytes = 3
  LowBytes = 1
  Live = Live
  Derived = Derived
  FlushAt = 2
  Levels = {"low", "high"}
  Faults = {"none"}
  Ticks <- Records
  Requests = {}
  Resims = FALSE
  MaxTick = 1
  MaxInFlight = 0
  MaxRequests = 0
PROPERTIES EverythingIsSaved WaitingRunsGoOn
CHECK_DEADLOCK FALSE
