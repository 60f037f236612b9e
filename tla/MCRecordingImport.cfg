SPECIFICATION Spec
CONSTANTS
  Capacity = 1
  HighRecords = 3
  LowRecords = 1
  HighBytes = 4
  LowBytes = 2
  Live = Live
  Derived = Derived
  FlushAt = 2
  Levels = {"low"}
  Faults = {"none", "items"}
  Ticks <- Records
  Requests = {"import", "close", "slow"}
  Resims = TRUE
  MaxTick = 2
  MaxInFlight = 2
  MaxRequests = 1
PROPERTIES RefusedBatchStopsTheHead
CHECK_DEADLOCK FALSE
