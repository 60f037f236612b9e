SPECIFICATION Spec
CONSTANTS
  Capacity = 1
  HighRecords = 3
  LowRecords = 1
  HighBytes = 4
  LowBytes = 2
  Live = Live
  Derived = Derived
  FlushAt = 2
  Levels = {"low"}
  Faults = {"none", "commit"}
  Ticks <- Records
  Requests = {}
  Resims = FALSE
  MaxTick = 2
  MaxInFlight = 0
  MaxRequests = 0
PROPERTIES RefusedBatchStopsTheHead
CHECK_DEADLOCK FALSE
