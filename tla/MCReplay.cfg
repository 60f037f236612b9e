SPECIFICATION FairSpec
CONSTANTS
  End = 3
  Upto <- Records
  Page = 2
  MaxRecords = 3
  Behind = 1
  Ahead = 1
  Refill = 1
  Chunks = {"here", "near", "far"}
  Near = {"here", "near"}
  SeenFrom <- Map
  KeyframeAt <- Keyframes
  Heads = {1, 3}
  MaxMoves = 2
  Faults = TRUE
INVARIANTS RecordsAreThere LoadedPosesAreComplete BeliefIsOfItsTick
PROPERTIES CursorIsReached
CHECK_DEADLOCK FALSE
