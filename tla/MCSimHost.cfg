SPECIFICATION FairSpec
CONSTANTS
  Settings <- Sessions
  MaxSteps = 2
  MaxPerPoll = 2
  High = 3
  Low = 1
  EndTick = 2
  MaxRuns = 2
INVARIANTS BacklogIsBounded RunningHasOneTimer RequestsAreCounted
PROPERTIES HostTicksWhenItMay NothingHangs
CHECK_DEADLOCK FALSE
