SPECIFICATION Spec
CONSTANTS
  Settings <- QuickOnly
  MaxSteps = 2
  MaxPerPoll = 2
  High = 3
  Low = 1
  EndTick = 2
  MaxRuns = 2
INVARIANT NeverAskedTwice
CHECK_DEADLOCK FALSE
