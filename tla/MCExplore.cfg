SPECIFICATION FairSpec
CONSTANTS
  Cells = {0, 1, 2, 3, 4}
  MaxRecoveries = 1
  Patience = 1
  Settings <- Runs
  RegionCells = 3
  ChunkCells = 2
  Radius = 1
  Margin = 1
  PerceptionWait = 1
INVARIANTS NothingOutlivesTheAction
PROPERTIES EndsWhenNothingIsLeft NeverTheSameTwice ExplorationEnds
CHECK_DEADLOCK FALSE
