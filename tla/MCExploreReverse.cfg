SPECIFICATION Spec
CONSTANTS
  Cells = {0, 1, 2, 3, 4}
  MaxRecoveries = 1
  Patience = 1
  Settings <- OneGroup
  RegionCells = 3
  ChunkCells = 2
  Radius = 1
  Margin = 1
  PerceptionWait = 1
INVARIANTS OnlyForwardPathsGrow
CHECK_DEADLOCK FALSE
