SPECIFICATION Spec
CONSTANTS
  Cells <- MapCells
  Sides <- MapSides
  Corners <- MapCorners
  Reach <- MapReach
  Footprint <- MapSides
  Rim <- MapRim
  Barred = {}
  Chunks <- TheChunks
  ChunkOf <- MapChunkOf
  Around <- MapAround
  Regions = {0, 1}
  RegionOf <- MapRegionOf
  Centrality <- MapCentrality
  Clamp = 3
  Threshold = 2
  HitStep = 2
  MissStep = 2
  LogSize = 2
  MinFrontierCells = 1
  Priors <- HalfKnown
  Readings <- Beams
  Posts = {7}
  MaxTicks = 2
  MaxReadings = 2
  MaxActs = 2
INVARIANTS ViewIsCurrent LayerIsCurrent ReadsAreFresh ExhaustionIsTold RestoredRunGoesOn DeltasRebuildTheMap
PROPERTIES MarksFollowTheView
CHECK_DEADLOCK FALSE
