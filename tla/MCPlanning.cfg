SPECIFICATION Spec
CONSTANTS
  Agents = {1, 2}
  Chunks = 3
  PerTick <- FastAndSlow
  StageBudget = 3
  CacheSize = 3
  Terrains = {0, 1}
  Maps <- Rough
  Requests <- Mixed
  MaxQueries = 2
  MaxChanges = 2
  MaxRestores = 1
INVARIANTS TwinsShowTheSame AnswersAreCurrent BudgetHolds
PROPERTIES
