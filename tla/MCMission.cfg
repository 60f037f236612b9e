SPECIFICATION FairMissionSpec
CONSTANTS
  N = 1
  Agents = {1}
  Minded = {1}
  FullSoc = 3
  LowSoc = 2
  CriticalSoc = 1
  t1 = t1
  t2 = t2
  Tags = {t1, t2}
  Subjects = {s1}
  Decisions <- Minds
  TimerMaxActive = 1
  TimerOpsPerDecision = 2
  MinDelay = 1
  MaxDelay = 2
  MinInterval = 2
  MaxTick = 3
  MaxInputs = 1
  Faults = TRUE
  Lists <- Errands
  InboxCap = 2
INVARIANTS UnansweredIsOpenRequests NoRequestWhileRecovering InputsApplyAtTheirTick
INVARIANTS EventsAreDelivered MissionFollowsItsList MissionNeverHangs
PROPERTIES EveryActionHasOneFate LockstepProtocol TimersFireOnTime TicksGoOn
CHECK_DEADLOCK FALSE
