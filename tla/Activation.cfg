SPECIFICATION FairSpec
CONSTANTS
  none = none
  LastMarket = 2
  Window = 2
  Farthest = TRUE
  MaxNow = 1
  None = none
INVARIANTS
  TypeOK
  EmittedOnce
  OnlyLimitsLose
  NoSleepOverUpdate
PROPERTIES
  KnownIsConsidered
CHECK_DEADLOCK FALSE
