SPECIFICATION FairSpec
CONSTANTS
  a = a
  Markets = {a}
  EndOf <- EndsAtTwo
  TicksPerSecond = 2
  FinalDelay = 1
  PageLimit = 3
  Unit = 5
  BuyPrice = 2
  Kinds <- ThreeKinds
  OrderSize = 1
  MaxQueue <- OneForUp
  MaxTrades = 3
  MaxNow = 6
  MaxStarts = 2
INVARIANTS
  TypeOK
  FillIsLowerBound
PROPERTIES
  MeasuredOnce
  RegisteredIsDecided
CHECK_DEADLOCK FALSE
