SPECIFICATION FairSpec
CONSTANTS
  a = a
  Members = {a}
  LegSeq <- UpDown
  InFlightCap = 2
  SlotCap = 1
  MaxAttempts = 2
  Previewed = TRUE
  Faults = TRUE
INVARIANTS
  TypeOK
  EveryMemberExplains
  RepliesCountedOnce
PROPERTIES
  StoppedSendsNothing
  KnockReturns
  TimingThreadEnds
CHECK_DEADLOCK FALSE
