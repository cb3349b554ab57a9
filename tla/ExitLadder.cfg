SPECIFICATION FairSpec
CONSTANTS
  Lots = 2
  Parts = 3
  Share <- TwoRungs
  MinSize = 2
  MaxExits = 3
INVARIANTS
  TypeOK
  OnlyMatchedIsOffered
  OfferedIsSettled
PROPERTIES
  SettledIsOffered
CHECK_DEADLOCK FALSE
