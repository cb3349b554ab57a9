SPECIFICATION FairSpec
CONSTANTS
  acct = acct
  nobody = nobody
  None = nobody
  Accounts = {acct}
  Phase <- Alone
  Interval = 4
  Bursts <- OneBurst
  Tolerance = 1
  ReplyMargin = 1
  AnchorLag = 1
  Percent = 100
  MaxKnocks = 2
  MaxNow = 7
INVARIANTS
  TypeOK
  NextSlotCoversLastSend
  CountsAreHolders
PROPERTIES
  NextIsFirst
  KeepsSpacing
  ReaderLetGo
CHECK_DEADLOCK FALSE
