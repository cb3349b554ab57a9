SPECIFICATION FairSpec
CONSTANTS
  a = a
  b = b
  up = up
  down = down
  nobody = nobody
  Accounts = {a}
  Legs = {up}
  None = nobody
  Fleet = FALSE
  KeepBest = TRUE
  MaxSign = 2
  CancelsFail = FALSE
  Crashes = FALSE
PROPERTIES
  EntryIsDecided
CHECK_DEADLOCK FALSE
