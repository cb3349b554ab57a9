SPECIFICATION Spec
CONSTANTS
  a = a
  b = b
  up = up
  down = down
  nobody = nobody
  Accounts = {a}
  Legs = {up}
  None = nobody
  Fleet = FALSE
  KeepBest = TRUE
  MaxSign = 2
  CancelsFail = FALSE
  Crashes = TRUE
INVARIANTS
  NoSecondOrder
CHECK_DEADLOCK FALSE
