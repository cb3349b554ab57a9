SPECIFICATION Spec
CONSTANTS
  o1 = o1
  o2 = o2
  m1 = m1
  m2 = m2
  Orders = {o1}
  Markets = {m1, m2}
  MarketOf <- OneMarket
  Size = 1
  MaxRun = 2
  MaxDrops = 1
  Losable = {}
  Forgets = TRUE
  Stops = {"interrupt", "fail", "crash", "balance"}
INVARIANTS
  TypeOK
  OnlyStaleVerdictsRetire
  StopAsksForEveryOrder
CHECK_DEADLOCK FALSE
