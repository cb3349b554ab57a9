SPECIFICATION Spec
CONSTANTS
  o1 = o1
  o2 = o2
  m1 = m1
  m2 = m2
  Orders = {o1}
  Markets = {m1, m2}
  MarketOf <- OneMarket
  Size = 1
  MaxRun = 1
  MaxDrops = 0
  Losable = {}
  Forgets = FALSE
  Stops = {}
INVARIANTS
  NoLiveOrderRetired
