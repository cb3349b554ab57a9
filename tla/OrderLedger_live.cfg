SPECIFICATION FairSpec
CONSTANTS
  o1 = o1
  o2 = o2
  m1 = m1
  m2 = m2
  Orders = {o1}
  Markets = {m1}
  MarketOf <- OneMarket
  Size = 2
  MaxRun = 1
  MaxDrops = 0
  Losable = {o1}
  Forgets = TRUE
  Stops = {}
INVARIANTS
  FillsAreReal
PROPERTIES
  OrphanIsAdopted
  CutoffCancels
  LedgerConverges
