SPECIFICATION Spec
CONSTANTS
  Ids = {o1, o2, o3, o4}
  None = None
  Prices = {1, 2}
  WordSize = 16
  NewOrders <- AonOrders
  Deltas = {}
  MarketPrices = {}
SYMMETRY IdSymmetry
INVARIANTS
  Uncrossed
  AllOrNone
  PlanHolds
PROPERTIES
  FairTrades
