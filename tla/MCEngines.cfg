SPECIFICATION EnginesSpec
CONSTANTS
  Ids = {a, b, c}
  None = None
  Prices = {1, 2}
  WordSize = 4
  NewOrders <- Submitted
  News <- Workload
  Deltas = {}
  MarketPrices = {}
  Size = 1
  LoIds = {1, 2, 3, 4}
  Reorders <- Modifications
SYMMETRY OrderSymmetry
INVARIANTS EnginesAgree QueriesAgree
PROPERTY PricesExact
