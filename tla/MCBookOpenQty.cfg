SPECIFICATION Spec
CONSTANTS
  Ids = {o1, o2}
  None = None
  Prices = {1}
  WordSize = 4
  NewOrders <- OverrunOrders
  Deltas = {2}
  MarketPrices = {}
INVARIANT
  AggregateIsOpenQty
