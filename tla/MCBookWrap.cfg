SPECIFICATION Spec
CONSTANTS
  Ids = {o1, o2}
  None = None
  Prices = {1, 2}
  WordSize = 8
  NewOrders <- WrapOrders
  Deltas <- WrapDeltas
  MarketPrices = {}
PROPERTIES
  ReductionCollapses
