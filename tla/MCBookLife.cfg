SPECIFICATION Spec
CONSTANTS
  Ids = {o1, o2, o3, o4}
  None = None
  Prices = {1, 2}
  WordSize = 4
  NewOrders <- LifeOrders
  Deltas <- Reductions
  MarketPrices = {1, 2}
SYMMETRY IdSymmetry
INVARIANTS
  TypeOK
  WellPlaced
  StopsUntriggered
  LevelAggregates
PROPERTIES
  PriorityKept
