SPECIFICATION FairSpec
CONSTANTS
  Ids = {o1, o2, o3}
  None = None
  Prices = {1, 2}
  WordSize = 4
  NewOrders <- MixedOrders
  Deltas = {2}
  MarketPrices = {2}
VIEW WithoutLevels
PROPERTIES
  CallReturns
  OverrunsConfined
  ImplementsExchange
