SPECIFICATION Spec
CONSTANTS
  N = 2
  NoOrder = NoOrder
  Ids = {a, b, c, d, e, f}
  Prices = {1, 2}
  Bids = TRUE
  MaxHops = 1
  Nodes = {1, 2, 3, 4}
SYMMETRY IdSymmetry
INVARIANTS
  TypeOK
  ChainSound
  RoomToPlace
PROPERTIES
  SweepSafe
  KeepsPriority
