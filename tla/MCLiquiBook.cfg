SPECIFICATION Spec
CONSTANTS
  Ids = {1, 2, 3, 4}
  Size = 2
  MaxQty = 2
  Orders <- MixedOrders
  Replacements <- MixedReplacements
INVARIANTS TypeOK DepthExact InStep AonWhole
PROPERTY NotifiesChange
CHECK_DEADLOCK FALSE
