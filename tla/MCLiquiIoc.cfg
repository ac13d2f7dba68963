SPECIFICATION Spec
CONSTANTS
  Ids = {1, 2, 3}
  Size = 2
  MaxQty = 2
  Orders <- IocOrders
  Replacements = {}
INVARIANT DepthIsBook
CHECK_DEADLOCK FALSE
