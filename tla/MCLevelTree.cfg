SPECIFICATION Spec
CONSTANTS
  Prices = {1, 2, 3, 4, 5, 6, 7, 8, 9, 10}
INVARIANTS
  TypeOK
  RedBlack
  RouteExact
  ThreadsExact
PROPERTIES
  LadderRefined
  Climbs
