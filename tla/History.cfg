SPECIFICATION Spec
CONSTANTS
  Ids = {a, b, c, d}
  MaxCompleted = 2
  MaxAge = 7
INVARIANTS
  OrderExact
  NoResurrection
PROPERTIES
  KeepsNewestProp
CHECK_DEADLOCK FALSE
