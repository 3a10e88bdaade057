SPECIFICATION Spec
CONSTANTS
  OrderIds = {o1, o2, o3}
  NO_ASK = 4
  MaxQty = 3
  Slots = {s1, s2}
  HeapAddrs = {h1}
  MaxOverflow = 1
  NULL = NULL
SYMMETRY Symmetry
INVARIANTS
  TypeOK
  Uncrossed
  TimeInForce
  FillsAddUp
  PricePriority
  InFlight
