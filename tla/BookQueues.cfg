SPECIFICATION Spec
CONSTANTS
  OrderIds = {o1, o2, o3, o4}
  NO_ASK = 3
  MaxQty = 2
  Slots = {s1, s2}
  HeapAddrs = {h1, h2}
  MaxOverflow = 1
  NULL = NULL
SYMMETRY Symmetry
INVARIANTS
  NoLeak
  IndexAgrees
  QueuesWellFormed
  CachesExact
PROPERTY
  TimePriority
