SPECIFICATION FairSpec
CONSTANTS
  OrderIds = {o1, o2, o3}
  NO_ASK = 3
  MaxQty = 2
  Slots = {s1, s2}
  HeapAddrs = {h1}
  MaxOverflow = 1
  NULL = NULL
PROPERTY
  CallReturns
