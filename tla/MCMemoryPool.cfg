SPECIFICATION PoolSpec
CONSTANTS
  Slots = {s1, s2, s3}
  HeapAddrs = {h1, h2}
  MaxOverflow = 3
  NULL = NULL
INVARIANTS
  PoolTypeOK
  SlotConservation
  HeapRouting
  OverflowAccounting
PROPERTY
  ImplementsAllocator
