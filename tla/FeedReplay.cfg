SPECIFICATION Spec
CONSTANTS
  OrderIds = {o1, o2, o3}
  NO_ASK = 3
  MaxQty = 2
  MaxLines = 6
SYMMETRY Symmetry
INVARIANTS
  SharesConserved
  SummaryIsSane
