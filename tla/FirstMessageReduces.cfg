SPECIFICATION Spec
CONSTANTS
  OrderIds = {}
  NO_ASK = 3
  MaxQty = 2
  FileLevels = 2
  OpeningSizes <- MCOpeningOne
  Splits = {1, 2, 3}
  MaxNewOrders = 1
  MaxSilent = 0
  Levels = 2
  Modes = {{}}
  MaxMessages = 2
  SYNTHETIC_ID_BASE = 100
  DEPTH_LEVELS = 2
INVARIANTS
  CorrectStreamReconciles
