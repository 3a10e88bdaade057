SPECIFICATION Spec
CONSTANTS
  OrderIds = {}
  NO_ASK = 4
  MaxQty = 1
  FileLevels = 1
  OpeningSizes <- MCOpeningSingle
  Splits = {1}
  MaxNewOrders = 2
  MaxSilent = 2
  Levels = 1
  Modes = {{"resync"}}
  MaxMessages = 4
  SYNTHETIC_ID_BASE = 100
  DEPTH_LEVELS = 1
INVARIANTS
  ResyncNeverFails
