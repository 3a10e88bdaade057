SPECIFICATION Spec
CONSTANTS
  OrderIds = {}
  NO_ASK = 4
  MaxQty = 2
  FileLevels = 3
  OpeningSizes <- MCOpeningQueues
  Splits = {2}
  MaxNewOrders = 2
  MaxSilent = 0
  Levels = 2
  Modes = {{}, {"published"}, {"resync"}}
  MaxMessages = 3
  SYNTHETIC_ID_BASE = 100
  DEPTH_LEVELS = 2
INVARIANTS
  CompleteFeedIsMirrored
