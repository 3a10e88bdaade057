SPECIFICATION RunSpec
CONSTANTS
  OrderIds = {}
  NO_ASK = 3
  MaxQty = 1
  FileLevels = 1
  OpeningSizes <- MCOpening
  Splits = {1}
  MaxNewOrders = 1
  MaxSilent = 1
  Levels = 1
  Modes = {{}}
  MaxMessages = 2
  SYNTHETIC_ID_BASE = 100
  DEPTH_LEVELS = 1
  CommandLines <- MCPublished
INVARIANT
  ReportAsPrinted
