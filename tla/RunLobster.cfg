SPECIFICATION RunSpec
CONSTANTS
  OrderIds = {}
  NO_ASK = 4
  MaxQty = 2
  FileLevels = 1
  OpeningSizes <- MCOpening
  Splits = {1}
  MaxNewOrders = 2
  MaxSilent = 2
  Levels = 1
  Modes = {{}}
  MaxMessages = 3
  SYNTHETIC_ID_BASE = 100
  DEPTH_LEVELS = 1
  CommandLines <- MCCommandLines
INVARIANTS
  TypeOK
  RepairsSuffice
  NeverTrades
  HorizonIsExact
  SuccessIsHonest
  OptionsTakeEffect
  FeaturesFollowVenue
  EveryMessageHasARow
PROPERTIES
  SizesAreNotForgiven
  PruneOnlyPhantoms
  ToldOrdersAreSpared
