SPECIFICATION Spec
CONSTANTS
  Prices = {1, 2, 3}
  MaxSize = 2
INVARIANT
  Telescopes
PROPERTIES
  ValidNeverSpansAGap
  MirrorNegates
