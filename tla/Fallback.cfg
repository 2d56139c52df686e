SPECIFICATION Spec
CONSTANTS
  NumNodes = 3
  Delays = {0, 100, 300}
  Tolerance = 150
CHECK_DEADLOCK FALSE
PROPERTY
  FallbackFollowsTests
