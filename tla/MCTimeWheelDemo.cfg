SPECIFICATION Spec
CONSTANTS
  Timer = {x, y, z}
  Id = {a, b}
  Timeout = {0, 1, 2, 4, 5}
  MaxTimeout = 4
  WheelSize = 3
SYMMETRY Symmetry
INVARIANT TypeOK
INVARIANT MapMatchesWheel
PROPERTY EndsCleanly
PROPERTY ExpiresWithinASecond
CHECK_DEADLOCK FALSE
