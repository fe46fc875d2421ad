SPECIFICATION Spec
CONSTANTS
  Timer = {x, y}
  Id = {a, b}
  Timeout = {1, 3}
  MaxTimeout = 3
  WheelSize = 4
PROPERTY ExecutedAfterTimeout
CHECK_DEADLOCK FALSE
