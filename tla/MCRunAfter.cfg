SPECIFICATION ServerSpec
CONSTANTS
  Id = {1, 2}
  NoId = none
  Delay = {1, 2}
  NestedDelay = {1, 2}
  Capacity = 3
  MaxNodes = 2
  MaxSeconds = 1
PROPERTY AcceptedTaskRuns
CHECK_DEADLOCK FALSE
