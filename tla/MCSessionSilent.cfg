\* A node that falls silent.
SPECIFICATION Spec
CONSTANTS
  Loops = 2
  Timeout = 1
  MaxTime = 3
PROPERTY SilentTimesOut
CHECK_DEADLOCK FALSE
