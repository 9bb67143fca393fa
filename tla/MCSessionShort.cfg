\* recv may return a part of a field.
SPECIFICATION SafeSpec
CONSTANTS
  Loops = 2
  Timeout = 1
  MaxTime = 3
INVARIANT WholeRecords
CHECK_DEADLOCK FALSE
