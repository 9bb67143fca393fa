\* The documented contract of sbuffer_remove.
SPECIFICATION SafeSpec
CONSTANTS
  Readers = {r1, r2}
  Last = 3
  CallsMayFail = FALSE
INVARIANT RemoveDoesNotBlock
CHECK_DEADLOCK FALSE
