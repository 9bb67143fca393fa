\* The lab's own output test.
SPECIFICATION SafeSpec
CONSTANTS
  Readers = {r1, r2}
  Last = 3
  CallsMayFail = FALSE
INVARIANT OutputTestPasses
CHECK_DEADLOCK FALSE
