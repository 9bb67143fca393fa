\* Three readers and three records; any of the calls may fail (no symmetry:
\* liveness).
SPECIFICATION Spec
CONSTANTS
  Readers = {r1, r2, r3}
  Last = 3
  CallsMayFail = TRUE
INVARIANTS EveryRecordOnce OneMarker LateRecordsInHand
PROPERTY Completes
CHECK_DEADLOCK FALSE
