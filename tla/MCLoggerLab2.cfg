\* The four records of main, every call that can fail.
SPECIFICATION Lab2Spec
CONSTANTS
  Inserts = 4
  MayFail = {"pipe", "fork", "log", "csv", "fprintf", "fflush", "fclose"}
INVARIANT LogAgrees
PROPERTY Ends
CHECK_DEADLOCK FALSE
