\* Main and two threads; the pipe holds two messages (no symmetry: liveness).
SPECIFICATION LogSpec
CONSTANTS
  Threads = {main, t1, t2}
  Main = main
  MaxMsgs = 1
  PipeParts = 4
  ReadParts = 3
INVARIANTS StreamIntact CompleteAtExit KilledOnlyWithoutLog
PROPERTY Ends
CHECK_DEADLOCK FALSE
