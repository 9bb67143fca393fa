\* The numbers of the lines.
SPECIFICATION LogSafeSpec
CONSTANTS
  Threads = {main, t1}
  Main = main
  MaxMsgs = 1
  PipeParts = 4
  ReadParts = 3
INVARIANT NumberedInOrder
CHECK_DEADLOCK FALSE
