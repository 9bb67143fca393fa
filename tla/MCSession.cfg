\* A node of two measurements, received whole or in parts.
SPECIFICATION Spec
CONSTANTS
  Loops = 2
  Timeout = 1
  MaxTime = 3
INVARIANTS StoredAsSent NothingSilentlyLost LogTellsAll
PROPERTY EndsWithNode
CHECK_DEADLOCK FALSE
