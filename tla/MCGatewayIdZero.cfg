\* A client that was given the id 0.
SPECIFICATION SafeSpec
CONSTANTS
  Conns = {c1, c2}
  MaxConn = 2
  Eos = Eos
  NodeIds = {0, 15}
  MapEmpty = FALSE
  MaxRecords = 3
INVARIANT AllStored
CHECK_DEADLOCK FALSE
