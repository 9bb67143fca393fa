\* A room_sensor.map that names no sensor.
SPECIFICATION SafeSpec
CONSTANTS
  Conns = {c1, c2}
  MaxConn = 1
  Eos = Eos
  NodeIds = {15}
  MapEmpty = TRUE
  MaxRecords = 3
INVARIANT AllStored
CHECK_DEADLOCK FALSE
