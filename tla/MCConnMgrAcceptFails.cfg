\* accept may fail while the listener waits for a client.
SPECIFICATION Spec
CONSTANTS
  Conns = {c1, c2}
  MaxConn = 2
  MaxMeas = 1
  Eos = Eos
  AcceptMayFail = TRUE
  CreateMayFail = FALSE
PROPERTY ShutdownAfterAllClients
CHECK_DEADLOCK FALSE
