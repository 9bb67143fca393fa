\* pthread_create may fail for an admitted client.
SPECIFICATION Spec
CONSTANTS
  Conns = {c1, c2}
  MaxConn = 2
  MaxMeas = 1
  Eos = Eos
  AcceptMayFail = FALSE
  CreateMayFail = TRUE
PROPERTY ShutdownAfterAllClients
CHECK_DEADLOCK FALSE
