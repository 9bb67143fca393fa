\* An excess handler that is about to accept when the server socket closes.
SPECIFICATION SafeSpec
CONSTANTS
  Conns = {c1, c2}
  MaxConn = 1
  MaxMeas = 1
  Eos = Eos
  AcceptMayFail = FALSE
  CreateMayFail = FALSE
INVARIANT SocketStaysValid
CHECK_DEADLOCK FALSE
