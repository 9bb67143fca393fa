\* Two admitted clients and one more; accept and pthread_create may fail (no
\* symmetry: liveness).
SPECIFICATION Spec
CONSTANTS
  Conns = {c1, c2, c3}
  MaxConn = 2
  MaxMeas = 1
  Shutdown = Shutdown
  MayFail = {"accept", "create"}
INVARIANTS NoThreadCutOff ShutdownIsLast
PROPERTY ImplementsConnService
CHECK_DEADLOCK FALSE
