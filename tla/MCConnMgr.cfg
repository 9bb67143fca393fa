\* Two admitted clients and one more, which takes the place of a lost one or
\* is turned away; every call may fail.  No symmetry: it is unsound for
\* liveness.
SPECIFICATION Spec
CONSTANTS
  Conns = {c1, c2, c3}
  MaxConn = 2
  MaxMeas = 1
  Eos = Eos
  AcceptMayFail = TRUE
  CreateMayFail = TRUE
INVARIANTS CountersExact AdmissionBound EosIsLast EachSocketOwned
PROPERTIES NobodyWaitsForEver ImplementsConnService
CHECK_DEADLOCK FALSE
