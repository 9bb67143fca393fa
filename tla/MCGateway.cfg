\* Two clients, one of which may have been given the id 0, and a map that
\* names a sensor (no symmetry: it is unsound for liveness).
SPECIFICATION Spec
CONSTANTS
  Conns = {c1, c2}
  MaxConn = 2
  Eos = Eos
  NodeIds = {0, 15}
  MapEmpty = FALSE
  MaxRecords = 3
INVARIANTS StoredComplete FreedLast
PROPERTY EndsAfterClients
CHECK_DEADLOCK FALSE
