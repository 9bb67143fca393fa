\* Two sensors, maps of up to three lines, records in any order.
SPECIFICATION Spec
CONSTANTS
  Nodes = {n1, n2, n3}
  Objects = {o1, o2, o3}
  NULL = NULL
  Sensors = {s1, s2}
  Malformed = Malformed
  MaxLines = 3
  RunAvgLength = 2
  MinTemp = 10
  MaxTemp = 20
  Temps <- MCTemps
  MaxMeas = 4
SYMMETRY Symmetry
INVARIANT ListOwnsAll
PROPERTY ImplementsDataMgr
CHECK_DEADLOCK FALSE
