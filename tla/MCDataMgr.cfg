\* Two sensors, maps of up to two lines (duplicates and malformed lines
\* among them), five measurements and a window of three.
SPECIFICATION Spec
CONSTANTS
  Sensors = {s1, s2}
  Malformed = Malformed
  MaxLines = 2
  RunAvgLength = 3
  MinTemp = 10
  MaxTemp = 20
  Temps <- MCTemps
  MaxMeas = 5
SYMMETRY Symmetry
INVARIANTS WindowsRecent EventsExact
CHECK_DEADLOCK FALSE
