\* Three insertions by two writers of any of two records or the end of stream
\* (no symmetry: it is unsound for liveness).
SPECIFICATION Spec
CONSTANTS
  Nodes = {n1, n2, n3}
  NULL = NULL
  d1 = d1
  d2 = d2
  Eos = Eos
  Records <- MCRecords
  Writers = {w1, w2}
  Readers = {r1, r2}
INVARIANTS ReaderPosition HeapAccounted NoDanglingUse
PROPERTY ImplementsBroadcastLog
CHECK_DEADLOCK FALSE
