\* Three nodes are the fewest with a first, an inner and a last one.
SPECIFICATION ListSpec
CONSTANTS
  Nodes = {n1, n2, n3}
  Objects = {o1, o2, o3}
  Values = {u, v}
  NULL = NULL
  Indices <- MCIndices
INVARIANTS WellLinked ElementsOwned QueriesAgree
PROPERTY CallsKeepPromise
SYMMETRY Symmetry
CHECK_DEADLOCK FALSE
