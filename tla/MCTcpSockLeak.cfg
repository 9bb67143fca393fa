\* Nothing fails but a connection that its peer resets.
SPECIFICATION SockSpec
CONSTANTS
  Handles = {h1, h2, h3}
  Cells = {c1, c2, c3}
  Strings = {s1, s2, s3}
  Fds = {f1, f2, f3, f4}
  NULL = NULL
  MayFail = {"reset"}
INVARIANT DescriptorsFreed
SYMMETRY Symmetry
