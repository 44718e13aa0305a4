SPECIFICATION Spec
CONSTANTS
  Convs = {c1, c2}
  Sids = {0}
  Addresses = {a1, a2}
  Reuse = TRUE
  MayClose = TRUE
  HelloLike = {}
  MaxRead = 1
  MaxData = 1
  TunnelCap = 1
CHECK_DEADLOCK FALSE
SYMMETRY Symmetric
INVARIANTS TargetsIsolated
