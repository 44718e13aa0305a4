SPECIFICATION Spec
CONSTANTS
  Convs = {c1}
  Sids = {0, 1}
  Addresses = {a1, a2}
  Reuse = TRUE
  MayClose = FALSE
  HelloLike = {}
  MaxRead = 1
  MaxData = 1
  TunnelCap = 2
CHECK_DEADLOCK FALSE
SYMMETRY Symmetric
INVARIANTS NoCrossTalk
