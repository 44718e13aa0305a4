SPECIFICATION FairSpec
CONSTANTS
  Convs = {c1}
  Sids = {0, 1}
  Addresses = {a1, a2}
  Reuse = FALSE
  MayClose = FALSE
  HelloLike = {}
  MaxRead = 2
  MaxData = 2
  TunnelCap = 1
CHECK_DEADLOCK FALSE
INVARIANTS NoCrossTalk NothingSwallowed
PROPERTIES RelayPromise RequestsAnswered
