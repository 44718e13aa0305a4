SPECIFICATION Spec
CONSTANTS
  Clients = {k1, k2}
  Convs = {c1, c2, c3}
  Endpoints = {e1, e2}
  Blocks = {b1, b2, b3}
  NoEndpoint = NoEndpoint
  NetCap = 2
  Moves = FALSE
INVARIANTS TimersOnLive
