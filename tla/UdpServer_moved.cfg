SPECIFICATION Spec
CONSTANTS
  Clients = {k1, k2}
  Convs = {c1, c2}
  Endpoints = {e1, e2, e3}
  Blocks = {b1, b2, b3}
  NoEndpoint = NoEndpoint
  NetCap = 2
  Moves = TRUE
PROPERTIES ReleasesItsOwn
