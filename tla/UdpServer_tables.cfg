SPECIFICATION EitherSpec
CONSTANTS
  Clients = {k1, k2}
  Convs = {c1, c2, c3}
  Endpoints = {e1, e2, e3}
  Blocks = {b1, b2}
  NoEndpoint = NoEndpoint
  NetCap = 2
  Moves = TRUE
SYMMETRY Symmetric
INVARIANTS TablesAgree AnswersFollow ReleasedOnceAtHome
