SPECIFICATION StalledReader
CONSTANTS
  A = A
  B = B
  SegsA = 3
  SegsB = 1
  NetA = 1
  NetB = 2
  MaxSegs <- MCMaxSegs
  NetCap <- MCNetCap
  SndWnd = 2
  AskedRcvWnd = 1
  WndRcv = 2
  FastResend = 1
  FastLimit = 1
  SnMod = 16
  FirstSn = 15
  Duplicating = TRUE
INVARIANTS TypeOK NothingLost TruthfulAcks WindowsRespected
PROPERTIES NeverBackwards
