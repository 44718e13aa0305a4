SPECIFICATION OneWay
CONSTANTS
  A = A
  B = B
  SegsA = 2
  SegsB = 3
  NetA = 1
  NetB = 2
  MaxRestarts = 1
  MaxSegs <- MCMaxSegs
  NetCap <- MCNetCap
  SndWnd = 2
  AskedRcvWnd = 2
  WndRcv = 2
  FastResend = 0
  FastLimit = 1
  SnMod = 32
  FirstSn = 0
  Duplicating = TRUE
INVARIANTS
  FromTheStart
  LifeOrder
CHECK_DEADLOCK FALSE
