SPECIFICATION LongMessages
CONSTANTS
  A = A
  B = B
  SegsA = 4
  SegsB = 0
  NetA = 1
  NetB = 1
  MaxSegs <- MCMaxSegs
  NetCap <- MCNetCap
  SndWnd = 2
  AskedRcvWnd = 1
  WndRcv = 3
  FastResend = 0
  FastLimit = 1
  SnMod = 32
  FirstSn = 0
  Duplicating = FALSE
INVARIANTS LinkInv InOrderDelivery FullQueueReadable
PROPERTIES EventuallyAcknowledged StreamPromise
