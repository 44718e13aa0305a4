SPECIFICATION MCSpec
CONSTANTS
  TimeMod = 18
  Interval = 2
  ResetLimit = 5
  ProbeInit = 3
  ProbeLimit = 5
  RxRto = 3
  MaxRto = 5
  MaxLate = 2
  MaxSteps = 1
  Rtts <- SomeRtts
  MinRto = 4
  RtoMax = 60
  DefRto = 30
  Mss = 32
  SndWnd = 6
  RmtWnds = {0, 1, 3, 6}
  Resent = 2
  NoCwnd = FALSE
  ThreshMin = 2
  Base = 5
  Mtu = 60
  Conv = 27
  Cmds = {0, 1, 2, 3}
  Flushes <- SomeFlushes
  Strays <- SomeStrays
  Peers = {p, q}
  Overhead = 3
  DefaultMtu = 5
  WndSnd = 2
  WndRcv = 4
  LeastInterval = 3
  LeastFast = 2
  MostInterval = 4
  DefInterval = 3
  MinRtoNodelay = 2
  Numbers <- SomeNumbers
  Mtus = {1, 4}
  Blocks = {1, 2, 3, 4}
  ListMod = 16
  FirstSn = 14
  ListSndWnd = 2
  ListRcvWnd = 3
  MaxSegs = 3
CHECK_DEADLOCK FALSE
INVARIANTS OnTime SegmentsSurvive DatagramsFit SettingsHold RingsSound
PROPERTIES ClockGoesOn RtoCovers WindowKept  SetsPromise
