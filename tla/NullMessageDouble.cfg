CONSTANTS
  l1 = l1
  l2 = l2
  NoArg = NoArg
  Ranks = {0, 1}
  Links = {l1, l2}
  Ends <- DoubleEnds
  Delay <- DoubleDelay
  Sources = {0}
  Delays = {0, 2}
  TxTimes = {1, 2}
  TunePercent = 100
  StopTime = 4
  MaxTime = 20
  MaxCalls = 4
SPECIFICATION Spec
INVARIANT NoStraggler
CHECK_DEADLOCK FALSE
