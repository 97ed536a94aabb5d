CONSTANTS
  r1 = r1
  r2 = r2
  r3 = r3
  Ranks = {r1, r2, r3}
  Links <- ChainLinks
  Delays = {0, 2}
  TxTimes = {0, 1}
  LookAheads = {1}
  MaxTime = 12
  Horizon = 10
  MaxEvents = 2
  MaxRuns = 1
SPECIFICATION FairSpec
INVARIANTS TypeOK NoStraggler NoEventInPast FinishedIsGlobal
PROPERTIES WindowsMoveForward EveryRunReturns
