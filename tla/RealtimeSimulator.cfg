CONSTANTS
  t1 = t1
  none = none
  Threads = {t1}
  NoThread = none
  Delays = {0, 1, 3}
  SpinTime = 1
  HardLimit = 1
  MaxClock = 4
  MaxEvents = 3
SPECIFICATION FairSpec
INVARIANTS NotEarly NothingInPast NoLostWakeup
PROPERTY StopEndsUnlessRefused
CHECK_DEADLOCK FALSE
