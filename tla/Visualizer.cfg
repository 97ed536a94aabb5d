CONSTANTS
  Periods = {1, 2}
  MaxUser = 4
  MaxMessages = 2
  MaxTimers = 3
SPECIFICATION FairSpec
INVARIANTS NoMessageLost SimStaysNearView PlayKeepsTimer
PROPERTIES PlayAdvances QuitCompletes
CHECK_DEADLOCK FALSE
