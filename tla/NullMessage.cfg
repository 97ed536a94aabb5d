CONSTANTS
  l1 = l1
  l2 = l2
  NoArg = NoArg
  Ranks = {0, 1, 2}
  Links = {l1, l2}
  Ends <- ChainEnds
  Delay <- ChainDelay
  Sources = {1}
  Delays = {0, 1}
  TxTimes = {1, 2}
  TunePercent = 100
  StopTime = 3
  MaxTime = 20
  MaxCalls = 3
SPECIFICATION FairSpec
INVARIANTS NoStraggler GuaranteesHold NullMessagesGoOn
PROPERTY EveryRunReturns
CHECK_DEADLOCK FALSE
