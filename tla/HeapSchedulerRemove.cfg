CONSTANTS
  MaxQueued = 7
  MaxRemove = 7
  MaxTs = 8
  Events <- MCEvents
SPECIFICATION Spec
INVARIANT RootIsEarliest
CHECK_DEADLOCK FALSE
