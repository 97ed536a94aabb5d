CONSTANTS
  MaxBuckets = 8
  MaxQueued = 9
  MaxRemove = 5
  Events <- MCEvents
SPECIFICATION Spec
INVARIANT RepresentationHolds
PROPERTY ImplementsEventList
CHECK_DEADLOCK FALSE
