CONSTANTS
  w1 = w1
  w2 = w2
  Workers = {w1, w2}
  JobList <- MCJobList
SPECIFICATION FairSpec
INVARIANTS JobsAccounted SuccessIsHonest  SuccessIsReported
PROPERTIES RunReturns WorkersEnd
CHECK_DEADLOCK FALSE
