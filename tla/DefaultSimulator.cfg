CONSTANTS
  Contexts = {c1}
  NoContext = none
  Delays = {0, 1}
  UidModulus = 16
  MaxEvents = 3
SPECIFICATION FairSpec
INVARIANTS TypeOK ExpiredIsExact CancelledNeverInvoked UnscheduledCountsQueue NoEventLostOrDoubled
PROPERTIES RunsInKeyOrder InjectedEventIsMoved
