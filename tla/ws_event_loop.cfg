SPECIFICATION LoopFairSpec
CONSTANTS
  Posters = {p1, p2}
  MaxPosts = 2
  MaxTimers = 2
  MaxDelay = 1
  MaxNow = 2
INVARIANTS
  NothingLostOrRepeated
PROPERTIES
  EveryWakeupCounts
CHECK_DEADLOCK FALSE
