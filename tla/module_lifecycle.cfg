SPECIFICATION FairModule
CONSTANTS
  Forks = {f1, f2}
  maxForksPerCall = 1
  Shards = {s1, s2}
INVARIANTS
  NoOrphanSession
  DigitsReachForks
  LoadIsExact
PROPERTIES
  NoContextChangeWhileServing
  LoadReturnsToZero
CHECK_DEADLOCK FALSE
