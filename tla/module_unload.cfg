SPECIFICATION Spec
CONSTANTS
  Forks = {f1, f2}
  maxForksPerCall = 1
INVARIANTS
  StateOutlivesShards
CHECK_DEADLOCK FALSE
