SPECIFICATION StartSpec
CHECK_DEADLOCK FALSE
CONSTANTS
  Threads = {t1, t2, t3}
  Leases = {l1, l2, l3, l4}
  slabSize = 3
  maxTotal = 14
  Numbers <- MCNumbers
  Overflowed <- MCOverflowed
  Rates = {8000, 11025, 16000, 44100, 48000}
  MaxParams = 3
  MaxTries = 6
  PlaybackRates = {2, 4, 6}
  ForkRate = 2
  SessionRate = 4
  FrameBytes = 4
  ScratchBytes = 8
  HandoffBytes = 4
  JitterBytes = 4
  PlaybackRing = 6
  MaxDeclared = 2
  MaxClears = 2
  MaxSamples = 5
INVARIANTS
  Accounting
  WithinCap
  EveryForkFits
  BackoffIsExponential
  
