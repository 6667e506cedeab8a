SPECIFICATION FairSpec
CONSTANTS
  HighWatermark = 1
  LowWatermark = 0
  HandoffBytes = 2
  RingBytes = 2
  ReadBytes = 1
  PoolDries = FALSE
  ReadAhead = 1
  MaxMessage = 2
  MaxBytes = 4
  MaxClears = 2
  MaxMarks = 2
  MaxReconnects = 1
  MaxModifies = 1
INVARIANTS
  MutedUntilMark
  MarksMatchAudio
PROPERTIES
  NoStaleAudio
  OverflowIsExplained
  PauseEnds
  MarksAreSettled
