SPECIFICATION FairSpec
CONSTANTS
  c1 = c1
  c2 = c2
  k1 = k1
  k2 = k2
  Sockets <- TwoSockets
  NoSocket = NoSocket
  Callers <- TwoCallers
  Calls <- StopAndModify
  Hellos = {"valid", "invalid"}
  LateHandshakes = FALSE
  MaxPendingTexts = 1
  RingFrames = 1
  BufferFrames = 1
  CoalesceFrames = 1
INVARIANTS
  NoSocketLeak
PROPERTIES
  SessionMovesOn
