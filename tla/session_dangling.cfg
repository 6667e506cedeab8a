SPECIFICATION Spec
CONSTANTS
  c1 = c1
  c2 = c2
  k1 = k1
  k2 = k2
  Sockets <- TwoSockets
  NoSocket = NoSocket
  Callers <- TwoCallers
  Calls <- AllCalls
  Hellos = {"valid"}
  LateHandshakes = FALSE
  MaxPendingTexts = 1
  RingFrames = 1
  BufferFrames = 1
  CoalesceFrames = 1
SYMMETRY SocketSymmetry
INVARIANTS
  NoDanglingCallback
