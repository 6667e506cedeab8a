SPECIFICATION Spec
CONSTANTS
  MinCapacity = 3
  MaxCapacityLog = 3
  IndexSpan = 8
  Bytes = {0, 1}
  MaxFrame = 3
  MaxRead = 3
PROPERTIES
  ImplementsFifo
