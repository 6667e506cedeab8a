SPECIFICATION FairSpec
CONSTANTS
  slabSize = 3
  PoolSlabs = 2
  RingBytes = 4
  DrainChunk = 3
  SendCap = 5
  EmergencyCap = 2
  CoalesceMax = 2
  MaxFrame = 2
  MaxBytes = 8
INVARIANTS
  BytesConserved
  GaugeCoversBuffer
  SlabsConserved
PROPERTIES
  DegradedOncePerEpisode
  BufferDrains
