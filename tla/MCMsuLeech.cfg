SPECIFICATION Spec
CONSTANTS
  MaxChunk = 3
  MaxSeq = 2
  CounterRange = 2
  Faults = {}
  Syncs <- ThreeChunksOnly
INVARIANTS
  TypeOK
  MarkedChunksWereDelivered
  BitsBelongToTheirChunk
PROPERTIES
  MarksAreKept
  NoReturnToRunning
