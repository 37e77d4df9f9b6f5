SPECIFICATION SimSpec
CONSTANTS
  MaxChunk = 2
  MaxSeq = 2
  CounterRange = 1
  Faults = {}
  Syncs <- ShortTail
INVARIANTS
  ScmEndsWithItsChunk
