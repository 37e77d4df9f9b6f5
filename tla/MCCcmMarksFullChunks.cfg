SPECIFICATION Spec
CONSTANTS
  MaxChunk = 2
  MaxSeq = 2
  CounterRange = 2
  Faults = {}
  Syncs <- BothTails
INVARIANT
  CcmMarksFullChunks
