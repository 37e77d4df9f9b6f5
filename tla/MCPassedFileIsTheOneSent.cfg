SPECIFICATION RamSpec
CONSTANTS
  MaxChunk = 2
  MaxSeq = 2
  MaxSize = 3
  CounterRange = 2
  Faults = {}
  Syncs <- ShortTailOnly
INVARIANT
  PassedFileIsTheOneSent
