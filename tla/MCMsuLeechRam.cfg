SPECIFICATION RamSpec
CONSTANTS
  MaxChunk = 2
  MaxSeq = 2
  MaxSize = 2
  CounterRange = 1
  Faults = {}
  Syncs <- BothTails
INVARIANTS
  RamInv
  TidyChunksAreInPlace
  TidyCountMatchesBits
  TidyFileIsTheOneSent
