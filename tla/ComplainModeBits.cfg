SPECIFICATION Spec
CONSTANTS
  WordBits = 3
  NumWords = 3
  Supported = 7
INVARIANTS
  SeqWordsHoldTheSets
  ChunkWordsHoldTheSets
