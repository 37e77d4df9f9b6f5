SPECIFICATION ListenSpec
CONSTANTS
  MaxChunk = 1
  MaxSeq = 2
  CounterRange = 2
  Faults = {"open", "socket", "send"}
  Syncs <- OneChunk
  Transactions = {1, 2}
  Groups = {1}
INVARIANTS
  ListenInv
  StatusIsTheOutcome
PROPERTIES
  ImplementsSession
