SPECIFICATION Spec
CONSTANTS
  MaxChunk = 2
  MaxSeq = 2
  CounterRange = 2
  Faults = {"open", "socket", "send", "recv", "write"}
  Syncs <- BothTails
INVARIANTS
  Inv
  RunningHasChunk
  PassedMeansDelivered
  ScmNeverHoldsEmptyMiss
  SessionsStartClean
PROPERTIES
  ScmIsAskedFor
  ImplementsSession
