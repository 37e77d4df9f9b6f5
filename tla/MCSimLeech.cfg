SPECIFICATION SimSpec
CONSTANTS
  MaxChunk = 2
  MaxSeq = 2
  CounterRange = 1
  Faults = {"open", "socket", "send", "write"}
  Syncs <- ShortTail
INVARIANTS
  SimInv
  PassedMeansHanded
  BitsWereWritten
  HandlesAreLive
  DeafOnlyAfterFailedStart
  NoDescriptorLeft
PROPERTIES
  SilenceChangesNothing
  ImplementsSession
