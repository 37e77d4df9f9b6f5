SPECIFICATION SystemSpec
CONSTANTS
  MaxChunk = 2
  MaxSeq = 2
  CounterRange = 2
  Faults = {"open"}
  Syncs <- BothTails
  ScmRetries = 1
  CcmRetries = 1
  MaxLoss = 3
INVARIANTS
  SystemInv
PROPERTIES
  RequestsMeetTheServer
  SessionsEnd
  FewLossesAreRepaired
  DeafnessEnds
