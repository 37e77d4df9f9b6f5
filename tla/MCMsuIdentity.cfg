SPECIFICATION Spec
CONSTANTS
  Requests <- MCRequests
  StoredInfos <- MCStoredInfos
  MaxGroup = 1
  ClientIP = 5
  Addresses = {4, 5, 6}
INVARIANTS
  IdentityTypeOK
  DiscoveryReadsBack
  GroupIsAsReported
  AnswersFit
  SimAcceptsKnown
