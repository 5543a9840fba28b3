SPECIFICATION Spec
CONSTANTS
  Node <- MCNode
  Item <- MCItem
  Score <- MCScore
  Stamp <- MCStamp
  Kmax = 1
  MaxUint64 = 2
  Self = 1
  SyncMode = "always"
  BatchSize = 2
  Increment = {1, 2}
  LocalCandidate <- MCLocalCandidate
  PeerFragment <- MCPeerFragment
  Fault = {"syncFail", "powerLoss"}
  MaxLog = 3
  MaxSubmitted = 3
INVARIANTS
  TypeOK
  IssuedSurvive
  JournaledBeforeVisible
  OwnCountBounds
  FreshSequence
  StartupSucceeds
