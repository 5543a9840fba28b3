SPECIFICATION Spec
CHECK_DEADLOCK FALSE
CONSTANTS
  Node <- MCNode
  Item <- MCItem
  Score <- MCScore
  Stamp <- MCStamp
  Kmax = 1
  MaxUint64 = 3
  Self = 1
  SyncMode = "none"
  BatchSize = 2
  Increment = {1}
  LocalCandidate <- MCLocalCandidate
  PeerFragment <- MCPeerFragment
  Fault = {"shortWrite"}
  MaxLog = 4
  MaxSubmitted = 2
INVARIANTS
  RecoveryExact
  CleanShutdown
