SPECIFICATION Spec
CONSTANTS
  Node <- MCNode
  Item <- MCItem
  Score <- MCScore
  Stamp <- MCStamp
  Kmax = 1
  MaxUint64 = 3
  Self = 1
  SyncMode = "batch"
  BatchSize = 2
  Increment = {1}
  LocalCandidate <- OneCandidate
  PeerFragment <- OnePeerFragment
  Fault = {"syncFail", "powerLoss", "badFragment"}
  MaxLog = 3
  MaxSubmitted = 2
INVARIANTS
  BoundedLoss
