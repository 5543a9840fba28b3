SPECIFICATION LiveSpec
CONSTANTS
  Node <- Pair
  Item <- One
  Score <- Pair
  Stamp <- One
  Kmax = 1
  MaxUint64 = 3
  MaxRange = 2
  SUMIssuer = {1}
  LocalCandidate <- TwoCandidates
  QueueSize = 1
  Capacity <- CapacityOne
  Fanout = 1
  MaxDeltas = 2
  MaxRestarts = 1
  MaxLoad = 1
INVARIANTS
  HistoryServes
  CompleteIsExact
PROPERTIES
  Replicates
  Convergence
