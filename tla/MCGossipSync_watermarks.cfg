SPECIFICATION Spec
CONSTANTS
  Node <- Pair
  Item <- One
  Score <- Pair
  Stamp <- One
  Kmax = 1
  MaxUint64 = 3
  MaxRange = 2
  SUMIssuer = {1}
  LocalCandidate <- OneCandidate
  QueueSize = 1
  Capacity <- CapacityOne
  Fanout = 1
  MaxDeltas = 2
  MaxRestarts = 0
  MaxLoad = 1
INVARIANT
  WatermarksCovered
