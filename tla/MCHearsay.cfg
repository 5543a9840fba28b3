SPECIFICATION BoundedSpec
CONSTANTS
  Node <- Trio
  Addr <- Trio
  Owner <- OwnAddress
  Advertised <- OwnAddress
  Seeds <- SeedsOfThree
  Fanout = 1
  SuspectAfterMiss = 1
  DeadAfterMiss = 2
  SuspectAfterTicks = 1
  DeadAfterTicks = 2
  MaxBatch = 2
  MaxUint64 = 2
  ClockSteps = FALSE
  MaxCrashes = 1
  MaxLoad = 2
  MaxRounds = 1
INVARIANTS
  IncarnationsOwned
PROPERTIES
  HearsayNeverClears
  IncarnationsKept
