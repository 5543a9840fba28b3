SPECIFICATION LiveSpec
CONSTANTS
  Node <- Pair
  Addr <- Pair
  Owner <- OwnAddress
  Advertised <- OwnAddress
  Seeds <- SeedOfOne
  Fanout = 1
  SuspectAfterMiss = 1
  DeadAfterMiss = 2
  SuspectAfterTicks = 1
  DeadAfterTicks = 2
  MaxBatch = 2
  MaxUint64 = 2
  ClockSteps = TRUE
  MaxCrashes = 1
  MaxLoad = 1
INVARIANT
  TypeOK
PROPERTIES
  IncarnationsKept
  TablesRight
