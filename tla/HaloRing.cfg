SPECIFICATION FairSpec
CONSTANTS
  N = 2
  Halo = 4
  MaxGrid = 3
  MinPerBlock = 1
  Sizes = 2
  Iterations = 2
  Warmup = 1
  SteadySamples = 1
  IsolatedSamples = 1
INVARIANTS
  WaitGatesData
  HostOwnsHalo
  ValidatesLastExchange
  BaseIsSignalTotal
PROPERTIES
  ImplementsRing
  Termination
CHECK_DEADLOCK FALSE
