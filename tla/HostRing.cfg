SPECIFICATION FairSpec
CONSTANTS
  N = 2
  Sizes = 2
  Iterations = 3
  Warmup = 2
  SteadySamples = 2
  IsolatedSamples = 1
INVARIANTS
  HaloFacesNeighbour
  BatchesSeparate
PROPERTIES
  ImplementsRing
  Termination
CHECK_DEADLOCK FALSE
