SPECIFICATION FairSpec
CONSTANTS
  N = 3
  Sides <- MCSides
  Steps = 2
  Passes = 2
  DeviceWork = FALSE
INVARIANTS
  GhostsOfThisStep
  BuffersAtRest
PROPERTY
  Termination
CHECK_DEADLOCK FALSE
