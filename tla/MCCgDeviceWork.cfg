SPECIFICATION Spec
CONSTANTS
  N = 3
  Sides <- MCSides
  Steps = 2
  Passes = 1
  DeviceWork = TRUE
INVARIANT GhostsOfThisStep
CHECK_DEADLOCK FALSE
