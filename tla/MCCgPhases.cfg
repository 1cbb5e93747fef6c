SPECIFICATION Spec
CONSTANTS
  N = 3
  Sides <- MCSides
  Warmup = 1
  Iterations = 2
INVARIANT PhaseSampleIsOnePhase
CHECK_DEADLOCK FALSE
