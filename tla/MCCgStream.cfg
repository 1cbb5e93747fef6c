SPECIFICATION FairSpec
CONSTANTS
  N = 3
  Sides <- MCSides
  Warmup = 1
  Iterations = 2
INVARIANTS  GhostsOfThisStep ValidatesLastStep SampleIsOneStep
PROPERTY Termination
CHECK_DEADLOCK FALSE
