SPECIFICATION Spec
CONSTANTS
  N = 3
  Tokens = 2
  Rounds = 2
INVARIANTS PlansFit ExpertHoldsItsTokens TokensComeBack
PROPERTY Termination
CHECK_DEADLOCK FALSE
