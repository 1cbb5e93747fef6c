SPECIFICATION MCSpec
CONSTANTS
  Blocks = 3
  Active = {0, 1}
  Sizes = 2
  Warmup = 1
  Iterations = 3
INVARIANT LegsArrive
PROPERTIES FlagGrows PEsTakeTurns EveryoneFinishes
CHECK_DEADLOCK FALSE
