SPECIFICATION CallsSpec
CONSTANTS
  N = 3
  Cases = 2
  Series = 2
  Calls = 2
  Programs = {"allreduce", "alltoall", "moe", "cg_step"}
INVARIANTS
  StatsOfOneSeries
  VerdictIsConjunction
  HandedBackCodesAgree
  ValidatesLastCall
  RefillsAtRest
PROPERTY Termination
CHECK_DEADLOCK FALSE
