SPECIFICATION Spec
CONSTANTS
  N = 3
  Cases = 1
  Series = 1
  Programs = {"alltoall", "cg_step"}
INVARIANT ExitCodesAgree
CHECK_DEADLOCK FALSE
