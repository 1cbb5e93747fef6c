SPECIFICATION FairSpec
CONSTANTS
  N = 3
  Routings = 2
  Programs = {"mpi", "nccl", "nccl_moe", "oneccl", "oneccl_moe", "oneccl_moe_unsupported",
              "nvshmem", "nvshmem_unchecked", "nvshmem_moe", "oshmpi", "oshmpi_staged", "oshmpi_moe"}
INVARIANTS
  HeldWhileUsed
  HandlersUseLiveObjects
  ReleasedBeforeFinalize
PROPERTY Termination
CHECK_DEADLOCK FALSE
