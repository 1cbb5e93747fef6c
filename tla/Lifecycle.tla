------------------------------ MODULE Lifecycle ------------------------------
(***************************************************************************)
(* main of the benchmarks from MPI_Init or shmem_init to the exit of every *)
(* process: setting up a device, a communicator, a runtime or a memory     *)
(* space, the measured part, taking down what was set up, and the handler  *)
(* around it all.  Any rank may throw on its own at every check of a call  *)
(* (check_cuda, check_nccl, check_nvshmem, a null pointer), while others   *)
(* wait for it in a collective call, and only the handlers end them.       *)
(* Sizes are left out; the measured part is one collective operation.      *)
(***************************************************************************)
EXTENDS Integers, Sequences

CONSTANTS
  N,        (* Number of ranks.                                            *)
  Routings, (* Routing cases of moe, which allocates for each anew.        *)
  Programs  (* The kinds of programs considered.                           *)

Nccl == {"nccl", "nccl_moe"}
OneCcl == {"oneccl", "oneccl_moe", "oneccl_moe_unsupported"}
(* NVSHMEM's allreduce, then cg_step, halo_1d, alltoall and pingpong, then  *)
(* moe.                                                                    *)
Nvshmem == {"nvshmem", "nvshmem_unchecked", "nvshmem_moe"}
Oshmpi == {"oshmpi", "oshmpi_staged", "oshmpi_moe"}

ASSUME LifecycleAssumption ==
  /\ N \in Nat \ {0}
  /\ Routings \in Nat \ {0}
  /\ Programs \subseteq {"mpi"} \cup Nccl \cup OneCcl \cup Nvshmem \cup Oshmpi

PE == 0 .. N-1

VARIABLES
  program,  (* What runs.                                                  *)
  at,       (* The operation each rank has come to.                        *)
  inside,   (* Whether it has begun it.                                    *)
  mode,     (* In the try block, in the handler, or gone.                  *)
  holds,    (* The library objects that live in each rank.                 *)
  handles,  (* The objects its handler would clean up: what is not null.   *)
  aborting  (* Whether a rank has ended the whole job.                     *)

vars == <<program, at, inside, mode, holds, handles, aborting>>

Objects == {"stream", "kvs", "comm", "heap", "space"}

-----------------------------------------------------------------------------
(* The operations of a program, in order.  The operands of run are put in  *)
(* place before align, the barrier in front of the measured part.          *)

Measured == <<"align", "run">>

MpiSetup == <<"device", "alloc">>
MpiTeardown == <<"free", "finalize">>

NcclSetup == <<"device", "stream", "id", "comm", "alloc">>
NcclTeardown == <<"free", "commDestroy", "streamDestroy", "finalize">>
NcclMoeSetup == <<"device", "stream", "id", "comm">>
NcclMoeTeardown == <<"commDestroy", "streamDestroy", "finalize">>

OneCclSetup == <<"device", "id", "comm", "alloc">>
(* Fault: the objects live until main returns.                             *)
OneCclTeardownUnscoped == <<"finalize", "scopeEnd">>
OneCclTeardown == <<"scopeEnd", "finalize">>
OneCclMoeSetup == <<"device", "id", "comm", "probe">>
OneCclMoeTeardown == <<"finalize", "scopeEnd">>

NvshmemSetup == <<"device", "attach", "layout", "symAlloc">>
NvshmemTeardown == <<"symFree", "free", "detach", "finalize">>
NvshmemMoeSetup == <<"device", "attach", "layout">>
NvshmemMoeTeardown == <<"detach", "finalize">>
NvshmemMoeCase == <<"symAlloc">> \o Measured \o <<"symFree">>

OshmpiSetup == <<"device", "space", "symAlloc">>
OshmpiTeardown == <<"symFree", "spaceDestroy", "shmemFinalize">>
StagedSetup == <<"device", "symAlloc", "alloc">>
StagedTeardown == <<"symFree", "free", "shmemFinalize">>
OshmpiMoeSetup == <<"device", "symAlloc">>
OshmpiMoeCase == <<"space", "symAlloc">> \o Measured \o <<"symFree", "spaceDestroy">>
OshmpiMoeTeardown == <<"symFree", "shmemFinalize">>

(* The same case for every routing.                                        *)
PerRouting(case) == [i \in 1 .. Routings * Len(case) |-> case[((i - 1) % Len(case)) + 1]]

Operations(p) ==
  CASE p = "mpi" -> MpiSetup \o Measured \o MpiTeardown
    [] p = "nccl" -> NcclSetup \o Measured \o NcclTeardown
    [] p = "nccl_moe" -> NcclMoeSetup \o Measured \o NcclMoeTeardown
    [] p = "oneccl" -> OneCclSetup \o Measured \o OneCclTeardown
    [] p = "oneccl_moe" -> OneCclMoeSetup \o Measured \o OneCclMoeTeardown
    [] p = "oneccl_moe_unsupported" -> OneCclMoeSetup \o OneCclMoeTeardown
    [] p \in {"nvshmem", "nvshmem_unchecked"} -> NvshmemSetup \o Measured \o NvshmemTeardown
    [] p = "nvshmem_moe" ->
         NvshmemMoeSetup \o PerRouting(NvshmemMoeCase) \o NvshmemMoeTeardown
    [] p = "oshmpi" -> OshmpiSetup \o Measured \o OshmpiTeardown
    [] p = "oshmpi_staged" -> StagedSetup \o Measured \o StagedTeardown
    [] p = "oshmpi_moe" ->
         OshmpiMoeSetup \o PerRouting(OshmpiMoeCase) \o OshmpiMoeTeardown

Op(p) == Operations(program)[at[p]]

(* Operations that every rank takes part in, and that none leaves before   *)
(* all have begun them.  A rank waits for rank 0 only in the broadcast of  *)
(* the communicator's identifier, and MPI_Finalize may return at once.     *)
Collective ==
  {"align", "run", "comm", "probe", "attach", "detach", "symAlloc", "symFree", "space",
   "spaceDestroy", "shmemFinalize"}
WaitsFor(op) ==
  IF op \in Collective THEN PE ELSE IF op = "id" THEN {0} ELSE {}

(* What an operation brings into being, and what it ends.                  *)
Creates(op) ==
  CASE op = "stream" -> {"stream"}
    [] op = "id" /\ program \in OneCcl -> {"kvs"}
    [] op = "comm" /\ program \in OneCcl -> {"comm", "stream"}
    [] op = "comm" /\ program \in Nccl -> {"comm"}
    [] op = "attach" -> {"heap"}
    [] op = "space" -> {"space"}
    [] OTHER -> {}
Releases(op) ==
  CASE op = "commDestroy" -> {"comm"}
    [] op = "streamDestroy" -> {"stream"}
    [] op = "scopeEnd" -> {"kvs", "comm", "stream"}
    [] op = "detach" -> {"heap"}
    [] op = "spaceDestroy" -> {"space"}
    [] OTHER -> {}

(* The results a program checks, and throws on: those of allreduce and moe *)
(* check the status of nvshmemx_init_attr, the other NVSHMEM programs      *)
(* ignore it.                                                              *)
IgnoresAttach == program = "nvshmem_unchecked"
Checked ==
  {"device", "stream", "id", "comm", "probe", "layout", "alloc", "symAlloc", "space",
   "align", "run", "free", "commDestroy", "streamDestroy"}
    \cup IF IgnoresAttach THEN {} ELSE {"attach"}

(* The objects a handler knows of: NCCL's two pointers, and the flag       *)
(* nvshmem_initialized.  Of the NCCL programs only moe sets its pointers   *)
(* back to null when it destroys what they point to.                       *)
Known == IF program \in Nccl THEN {"comm", "stream"}
         ELSE IF program \in Nvshmem THEN {"heap"} ELSE {}

(* Fault: no program sets them back.                                       *)
SetBackNever(op) == {}
SetBack(op) == IF program = "nccl" THEN {} ELSE Releases(op)

-----------------------------------------------------------------------------
Init ==
  /\ program \in Programs
  /\ at = [p \in PE |-> 1]
  /\ inside = [p \in PE |-> FALSE]
  /\ mode = [p \in PE |-> "try"]
  /\ holds = [p \in PE |-> {}]
  /\ handles = [p \in PE |-> {}]
  /\ aborting = FALSE

Running(p) == mode[p] = "try" /\ at[p] <= Len(Operations(program))

(* A rank begins its next operation.                                       *)
Begin(p) ==
  /\ Running(p)
  /\ ~inside[p]
  /\ inside' = [inside EXCEPT ![p] = TRUE]
  /\ UNCHANGED <<program, at, mode, holds, handles, aborting>>

Arrived(p, i) == at[p] > i \/ (at[p] = i /\ inside[p])

(* A rank whose attach failed unnoticed comes to the layout check with a   *)
(* runtime that is not up.                                                 *)
Detached(p) ==
  /\ Running(p) /\ IgnoresAttach
  /\ Op(p) = "layout" /\ "heap" \notin holds[p]

(* The operation returns.                                                  *)
Return(p) ==
  /\ Running(p)
  /\ inside[p]
  /\ ~Detached(p)
  /\ \A q \in WaitsFor(Op(p)) : Arrived(q, at[p])
  /\ at' = [at EXCEPT ![p] = @ + 1]
  /\ inside' = [inside EXCEPT ![p] = FALSE]
  /\ holds' = [holds EXCEPT ![p] = (@ \cup Creates(Op(p))) \ Releases(Op(p))]
  /\ handles' = [handles EXCEPT ![p] = (@ \cup (Creates(Op(p)) \cap Known)) \ SetBack(Op(p))]
  /\ UNCHANGED <<program, mode, aborting>>

(* nvshmemx_init_attr fails in one rank, which does not look, and sets     *)
(* nvshmem_initialized all the same.                                       *)
AttachFails(p) ==
  /\ Running(p)
  /\ inside[p]
  /\ IgnoresAttach /\ Op(p) = "attach"
  /\ at' = [at EXCEPT ![p] = @ + 1]
  /\ inside' = [inside EXCEPT ![p] = FALSE]
  /\ handles' = [handles EXCEPT ![p] = @ \cup {"heap"}]
  /\ UNCHANGED <<program, mode, holds, aborting>>

(* Fault: whatever was set up is destroyed where the try block is left.    *)
ThrowReleases(p) ==
  /\ Running(p)
  /\ Op(p) \in Checked
  /\ mode' = [mode EXCEPT ![p] = "catch"]
  /\ holds' = [holds EXCEPT ![p] = {}]
  /\ UNCHANGED <<program, at, inside, handles, aborting>>

(* A check fails, before or in an operation, in one rank.  Leaving the try *)
(* block destroys oneCCL's objects; raw pointers and spaces stay.          *)
Throw(p) ==
  /\ Running(p)
  /\ Op(p) \in Checked
  /\ mode' = [mode EXCEPT ![p] = "catch"]
  /\ holds' = [holds EXCEPT ![p] = IF program \in OneCcl THEN {} ELSE @]
  /\ UNCHANGED <<program, at, inside, handles, aborting>>

(* The PEs that a runtime that is not up reports are not the ranks of MPI. *)
LayoutFails(p) == Detached(p) /\ inside[p] /\ Throw(p)

(* main returns.                                                           *)
Exit(p) ==
  /\ mode[p] = "try"
  /\ at[p] > Len(Operations(program))
  /\ mode' = [mode EXCEPT ![p] = "gone"]
  /\ UNCHANGED <<program, at, inside, holds, handles, aborting>>

(* The NCCL programs' handler aborts the communicator and destroys the     *)
(* stream it has pointers to.                                              *)
Cleanup(p) ==
  /\ mode[p] = "catch"
  /\ program \in Nccl
  /\ mode' = [mode EXCEPT ![p] = "abort"]
  /\ holds' = [holds EXCEPT ![p] = @ \ handles[p]]
  /\ UNCHANGED <<program, at, inside, handles, aborting>>

(* The handlers of the one-sided programs end the job through the runtime, *)
(* NVSHMEM's only where its flag is set, and leave spaces and heap alone.  *)
(* On a runtime that is not up the call is taken to end the job as well:   *)
(* should it return, MPI_Abort is next.                                    *)
RuntimeSetUp(p) == program \in Oshmpi \/ "heap" \in handles[p]
GlobalExit(p) ==
  /\ mode[p] = "catch"
  /\ RuntimeSetUp(p)
  /\ mode' = [mode EXCEPT ![p] = "gone"]
  /\ aborting' = TRUE
  /\ UNCHANGED <<program, at, inside, holds, handles>>

(* Fault: the handler only ends its own process.                           *)
MpiAbortSelf(p) ==
  /\ \/ mode[p] = "abort"
     \/ mode[p] = "catch" /\ program \notin Nccl /\ ~RuntimeSetUp(p)
  /\ mode' = [mode EXCEPT ![p] = "gone"]
  /\ UNCHANGED <<program, at, inside, holds, handles, aborting>>

(* MPI_Abort, at the end of every other handler.                           *)
MpiAbort(p) ==
  /\ \/ mode[p] = "abort"
     \/ mode[p] = "catch" /\ program \notin Nccl /\ ~RuntimeSetUp(p)
  /\ mode' = [mode EXCEPT ![p] = "gone"]
  /\ aborting' = TRUE
  /\ UNCHANGED <<program, at, inside, holds, handles>>

(* The launcher ends the processes of a job that was aborted, each in its  *)
(* own time.                                                               *)
Killed(p) ==
  /\ aborting
  /\ mode[p] # "gone"
  /\ mode' = [mode EXCEPT ![p] = "gone"]
  /\ UNCHANGED <<program, at, inside, holds, handles, aborting>>

RankStep(p) ==
  \/ Begin(p) \/ Return(p) \/ LayoutFails(p) \/ Exit(p)
  \/ Cleanup(p) \/ GlobalExit(p) \/ MpiAbort(p) \/ Killed(p)

Next == \E p \in PE : RankStep(p) \/ Throw(p) \/ AttachFails(p)

Spec == Init /\ [][Next]_vars

(* Every process runs and an aborted job is ended.  Nothing makes a call   *)
(* fail, and the layout check does not let a detached rank pass.           *)
Fairness == \A p \in PE : WF_vars(RankStep(p))
FairSpec == Spec /\ Fairness

-----------------------------------------------------------------------------
TypeOK ==
  /\ program \in Programs
  /\ \A p \in PE : at[p] \in 1 .. Len(Operations(program)) + 1
  /\ inside \in [PE -> BOOLEAN]
  /\ mode \in [PE -> {"try", "catch", "abort", "gone"}]
  /\ holds \in [PE -> SUBSET Objects]
  /\ handles \in [PE -> SUBSET Objects]
  /\ aborting \in BOOLEAN

(* While a rank is in the measured part of a one-sided program, every rank *)
(* that is still there has the heap or the space that it puts to: the      *)
(* handlers leave it alone, as their comments ask ("Space cleanup is       *)
(* collective and is unsafe when another PE may still be inside"), and the *)
(* way out frees it together.                                              *)
Shared == IF program \in Nvshmem THEN {"heap"}
          ELSE IF program \in {"oshmpi", "oshmpi_moe"} THEN {"space"} ELSE {}
HeldWhileUsed ==
  \A p, q \in PE :
    (Running(p) /\ Op(p) = "run" /\ inside[p] /\ mode[q] # "gone")
      => Shared \subseteq holds[q]

(* A handler touches only what lives, except in two places.  An NCCL       *)
(* program other than moe whose cudaStreamDestroy fails comes to its       *)
(* handler with a pointer to the communicator it has destroyed just        *)
(* before.  And where nvshmemx_init_attr failed in a program that ignores  *)
(* its status, the layout check throws into a handler that calls           *)
(* nvshmem_global_exit on a runtime that never came up.                    *)
HandlersUseLiveObjects ==
  \A p \in PE :
    mode[p] = "catch" =>
      \/ handles[p] \subseteq holds[p]
      \/ program = "nccl" /\ Op(p) = "streamDestroy"
      \/ IgnoresAttach /\ Op(p) = "layout" /\ "heap" \notin holds[p]

(* A rank enters MPI_Finalize or shmem_finalize with no communicator, heap *)
(* or space left that needs what is finalized, as the scope in the oneCCL  *)
(* programs is there to ensure ("They must therefore be destroyed *before* *)
(* MPI_Finalize").  oneCCL's moe has no such scope, which its own comment  *)
(* notes: "kvs/comm/stream outlive both MPI_Finalize calls".               *)
Finalizing(p) == Running(p) /\ Op(p) \in {"finalize", "shmemFinalize"} /\ inside[p]
ReleasedBeforeFinalize ==
  \A p \in PE : Finalizing(p) => holds[p] = {} \/ program \in OneCcl \ {"oneccl"}

(* Whichever ranks throw, and wherever the others wait for them, every     *)
(* process ends.                                                           *)
Termination == <>(\A p \in PE : mode[p] = "gone")
=============================================================================
