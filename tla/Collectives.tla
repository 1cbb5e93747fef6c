---------------------------- MODULE Collectives -----------------------------
(***************************************************************************)
(* The allreduce and alltoall microbenchmarks, composed with the gathering *)
(* of their statistics and verdicts (ShmemVerdict).  Each size is filled,  *)
(* aligned by a barrier, and measured by Calls collective calls.  OSHMPI   *)
(* builds its alltoall from puts into the peers' receive buffers; all the  *)
(* others call a collective of a library, or emulate one by a group of     *)
(* sends and receives (NCCL), which matches the calls by their order.      *)
(* OSHMPI reports through ShmemVerdict, the others by two MPI_Allreduce,   *)
(* of the statistics and then of the verdict; the allreduce of MPI makes   *)
(* them in the other order.                                                *)
(***************************************************************************)
EXTENDS ShmemVerdict

CONSTANT Calls   (* Warm-up and timed calls of a size, at least one each.  *)

ASSUME CallsAssumption == Calls \in Nat /\ Calls >= 2

VARIABLES
  library,  (* "oshmpi", "mpi", or any other: NVSHMEM, NCCL and oneCCL.    *)
  stage,    (* Where each PE is in measuring a size.                       *)
  entered,  (* The collective calls it has entered, over all sizes.        *)
  recv,     (* recv[p][q]: the call whose block, or contribution, of q     *)
            (* p's receive buffer holds; 0 when cleared or not written.    *)
  blocks    (* OSHMPI's blocks in flight.                                  *)

calls == <<library, stage, entered, recv, blocks>>
allVars == <<vars, calls>>

Collective == program \in {"allreduce", "alltoall"}
Puts == library = "oshmpi" /\ program = "alltoall"
VerdictFirst == library = "mpi" /\ program = "allreduce"
Start == IF Collective THEN "fill" ELSE "measured"

(* The result is allocated and cleared, and the sources of allreduce are   *)
(* filled, before the first size; there is a barrier before any is used.   *)
(* moe and cg_step have their exchanges in modules of their own.           *)
InitCalls ==
  /\ Init
  /\ library \in {"oshmpi", "mpi", "other"}
  /\ ~Collective => library = "oshmpi"
  /\ stage = [p \in PE |-> Start]
  /\ entered = [p \in PE |-> 0]
  /\ recv = [p \in PE |-> [q \in PE |-> 0]]
  /\ blocks = {}

Move(p, from, to) == stage[p] = from /\ stage' = [stage EXCEPT ![p] = to]

-----------------------------------------------------------------------------
(* The measured calls.                                                     *)

(* Fault: no barrier separates the clearing from the first puts.           *)
FillWithoutBarrier(p) ==
  /\ Move(p, "fill", "ready")
  /\ recv' = [recv EXCEPT ![p] = [q \in PE |-> 0]]
  /\ UNCHANGED <<vars, library, entered, blocks>>

(* alltoall refills its send and clears its receive buffer for each size;  *)
(* allreduce leaves the result of the size before.                         *)
Fill(p) ==
  /\ Move(p, "fill", "align")
  /\ recv' = IF program = "alltoall" THEN [recv EXCEPT ![p] = [q \in PE |-> 0]] ELSE recv
  /\ UNCHANGED <<vars, library, entered, blocks>>

(* The barrier before the calls of a size, and the one that ends each      *)
(* alltoall of OSHMPI.                                                     *)
Align ==
  /\ \E from \in {"align", "callEnd"} : \A p \in PE : stage[p] = from
  /\ stage' = [p \in PE |-> IF stage[p] = "align" \/ entered[p] < series[p] * Calls
                            THEN "ready" ELSE "measured"]
  /\ UNCHANGED <<vars, library, entered, recv, blocks>>

(* The block of src for dst: its values name both, the model the call too. *)
Block(src, dst, call) == [src |-> src, dst |-> dst, call |-> call]

(* A call is entered.  OSHMPI's alltoall copies its own block on the       *)
(* device and puts each of the others, to be delivered at any time.        *)
Enter(p) ==
  /\ Move(p, "ready", IF Puts THEN "quiet" ELSE "inCall")
  /\ entered' = [entered EXCEPT ![p] = @ + 1]
  /\ recv' = IF Puts THEN [recv EXCEPT ![p][p] = entered'[p]] ELSE recv
  /\ blocks' = IF Puts
               THEN blocks \cup {Block(p, q, entered'[p]) : q \in PE \ {p}}
               ELSE blocks
  /\ UNCHANGED <<vars, library>>

DeliverBlock(b) ==
  /\ recv' = [recv EXCEPT ![b.dst][b.src] = b.call]
  /\ blocks' = blocks \ {b}
  /\ UNCHANGED <<vars, library, stage, entered>>

(* Fault: puts to device memory outlive the quiet, and the device is not   *)
(* synchronised before the barrier.                                        *)
QuietOnly(p) ==
  /\ Move(p, "quiet", "callEnd")
  /\ UNCHANGED <<vars, library, entered, recv, blocks>>

(* shmem_quiet, and cudaDeviceSynchronize for device work that outlives it.*)
QuietBlocks(p) ==
  /\ \A b \in blocks : b.src # p
  /\ Move(p, "quiet", "callEnd")
  /\ UNCHANGED <<vars, library, entered, recv, blocks>>

(* A library's collective returns with the block or contribution of the    *)
(* same call of every rank, so once all have entered it; no barrier        *)
(* follows.                                                                *)
Return(p) ==
  /\ \A q \in PE : entered[q] >= entered[p]
  /\ Move(p, "inCall", IF entered[p] < series[p] * Calls THEN "ready" ELSE "measured")
  /\ recv' = [recv EXCEPT ![p] = [q \in PE |-> entered[p]]]
  /\ UNCHANGED <<vars, library, entered, blocks>>

-----------------------------------------------------------------------------
(* Statistics and verdict.                                                 *)

(* The next size follows the last report.                                  *)
NextStage(p) == IF pc'[p] = "stats" /\ series'[p] # series[p] THEN Start ELSE stage[p]

(* OSHMPI: the measured samples go through collective_stats.               *)
Report ==
  /\ library = "oshmpi"
  /\ \/ \E p \in PE : PEStep(p) /\ (pc[p] = "stats" => stage[p] = "measured")
     \/ Barrier
     \/ \E m \in puts : Deliver(m)
  /\ stage' = [p \in PE |-> NextStage(p)]
  /\ UNCHANGED <<library, entered, recv, blocks>>

Measured(p) == pc[p] = "stats" /\ stage[p] = "measured"

(* After the second of the two, the next size or the end.                  *)
EndOfReport ==
  /\ pc' = [p \in PE |-> NextCase(p)]
  /\ series' = [p \in PE |-> IF series[p] < Last THEN series[p] + 1 ELSE series[p]]
  /\ stage' = [p \in PE |-> NextStage(p)]

(* MPI_Allreduce of the samples: all ranks take part, all get the maximum. *)
MpiStats ==
  /\ library # "oshmpi"
  /\ \A p \in PE : IF VerdictFirst THEN pc[p] = "statsBarrier" ELSE Measured(p)
  /\ reduced' = {series[p] : p \in PE}
  /\ IF VerdictFirst THEN EndOfReport
                     ELSE pc' = [p \in PE |-> "validate"] /\ UNCHANGED <<series, stage>>
  /\ UNCHANGED <<program, puts, gather, okByPE, local, global, allOk, library, entered, recv, blocks>>

(* The rank looks at its receive buffer.                                   *)
Validates(p) == IF VerdictFirst THEN Measured(p) ELSE pc[p] = "validate"

MpiValidate(p) ==
  /\ library # "oshmpi" /\ Validates(p)
  /\ pc' = [pc EXCEPT ![p] = "combine"]
  /\ \E ok \in BOOLEAN : local' = [local EXCEPT ![p] = ok]
  /\ UNCHANGED <<program, series, puts, gather, okByPE, reduced, global, allOk, calls>>

(* MPI_Allreduce of the verdicts with MPI_MIN, or MPI_LAND.                *)
MpiVerdict ==
  /\ library # "oshmpi"
  /\ \A p \in PE : pc[p] = "combine"
  /\ global' = [p \in PE |-> \A q \in PE : local[q]]
  /\ allOk' = [p \in PE |-> allOk[p] /\ global'[p]]
  /\ IF VerdictFirst THEN pc' = [p \in PE |-> "statsBarrier"] /\ UNCHANGED <<series, stage>>
                     ELSE EndOfReport
  /\ UNCHANGED <<program, puts, gather, okByPE, reduced, local, library, entered, recv, blocks>>

-----------------------------------------------------------------------------
Measure(p) == Fill(p) \/ Enter(p) \/ QuietBlocks(p) \/ Return(p)

NextCalls ==
  \/ \E p \in PE : Measure(p) \/ MpiValidate(p)
  \/ Align
  \/ \E b \in blocks : DeliverBlock(b)
  \/ Report
  \/ MpiStats
  \/ MpiVerdict

(* Every PE keeps running; barriers, collectives and deliveries end.       *)
CallsSpec ==
  /\ InitCalls
  /\ [][NextCalls]_allVars
  /\ \A p \in PE : WF_allVars(Measure(p)) /\ WF_allVars(MpiValidate(p))
  /\ WF_allVars(Align)
  /\ WF_allVars(\E b \in blocks : DeliverBlock(b))
  /\ WF_allVars(Report)
  /\ WF_allVars(MpiStats)
  /\ WF_allVars(MpiVerdict)

-----------------------------------------------------------------------------
(* Properties.                                                             *)

(* What a rank validates is what every rank sent in the last call of this  *)
(* size.  The check of the code could not tell: an allreduce has the same  *)
(* sum, and an alltoall the same blocks, in every call of every size.      *)
ValidatesLastCall ==
  Collective => \A p, q \in PE : Validates(p) => recv[p][q] = series[p] * Calls

(* While a rank refills its send buffer or clears its receive buffer, no   *)
(* block that is read from the one or written to the other is in flight.   *)
RefillsAtRest ==
  \A p \in PE : stage[p] \in {"fill", "measured"} =>
    \A b \in blocks : p \notin {b.src, b.dst}

(* Every PE exits: all take part in the same barriers and collectives, in  *)
(* the same order, whatever each one's validation says.                    *)
Termination == <>(\A p \in PE : pc[p] = "exit")

=============================================================================
