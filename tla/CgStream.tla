------------------------------- MODULE CgStream -------------------------------
(***************************************************************************)
(* The two-sided cg_step ({xccl,mpi}/{cuda,sycl}/application/cg_step): a   *)
(* rank's host thread issues the four phases of a step to its device,      *)
(* which runs them in order, and the phases of the ranks meet in the       *)
(* column exchange and in the reduction.                                   *)
(*                                                                         *)
(* With NCCL every phase is queued on a stream and the host synchronises   *)
(* once per step; with oneCCL and MPI every phase is over when it returns. *)
(* NCCL and oneCCL exchange both columns in one group, MPI shifts one way  *)
(* and then the other.  After the headline loop an optional pass times the *)
(* phases one by one.                                                      *)
(***************************************************************************)
EXTENDS CgGrid

CONSTANTS
  Warmup,     (* Warm-up steps of either pass.                             *)
  Iterations  (* Timed steps of either pass.                               *)

ASSUME CgStreamAssumption == Warmup \in Nat /\ Iterations \in Nat \ {0}

VARIABLES
  backend,    (* Which of the programs runs.                               *)
  phasePass,  (* Whether the phases are timed too (GPU_BENCH_CG_PHASES).   *)
  pc,         (* Where each rank's host thread is.                         *)
  side,       (* The index of the grid side it is at.                      *)
  step,       (* Its step, counted over the whole sweep.                   *)
  phase,      (* The phase of that step it issues next, or waits for.      *)
  queue,      (* The operations on its stream, in order.                   *)
  moved,      (* The moves of the operation at the head that are over.     *)
  send,       (* send[p][d]: its send_west and send_east.                  *)
  recv,       (* recv[p][d]: its recv_west and recv_east.                  *)
  ghost,      (* ghost[p][d]: its ghost columns.                           *)
  partial,    (* The step its partial sums are of.                         *)
  result      (* result[p][q]: the step of q's share in its global sums.   *)

run == <<backend, phasePass>>
data == <<send, recv, ghost, partial, result>>
vars == <<run, pc, side, step, phase, queue, moved, data>>

Phases == <<"pack", "halo", "compute", "reduce">>

(* One boundary leaves for, or arrives from, the neighbour at d.           *)
Move == {"out", "in"} \X Dir

Op == [phase : 1 .. 4, step : Nat, moves : SUBSET Move]

StepsPerPass == Warmup + Iterations
StepsPerSide == IF phasePass THEN 2 * StepsPerPass ELSE StepsPerPass

PC == {"init", "aligned", "issue", "sync", "stats", "phaseBarrier", "verdict", "exit"}
AtCollective == {"aligned", "stats", "phaseBarrier", "verdict"}

TypeOK ==
  /\ backend \in {"nccl", "oneccl", "mpi"} /\ phasePass \in BOOLEAN
  /\ pc \in [PE -> PC]
  /\ side \in [PE -> 1 .. Len(Sides)]
  /\ step \in [PE -> 1 .. StepsPerSide * Len(Sides)]
  /\ phase \in [PE -> 1 .. 4]
  /\ queue \in [PE -> Seq(Op)]
  /\ moved \in [PE -> SUBSET Move]
  /\ {send, recv, ghost} \subseteq [PE -> [Dir -> Column]]
  /\ partial \in [PE -> Nat]
  /\ result \in [PE -> [PE -> Nat]]

Init ==
  /\ backend \in {"nccl", "oneccl", "mpi"} /\ phasePass \in BOOLEAN
  /\ pc = [p \in PE |-> "init"]
  /\ side = [p \in PE |-> 1]
  /\ step = [p \in PE |-> 1]
  /\ phase = [p \in PE |-> 1]
  /\ queue = [p \in PE |-> <<>>]
  /\ moved = [p \in PE |-> {}]
  /\ send = [p \in PE |-> [d \in Dir |-> Garbage]]
  /\ recv = [p \in PE |-> [d \in Dir |-> Garbage]]
  /\ ghost = [p \in PE |-> [d \in Dir |-> Garbage]]
  /\ partial = [p \in PE |-> 0]
  /\ result = [p \in PE |-> [q \in PE |-> 0]]

-----------------------------------------------------------------------------
(* The host thread.                                                        *)

(* The pass step s belongs to, and the last step of a pass.                *)
StepOfSide(s) == ((s - 1) % StepsPerSide) + 1

Pass(s) ==
  LET n == StepOfSide(s)
  IN  IF n <= StepsPerPass THEN "headline"
      ELSE IF n <= StepsPerPass + Warmup THEN "phaseWarmup" ELSE "phaseTimed"

LastOfPass(s) == s % StepsPerPass = 0
LastOfSide(s) == s % StepsPerSide = 0

(* The field, its ghost columns and the receive buffers are cleared.       *)
InitSide(p) ==
  /\ pc[p] = "init" /\ queue[p] = <<>>
  /\ pc' = [pc EXCEPT ![p] = "aligned"]
  /\ recv' = [recv EXCEPT ![p] = [d \in Dir |-> Zero]]
  /\ ghost' = [ghost EXCEPT ![p] = [d \in Dir |-> Zero]]
  /\ UNCHANGED <<run, side, step, phase, queue, moved, send, partial, result>>

(* Fault: every transfer is an operation of its own.                       *)
HaloUngrouped(p) ==
  LET one(d, k) == {m \in {<<k, d>>} : HasNeighbour(p, d)}
  IN  <<one("west", "out"), one("west", "in"), one("east", "out"), one("east", "in")>>

(* ncclGroupStart .. ncclGroupEnd: all four transfers are one operation.   *)
HaloGroup(p) == <<{m \in Move : HasNeighbour(p, m[2])}>>

(* MPI_Sendrecv to the left and from the right, then the other way round;  *)
(* MPI_PROC_NULL where there is no neighbour.                              *)
HaloShifts(p) ==
  LET shift(d) == {m \in {<<"out", d>>, <<"in", Opposite(d)>>} : HasNeighbour(p, m[2])}
  IN  <<shift("west"), shift("east")>>

(* What a phase puts on the stream.                                        *)
Ops(p) ==
  LET op(moves) == [phase |-> phase[p], step |-> step[p], moves |-> moves]
      halo == IF backend = "mpi" THEN HaloShifts(p) ELSE HaloGroup(p)
  IN  IF Phases[phase[p]] = "halo" THEN [i \in DOMAIN halo |-> op(halo[i])] ELSE <<op({})>>

(* Fault: the headline loop does not end its step with sync().             *)
SyncsAtEndOfPass(p) ==
  \/ backend # "nccl"
  \/ Pass(step[p]) = "headline" /\ phase[p] = 4 /\ LastOfPass(step[p])
  \/ Pass(step[p]) = "phaseTimed"

(* Fault: the headline loop does not synchronise at all.                   *)
SyncsPhasesOnly(p) == backend # "nccl" \/ Pass(step[p]) = "phaseTimed"

(* Whether the host waits for the device after this phase.                 *)
Syncs(p) ==
  \/ backend # "nccl"
  \/ Pass(step[p]) = "headline" /\ phase[p] = 4
  \/ Pass(step[p]) = "phaseTimed"

(* The next phase, the next step, or collective_stats after the pass.      *)
Advance(p) ==
  /\ phase' = [phase EXCEPT ![p] = IF @ = 4 THEN 1 ELSE @ + 1]
  /\ IF phase[p] = 4 /\ LastOfPass(step[p]) /\ Pass(step[p]) # "phaseWarmup"
     THEN pc' = [pc EXCEPT ![p] = "stats"] /\ UNCHANGED step
     ELSE /\ pc' = [pc EXCEPT ![p] = "issue"]
          /\ step' = IF phase[p] = 4 THEN [step EXCEPT ![p] = @ + 1] ELSE step

(* Fault: the kernels of the compute phase are on a stream of their own.   *)
IssueOnTwoStreams(p) ==
  /\ pc[p] = "issue"
  /\ queue' = [queue EXCEPT ![p] = IF Phases[phase[p]] = "compute" THEN Ops(p) \o @
                                                                ELSE @ \o Ops(p)]
  /\ IF Syncs(p) THEN pc' = [pc EXCEPT ![p] = "sync"] /\ UNCHANGED <<step, phase>>
                 ELSE Advance(p)
  /\ UNCHANGED <<run, side, moved, data>>

Issue(p) ==
  /\ pc[p] = "issue"
  /\ queue' = [queue EXCEPT ![p] = @ \o Ops(p)]
  /\ IF Syncs(p) THEN pc' = [pc EXCEPT ![p] = "sync"] /\ UNCHANGED <<step, phase>>
                 ELSE Advance(p)
  /\ UNCHANGED <<run, side, moved, data>>

(* cudaStreamSynchronize, or the wait inside the phase, returns.           *)
Sync(p) ==
  /\ pc[p] = "sync" /\ queue[p] = <<>>
  /\ Advance(p)
  /\ UNCHANGED <<run, side, queue, moved, data>>

(* MPI_Barrier before a pass, the MPI_Allreduce of collective_stats after  *)
(* it, and the MPI_Allreduce of the verdict at the end of a side.          *)
Collective ==
  /\ \A p \in PE : pc[p] \in AtCollective
  /\ LET next(p) == CASE pc[p] \in {"aligned", "phaseBarrier"} -> "issue"
                      [] pc[p] = "stats" -> IF LastOfSide(step[p]) THEN "verdict" ELSE "phaseBarrier"
                      [] pc[p] = "verdict" -> IF side[p] < Len(Sides) THEN "init" ELSE "exit"
         starts(p) == \/ pc[p] = "phaseBarrier"
                      \/ pc[p] = "verdict" /\ side[p] < Len(Sides)
     IN  /\ pc' = [p \in PE |-> next(p)]
         /\ step' = [p \in PE |-> IF starts(p) THEN step[p] + 1 ELSE step[p]]
         /\ side' = [p \in PE |-> IF next(p) = "init" THEN side[p] + 1 ELSE side[p]]
  /\ UNCHANGED <<run, phase, queue, moved, data>>

-----------------------------------------------------------------------------
(* The device: the operations of a stream run in order.                    *)

HeadIs(p, ph) == queue[p] # <<>> /\ Phases[Head(queue[p]).phase] = ph

Pop(p) == queue' = [queue EXCEPT ![p] = Tail(@)]

(* pack_column_kernel, where the rank has columns.                         *)
Pack(p) ==
  /\ HeadIs(p, "pack")
  /\ send' = IF OwnsColumns(p, side[p])
             THEN [send EXCEPT ![p] = Boundary(p, side[p], Head(queue[p]).step)] ELSE send
  /\ Pop(p)
  /\ UNCHANGED <<run, pc, side, step, phase, moved, recv, ghost, partial, result>>

(* A boundary column goes from p to its neighbour at d, when both sides    *)
(* have reached the transfer.                                              *)
Transfer(p, d) ==
  LET q == Neighbour(p, d)
      out == <<"out", d>>
      in == <<"in", Opposite(d)>>
  IN  /\ HasNeighbour(p, d)
      /\ HeadIs(p, "halo") /\ out \in Head(queue[p]).moves \ moved[p]
      /\ HeadIs(q, "halo") /\ in \in Head(queue[q]).moves \ moved[q]
      /\ moved' = [moved EXCEPT ![p] = @ \cup {out}, ![q] = @ \cup {in}]
      /\ recv' = [recv EXCEPT ![q][Opposite(d)] = send[p][d]]
      /\ UNCHANGED <<run, pc, side, step, phase, queue, send, ghost, partial, result>>

EndHalo(p) ==
  /\ HeadIs(p, "halo") /\ Head(queue[p]).moves = moved[p]
  /\ Pop(p)
  /\ moved' = [moved EXCEPT ![p] = {}]
  /\ UNCHANGED <<run, pc, side, step, phase, data>>

(* The received columns are unpacked, the stencil applied, and the partial *)
(* sums formed.                                                            *)
Compute(p) ==
  /\ HeadIs(p, "compute")
  /\ ghost' = IF OwnsColumns(p, side[p]) THEN [ghost EXCEPT ![p] = recv[p]] ELSE ghost
  /\ partial' = [partial EXCEPT ![p] = Head(queue[p]).step]
  /\ Pop(p)
  /\ UNCHANGED <<run, pc, side, step, phase, moved, send, recv, result>>

(* The two all-reduces: they are over when every rank has reached them.    *)
Reduce ==
  /\ \A p \in PE : HeadIs(p, "reduce")
  /\ queue' = [p \in PE |-> Tail(queue[p])]
  /\ result' = [p \in PE |-> partial]
  /\ UNCHANGED <<run, pc, side, step, phase, moved, send, recv, ghost, partial>>

-----------------------------------------------------------------------------
HostStep(p) == InitSide(p) \/ Issue(p) \/ Sync(p)
DeviceStep(p) == Pack(p) \/ (\E d \in Dir : Transfer(p, d)) \/ EndHalo(p) \/ Compute(p)

Next == (\E p \in PE : HostStep(p) \/ DeviceStep(p)) \/ Reduce \/ Collective

Spec == Init /\ [][Next]_vars

Fairness ==
  /\ \A p \in PE : WF_vars(HostStep(p)) /\ WF_vars(DeviceStep(p))
  /\ WF_vars(Reduce) /\ WF_vars(Collective)

FairSpec == Spec /\ Fairness

-----------------------------------------------------------------------------
(* Properties.                                                             *)

(* "Each step: 1. Packs and exchanges the boundary columns. 2. Updates     *)
(* ghost columns. 3. Computes the four-neighbor stencil": when a rank has  *)
(* computed a step, its ghost columns are its neighbours' boundaries of    *)
(* that step, however many steps are queued, in either pass.  The field is *)
(* the same in every step, so the validation cannot tell.                  *)
GhostsOfThisStep ==
  \A p \in PE : HeadIs(p, "reduce") => ghost[p] = ExpectedGhosts(p, side[p], Head(queue[p]).step)

(* What the host validates at the end of a side is the last step of the    *)
(* last pass: its own ghost columns and every rank's share of the sums.    *)
ValidatesLastStep ==
  \A p \in PE : pc[p] = "verdict" =>
    /\ ghost[p] = ExpectedGhosts(p, side[p], step[p])
    /\ result[p] = [q \in PE |-> step[p]]

(* The time of a sample is spent on its own step: while a host waits, its  *)
(* stream holds no operation of an earlier step.                           *)
SampleIsOneStep ==
  \A p \in PE : pc[p] = "sync" /\ Pass(step[p]) = "headline" =>
    \A i \in DOMAIN queue[p] : queue[p][i].step = step[p]

(* "`sync` ... runs inside the timed region of every phase, which is what  *)
(* makes a phase boundary meaningful": the time of a phase is spent on     *)
(* that phase.                                                             *)
PhaseSampleIsOnePhase ==
  \A p \in PE : pc[p] = "sync" /\ Pass(step[p]) = "phaseTimed" =>
    \A i \in DOMAIN queue[p] : queue[p][i].step = step[p] /\ queue[p][i].phase = phase[p]

(* The steps of the ranks never wait for each other for ever.              *)
Termination == <>(\A p \in PE : pc[p] = "exit")

=============================================================================
