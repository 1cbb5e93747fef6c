------------------------------- MODULE CgShmem -------------------------------
(***************************************************************************)
(* The one-sided cg_step (shmem/{nvshmem,oshmpi}/application/cg_step.cu):  *)
(* each step packs the boundary columns of a PE's slab, puts them into the *)
(* neighbours' receive buffers, completes them with quiet and a barrier,   *)
(* unpacks them as ghost columns, computes, and reduces two dot products.  *)
(* The pass that times the phases makes the same steps once more; that it  *)
(* also synchronises the device after each phase is left out.              *)
(***************************************************************************)
EXTENDS CgGrid

CONSTANTS
  Steps,      (* Steps per pass, warm-up included.                         *)
  Passes,     (* Passes per side: with the phases timed too, two.          *)
  DeviceWork  (* Whether RMA on device memory may enqueue device work that *)
              (* outlives quiet, until the initiator's device is synced.   *)

ASSUME CgAssumption ==
  /\ {Steps, Passes} \subseteq Nat \ {0}
  /\ DeviceWork \in BOOLEAN

VARIABLES
  pc,      (* Where each PE is.                                            *)
  side,    (* The index of the grid side it is at.                         *)
  step,    (* Its step, counted over the whole sweep.                      *)
  send,    (* send[p][d]: its send_west and send_east.                     *)
  recv,    (* recv[p][d]: its recv_west and recv_east.                     *)
  ghost,   (* ghost[p][d]: its ghost columns.                              *)
  puts     (* Puts in flight, on the network or left to a device.          *)

vars == <<pc, side, step, send, recv, ghost, puts>>

StepsPerSide == Steps * Passes

HasColumns(p) == OwnsColumns(p, side[p])

Put == [src : PE, to : Dir, col : Column, on : {"network", "device"}]

PC == {"init", "aligned", "pack", "put", "quiet", "exchanged", "unpack",
       "compute", "reduce", "passEnd", "exit"}

TypeOK ==
  /\ pc \in [PE -> PC]
  /\ side \in [PE -> 1 .. Len(Sides)]
  /\ step \in [PE -> 1 .. StepsPerSide * Len(Sides)]
  /\ {send, recv, ghost} \subseteq [PE -> [Dir -> Column]]
  /\ puts \subseteq Put

Init ==
  /\ pc = [p \in PE |-> "init"]
  /\ side = [p \in PE |-> 1]
  /\ step = [p \in PE |-> 1]
  /\ send = [p \in PE |-> [d \in Dir |-> Garbage]]
  /\ recv = [p \in PE |-> [d \in Dir |-> Garbage]]
  /\ ghost = [p \in PE |-> [d \in Dir |-> Garbage]]
  /\ puts = {}

Goto(p, from, to) == pc[p] = from /\ pc' = [pc EXCEPT ![p] = to]

(* cudaDeviceSynchronize on p: its device has no work left.                *)
DeviceIdle(p) == \A m \in puts : ~(m.src = p /\ m.on = "device")

-----------------------------------------------------------------------------
(* The field, its ghost columns and the receive buffers are cleared; the   *)
(* device is synchronised before the barrier.                              *)
InitSide(p) ==
  /\ Goto(p, "init", "aligned")
  /\ DeviceIdle(p)
  /\ recv' = [recv EXCEPT ![p] = [d \in Dir |-> Zero]]
  /\ ghost' = [ghost EXCEPT ![p] = [d \in Dir |-> Zero]]
  /\ UNCHANGED <<side, step, send, puts>>

(* A PE without columns neither packs nor synchronises.                    *)
Pack(p) ==
  /\ Goto(p, "pack", "put")
  /\ HasColumns(p) => DeviceIdle(p)
  /\ send' = IF HasColumns(p)
             THEN [send EXCEPT ![p] = Boundary(p, side[p], step[p])]
             ELSE send
  /\ UNCHANGED <<side, step, recv, ghost, puts>>

(* send_west into the left neighbour's recv_east, send_east into the right *)
(* neighbour's recv_west.                                                  *)
PutColumns(p) ==
  /\ Goto(p, "put", "quiet")
  /\ \E on \in IF DeviceWork THEN {"network", "device"} ELSE {"network"} :
       puts' = puts \cup {[src |-> p, to |-> d, col |-> send[p][d], on |-> on] : d \in Facing(p)}
  /\ UNCHANGED <<side, step, send, recv, ghost>>

(* Fault: the barrier is entered without quiet.                            *)
QuietSkipped(p) ==
  /\ Goto(p, "quiet", "exchanged")
  /\ UNCHANGED <<side, step, send, recv, ghost, puts>>

(* Fault: a PE with one neighbour returns from the halo phase early.       *)
EndSkipsBarrier(p) ==
  /\ \A m \in puts : ~(m.src = p /\ m.on = "network")
  /\ Goto(p, "quiet", IF Facing(p) = Dir THEN "exchanged" ELSE "unpack")
  /\ UNCHANGED <<side, step, send, recv, ghost, puts>>

(* shmem_quiet: no put of p is left on the network.                        *)
Quiet(p) ==
  /\ \A m \in puts : ~(m.src = p /\ m.on = "network")
  /\ Goto(p, "quiet", "exchanged")
  /\ UNCHANGED <<side, step, send, recv, ghost, puts>>

(* The first kernels of the compute phase.                                 *)
Unpack(p) ==
  /\ Goto(p, "unpack", "compute")
  /\ ghost' = IF HasColumns(p) THEN [ghost EXCEPT ![p] = recv[p]] ELSE ghost
  /\ UNCHANGED <<side, step, send, recv, puts>>

(* The stencil and the dot products, and the synchronisation after them.   *)
Compute(p) ==
  /\ Goto(p, "compute", "reduce")
  /\ DeviceIdle(p)
  /\ UNCHANGED <<side, step, send, recv, ghost, puts>>

(* run_benchmark and measure_cg_phases make the same number of steps.      *)
LastOfPass(p) == step[p] % Steps = 0

(* Fault: a PE does not wait for the sums and goes on to the next step.    *)
ReduceOfOne ==
  /\ \E p \in PE : Goto(p, "reduce", IF LastOfPass(p) THEN "passEnd" ELSE "pack")
  /\ step' = [p \in PE |-> IF pc'[p] = "pack" /\ pc[p] = "reduce" THEN step[p] + 1 ELSE step[p]]
  /\ UNCHANGED <<side, send, recv, ghost, puts>>

(* The two global sums: no PE has them before all have entered.            *)
Reduce ==
  /\ \A p \in PE : pc[p] = "reduce"
  /\ pc' = [p \in PE |-> IF LastOfPass(p) THEN "passEnd" ELSE "pack"]
  /\ step' = [p \in PE |-> IF LastOfPass(p) THEN step[p] ELSE step[p] + 1]
  /\ UNCHANGED <<side, send, recv, ghost, puts>>

LastOfSide(p) == step[p] % StepsPerSide = 0

(* shmem_barrier_all, at the start of a side, in the halo phase, and after *)
(* a pass: in the gathering of its samples and of the results, and before  *)
(* the phase pass.                                                         *)
AfterBarrier(p) ==
  CASE pc[p] = "aligned" -> "pack"
    [] pc[p] = "exchanged" -> "unpack"
    [] pc[p] = "passEnd" -> IF ~LastOfSide(p) THEN "pack"
                            ELSE IF side[p] < Len(Sides) THEN "init" ELSE "exit"

Barrier ==
  /\ \A p \in PE : pc[p] \in {"aligned", "exchanged", "passEnd"}
  /\ pc' = [p \in PE |-> AfterBarrier(p)]
  /\ side' = [p \in PE |-> IF pc'[p] = "init" THEN side[p] + 1 ELSE side[p]]
  /\ step' = [p \in PE |-> IF pc[p] = "passEnd" /\ pc'[p] # "exit" THEN step[p] + 1 ELSE step[p]]
  /\ UNCHANGED <<send, recv, ghost, puts>>

Deliver(m) ==
  /\ puts' = puts \ {m}
  /\ recv' = [recv EXCEPT ![Neighbour(m.src, m.to)][Opposite(m.to)] = m.col]
  /\ UNCHANGED <<pc, side, step, send, ghost>>

-----------------------------------------------------------------------------
PEStep(p) ==
  \/ InitSide(p) \/ Pack(p) \/ PutColumns(p) \/ Quiet(p) \/ Unpack(p) \/ Compute(p)

Next == (\E p \in PE : PEStep(p)) \/ Barrier \/ Reduce \/ (\E m \in puts : Deliver(m))

Spec == Init /\ [][Next]_vars

Fairness ==
  /\ \A p \in PE : WF_vars(PEStep(p))
  /\ WF_vars(Barrier \/ Reduce)
  /\ WF_vars(\E m \in puts : Deliver(m))

FairSpec == Spec /\ Fairness

-----------------------------------------------------------------------------
(* Properties.                                                             *)

(* "Each step: 1. Packs and exchanges the boundary columns. 2. Updates     *)
(* ghost columns. 3. Computes the four-neighbor stencil": the stencil of a *)
(* step reads the columns exchanged in that step.  The field is fixed, so  *)
(* the validation, which looks at the values after the last step only,     *)
(* cannot tell.                                                            *)
GhostsOfThisStep ==
  \A p \in PE : pc[p] = "compute" => ghost[p] = ExpectedGhosts(p, side[p], step[p])

(* From the halo barrier to the end of its reduction no put is on its way  *)
(* to a PE: the kernels read receive buffers nobody writes.                *)
BuffersAtRest ==
  \A m \in puts : pc[Neighbour(m.src, m.to)] \notin {"unpack", "compute", "reduce", "init"}

(* Every step of every side ends: no PE is left behind at a barrier or in  *)
(* a reduction.                                                            *)
Termination == <>(\A p \in PE : pc[p] = "exit")

-----------------------------------------------------------------------------
(* The inductive invariant behind the properties, where RMA leaves no      *)
(* device work: between two collectives all PEs are in the same stage of   *)
(* the same step, and what is in flight belongs to it.                     *)
Starting == {"init", "aligned"}
Exchanging == {"pack", "put", "quiet", "exchanged"}
Computing == {"unpack", "compute", "reduce"}

Lockstep ==
  \A p, q \in PE :
    /\ side[p] = side[q] /\ step[p] = step[q]
    /\ \A stage \in {Starting, Exchanging, Computing, {"passEnd"}, {"exit"}} :
         pc[p] \in stage <=> pc[q] \in stage

(* The steps of a PE stay within those of the side it is at.               *)
StepsOfSide == \A p \in PE : step[p] <= StepsPerSide * side[p]

Packed ==
  \A p \in PE : pc[p] \in {"put", "quiet", "exchanged"} => send[p] = Boundary(p, side[p], step[p])

PutsOfQuietPEs ==
  \A m \in puts :
    /\ pc[m.src] = "quiet" /\ m.on = "network" /\ HasNeighbour(m.src, m.to)
    /\ m.col = Boundary(m.src, side[m.src], step[m.src])[m.to]

(* What p has put to its neighbour at d is there, or on its way.           *)
ArrivedAt(p, d) ==
  LET got == recv[Neighbour(p, d)][Opposite(d)]
      mine == Boundary(p, side[p], step[p])[d]
  IN  /\ pc[p] \in {"exchanged"} \cup Computing => got = mine
      /\ pc[p] = "quiet" =>
           got = mine \/ [src |-> p, to |-> d, col |-> mine, on |-> "network"] \in puts

Arrived == \A p \in PE : \A d \in Facing(p) : ArrivedAt(p, d)

OutsideIsZero ==
  \A p \in PE : pc[p] # "init" => \A d \in Dir \ Facing(p) : recv[p][d] = Zero

IInv ==
  /\ TypeOK
  /\ StepsOfSide
  /\ Lockstep
  /\ Packed
  /\ PutsOfQuietPEs
  /\ Arrived
  /\ OutsideIsZero
  /\ GhostsOfThisStep

=============================================================================
