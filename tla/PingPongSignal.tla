---------------------------- MODULE PingPongSignal ----------------------------
(***************************************************************************)
(* The NVSHMEM ping-pong (shmem/nvshmem/microbench/pingpong.cu): both PEs  *)
(* run a persistent cooperative kernel whose blocks put their chunks and   *)
(* whose block 0 sets the peer's flag to the number of the round trip,     *)
(* and the host launches it twice per message size, for the warm-up and    *)
(* the timed iterations.                                                   *)
(*                                                                         *)
(* The signals SET the flag: delivered out of order they would take it     *)
(* back.  Nothing is poisoned and every round trip moves the same bytes,   *)
(* so the validation cannot tell a stale pong; the model numbers them.     *)
(***************************************************************************)
EXTENDS PingPongCounts

CONSTANTS
  Blocks,     (* Blocks of the grid.                                       *)
  Active      (* Those of them whose chunk is not empty (len # 0).         *)

Block == 0 .. Blocks - 1

ASSUME PingPongAssumption ==
  /\ Blocks \in Nat \ {0}
  /\ Active \subseteq Block

Peer(p) == 1 - p

VARIABLES
  host,    (* Where the host thread of each PE is.                         *)
  size,    (* The message size it is at.                                   *)
  timed,   (* Whether its launch is the timed one.                         *)
  base,    (* Its signal base.                                             *)
  pc,      (* Where each block of its kernel is.                           *)
  it,      (* The kernel's iteration, 0 while no kernel runs.              *)
  flag,    (* Its flag.                                                    *)
  sets,    (* The values on their way to that flag.                        *)
  puts,    (* Puts in flight.                                              *)
  recv     (* recv[p][b]: the round trip chunk b of its receive buffer is of. *)

vars == <<host, size, timed, base, pc, it, flag, sets, puts, recv>>
hostVars == <<size, timed, base>>
netVars == <<flag, sets, puts, recv>>

Put == [src : PE, blk : Active, round : Nat]

HostPC == {"launch", "kernel", "aligned", "check", "final", "exit"}
BlockPC == {"idle", "wait", "sync0", "put", "quiet", "sync1", "signal", "sync2"}

TypeOK ==
  /\ host \in [PE -> HostPC]
  /\ size \in [PE -> 1 .. Sizes]
  /\ timed \in [PE -> BOOLEAN]
  /\ {base, it, flag} \subseteq [PE -> Nat]
  /\ pc \in [PE -> [Block -> BlockPC]]
  /\ sets \in [PE -> SUBSET Nat]
  /\ puts \subseteq Put
  /\ recv \in [PE -> [Block -> Nat]]

Init ==
  /\ host = [p \in PE |-> "launch"]
  /\ size = [p \in PE |-> 1]
  /\ timed = [p \in PE |-> FALSE]
  /\ base = [p \in PE |-> 0]
  /\ pc = [p \in PE |-> [b \in Block |-> "idle"]]
  /\ it = [p \in PE |-> 0]
  /\ flag = [p \in PE |-> 0]
  /\ sets = [p \in PE |-> {}]
  /\ puts = {}
  /\ recv = [p \in PE |-> [b \in Block |-> 0]]

-----------------------------------------------------------------------------
(* The kernel.                                                             *)

(* The round trip p is in, which is also the value it sets and waits for.  *)
Signal(p) == base[p] + it[p]

At(p, b, from, to) ==
  /\ pc[p][b] = from
  /\ pc' = [pc EXCEPT ![p][b] = to]

(* The initiator starts with its puts, the peer's block 0 with its wait.   *)
FirstPC(p) ==
  [b \in Block |-> IF p = 0 THEN "put" ELSE IF b = 0 THEN "wait" ELSE "sync0"]

IssuePut(p, b) ==
  /\ At(p, b, "put", "quiet")
  /\ puts' = puts \cup (IF b \in Active THEN {[src |-> p, blk |-> b, round |-> Signal(p)]} ELSE {})
  /\ UNCHANGED <<host, hostVars, it, flag, sets, recv>>

(* Fault: the block goes to grid.sync() without nvshmem_quiet.             *)
QuietSkipped(p, b) ==
  /\ At(p, b, "quiet", "sync1")
  /\ UNCHANGED <<host, hostVars, it, netVars>>

Quiet(p, b) ==
  /\ \A m \in puts : ~(m.src = p /\ m.blk = b)
  /\ At(p, b, "quiet", "sync1")
  /\ UNCHANGED <<host, hostVars, it, netVars>>

(* grid.sync() after the wait of the peer's block 0.                       *)
GridSync0(p) ==
  /\ \A b \in Block : pc[p][b] = "sync0"
  /\ pc' = [pc EXCEPT ![p] = [b \in Block |-> "put"]]
  /\ UNCHANGED <<host, hostVars, it, netVars>>

(* grid.sync() after the puts.                                             *)
GridSync1(p) ==
  /\ \A b \in Block : pc[p][b] = "sync1"
  /\ pc' = [pc EXCEPT ![p] = [b \in Block |-> IF b = 0 THEN "signal" ELSE "sync2"]]
  /\ UNCHANGED <<host, hostVars, it, netVars>>

(* nvshmem_fence, which finds nothing outstanding, and SIGNAL_SET.         *)
SetFlag(p) ==
  /\ At(p, 0, "signal", IF p = 0 THEN "wait" ELSE "sync2")
  /\ sets' = [sets EXCEPT ![Peer(p)] = @ \cup {Signal(p)}]
  /\ UNCHANGED <<host, hostVars, it, flag, puts, recv>>

(* Fault: the wait is met by the signal of the round trip before.          *)
WaitOffByOne(p) ==
  /\ flag[p] + 1 >= Signal(p)
  /\ At(p, 0, "wait", IF p = 0 THEN "sync2" ELSE "sync0")
  /\ UNCHANGED <<host, hostVars, it, netVars>>

(* Fault: the peer does not wait for the ping.                             *)
WaitForPongOnly(p) ==
  /\ p = 0 => flag[p] >= Signal(p)
  /\ At(p, 0, "wait", IF p = 0 THEN "sync2" ELSE "sync0")
  /\ UNCHANGED <<host, hostVars, it, netVars>>

(* nvshmem_signal_wait_until(flag, CMP_GE, signal)                         *)
Wait(p) ==
  /\ flag[p] >= Signal(p)
  /\ At(p, 0, "wait", IF p = 0 THEN "sync2" ELSE "sync0")
  /\ UNCHANGED <<host, hostVars, it, netVars>>

LaunchIters(p) == IF timed[p] THEN Iterations ELSE Warmup

GridReady2(p) == \A b \in Block : pc[p][b] = "sync2"

(* The last grid.sync() of an iteration.                                   *)
GridSync2(p) ==
  /\ GridReady2(p)
  /\ it[p] < LaunchIters(p)
  /\ it' = [it EXCEPT ![p] = @ + 1]
  /\ pc' = [pc EXCEPT ![p] = FirstPC(p)]
  /\ UNCHANGED <<host, hostVars, netVars>>

-----------------------------------------------------------------------------
(* The host.                                                               *)

(* Fault: the flag is cleared for every launch.                            *)
LaunchClearsFlag(p) ==
  /\ host[p] = "launch"
  /\ host' = [host EXCEPT ![p] = "kernel"]
  /\ it' = [it EXCEPT ![p] = 1]
  /\ pc' = [pc EXCEPT ![p] = FirstPC(p)]
  /\ flag' = [flag EXCEPT ![p] = 0]
  /\ UNCHANGED <<hostVars, sets, puts, recv>>

(* nvshmemx_collective_launch.                                             *)
Launch(p) ==
  /\ host[p] = "launch"
  /\ host' = [host EXCEPT ![p] = "kernel"]
  /\ it' = [it EXCEPT ![p] = 1]
  /\ pc' = [pc EXCEPT ![p] = FirstPC(p)]
  /\ UNCHANGED <<hostVars, netVars>>

(* cudaDeviceSynchronize returns; base advances; the barrier follows.      *)
FinishKernel(p) ==
  /\ GridReady2(p)
  /\ it[p] = LaunchIters(p)
  /\ host' = [host EXCEPT ![p] = "aligned"]
  /\ base' = [base EXCEPT ![p] = @ + LaunchIters(p)]
  /\ it' = [it EXCEPT ![p] = 0]
  /\ pc' = [pc EXCEPT ![p] = [b \in Block |-> "idle"]]
  /\ UNCHANGED <<size, timed, netVars>>

(* nvshmem_barrier_all.  After the warm-up both launch the timed kernel;   *)
(* after that the initiator validates and the peer is at the next size.    *)
Barrier ==
  /\ \A p \in PE : host[p] \in {"aligned", "final"}
  /\ host' = [p \in PE |-> IF host[p] = "final" THEN "exit"
                           ELSE IF ~timed[p] THEN "launch"
                           ELSE IF p = 0 THEN "check"
                           ELSE IF size[p] = Sizes THEN "final" ELSE "launch"]
  /\ timed' = [p \in PE |-> IF host[p] = "final" THEN timed[p] ELSE p = 0 \/ ~timed[p]]
  /\ size' = [size EXCEPT ![1] = IF timed[1] /\ @ < Sizes THEN @ + 1 ELSE @]
  /\ UNCHANGED <<base, pc, it, netVars>>

(* The initiator compares what it received with what it sends, and goes on. *)
Check ==
  /\ host[0] = "check"
  /\ host' = [host EXCEPT ![0] = IF size[0] = Sizes THEN "final" ELSE "launch"]
  /\ size' = [size EXCEPT ![0] = IF @ < Sizes THEN @ + 1 ELSE @]
  /\ timed' = [timed EXCEPT ![0] = FALSE]
  /\ UNCHANGED <<base, pc, it, netVars>>

-----------------------------------------------------------------------------
(* The network.                                                            *)

(* The peer puts back what its receive buffer holds when the put reads it. *)
DeliverPut(m) ==
  /\ puts' = puts \ {m}
  /\ recv' = [recv EXCEPT ![Peer(m.src)][m.blk] = IF m.src = 0 THEN m.round ELSE recv[1][m.blk]]
  /\ UNCHANGED <<host, hostVars, pc, it, flag, sets>>

DeliverSet(p, v) ==
  /\ sets' = [sets EXCEPT ![p] = @ \ {v}]
  /\ flag' = [flag EXCEPT ![p] = v]
  /\ UNCHANGED <<host, hostVars, pc, it, puts, recv>>

-----------------------------------------------------------------------------
BlockStep(p, b) == IssuePut(p, b) \/ Quiet(p, b)
LeaderStep(p) == SetFlag(p) \/ Wait(p)
GridStep(p) == GridSync0(p) \/ GridSync1(p) \/ GridSync2(p)
HostStep(p) == Launch(p) \/ FinishKernel(p)
Deliver ==
  \/ \E m \in puts : DeliverPut(m)
  \/ \E p \in PE : \E v \in sets[p] : DeliverSet(p, v)

Next ==
  \/ \E p \in PE : \/ \E b \in Block : BlockStep(p, b)
                   \/ LeaderStep(p) \/ GridStep(p) \/ HostStep(p)
  \/ Check
  \/ Barrier
  \/ Deliver

Spec == Init /\ [][Next]_vars

(* The blocks of a cooperative launch are all resident; the network        *)
(* delivers.                                                               *)
Fairness ==
  /\ \A p \in PE : /\ \A b \in Block : WF_vars(BlockStep(p, b))
                   /\ WF_vars(LeaderStep(p))
                   /\ WF_vars(GridStep(p))
                   /\ WF_vars(HostStep(p))
  /\ WF_vars(Check \/ Barrier)
  /\ WF_vars(Deliver)

FairSpec == Spec /\ Fairness

-----------------------------------------------------------------------------
(* Properties.                                                             *)

AfterWait == {"sync0", "put", "quiet", "sync1", "signal"}

(* Whoever has passed the wait of a round trip holds every chunk of it:    *)
(* the peer before it sends it back, the initiator before it counts the    *)
(* round trip, and again when it validates the last one.                   *)
RoundTrip ==
  \A b \in Active :
    /\ pc[0][0] = "sync2" => recv[0][b] = Signal(0)
    /\ host[0] = "check" => recv[0][b] = base[0]
    /\ pc[1][0] \in AfterWait => recv[1][b] = Signal(1)

(* A later SET never overtakes an earlier one, across launches and sizes   *)
(* alike: a flag only grows, though nothing orders the signals.            *)
FlagGrows == [][\A p \in PE : flag'[p] >= flag[p]]_flag

(* Legs p has completed, that is, signalled.                               *)
Legs(p, signalled) ==
  base[p] + (IF it[p] = 0 THEN 0 ELSE it[p] - 1) + (IF pc[p][0] \in signalled THEN 1 ELSE 0)

(* The two PEs take turns: no ping before the last pong has been sent.     *)
Turns == INSTANCE TurnTaking WITH pings <- Legs(0, {"wait", "sync2"}), pongs <- Legs(1, {"sync2"})

ImplementsTurns == Turns!Spec

(* No wait is for ever.                                                    *)
Termination == <>(\A p \in PE : host[p] = "exit")

=============================================================================
