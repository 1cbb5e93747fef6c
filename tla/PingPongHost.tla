----------------------------- MODULE PingPongHost -----------------------------
(***************************************************************************)
(* The ping-pongs driven by the host.  In the OSHMPI one                   *)
(* (shmem/oshmpi/microbench/pingpong.cu) each leg is a one-sided put       *)
(* closed by quiet and a device synchronisation, and a barrier of all PEs  *)
(* hands the turn over; a put on device memory may leave device work       *)
(* behind that quiet does not wait for.  In the MPI, NCCL and oneCCL ones  *)
(* ({mpi,xccl}/{cuda,sycl}/microbench/pingpong) each leg is a send and its *)
(* receive, and a send may be over before the receive is posted.           *)
(***************************************************************************)
EXTENDS PingPongCounts

VARIABLES
  transport, (* Puts or messages, for the whole run.                       *)
  pc,      (* Where each PE is.                                            *)
  round,   (* Round trips it has completed, over all sizes.                *)
  recv,    (* The round trip its receive buffer is of.                     *)
  puts     (* Puts and messages in flight: whose, what of, and where.      *)

vars == <<transport, pc, round, recv, puts>>

Put == [src : PE, round : Nat, on : {"network", "device", "message"}]

BarrierPC == {"sizeBarrier", "pingBarrier", "pongBarrier", "final"}
PC == BarrierPC \cup {"put", "quiet", "sync", "sent", "recv", "check", "exit"}

TypeOK ==
  /\ transport \in {"puts", "messages"}
  /\ pc \in [PE -> PC]
  /\ round \in [PE -> 0 .. Total]
  /\ recv \in [PE -> Nat]
  /\ puts \subseteq Put

Init ==
  /\ transport \in {"puts", "messages"}
  /\ pc = [p \in PE |-> "sizeBarrier"]
  /\ round = [p \in PE |-> 0]
  /\ recv = [p \in PE |-> 0]
  /\ puts = {}

Goto(p, from, to) ==
  pc[p] = from /\ pc' = [pc EXCEPT ![p] = to] /\ UNCHANGED transport

-----------------------------------------------------------------------------
(* shmem_putmem of the ping, or of the receive buffer back as the pong.    *)
PutLeg(p) ==
  /\ transport = "puts"
  /\ Goto(p, "put", "quiet")
  /\ \E on \in {"network", "device"} :
       puts' = puts \cup {[src |-> p, round |-> round[p] + 1, on |-> on]}
  /\ UNCHANGED <<round, recv>>

(* shmem_quiet: no put of p is left on the network.                        *)
Quiet(p) ==
  /\ \A m \in puts : ~(m.src = p /\ m.on = "network")
  /\ Goto(p, "quiet", "sync")
  /\ UNCHANGED <<round, recv, puts>>

(* Fault: no device synchronisation after quiet.                           *)
SyncSkipped(p) ==
  /\ Goto(p, "sync", IF p = 0 THEN "pingBarrier" ELSE "pongBarrier")
  /\ UNCHANGED <<round, recv, puts>>

(* cudaDeviceSynchronize: p's device has no work left.                     *)
Sync(p) ==
  /\ \A m \in puts : ~(m.src = p /\ m.on = "device")
  /\ Goto(p, "sync", IF p = 0 THEN "pingBarrier" ELSE "pongBarrier")
  /\ UNCHANGED <<round, recv, puts>>

LastOfSize(r) == r % Rounds = 0

(* Where a PE is at the start of a round trip, and after one: the initiator *)
(* validates after the last one of a size.                                 *)
First(p) ==
  IF p = 0 THEN "put" ELSE IF transport = "puts" THEN "pingBarrier" ELSE "recv"

AfterRound(p) ==
  IF ~LastOfSize(round[p] + 1) THEN First(p)
  ELSE IF p = 0 THEN "check"
  ELSE IF round[p] + 1 < Total THEN "sizeBarrier"
  ELSE "final"

(* Fault: the peer puts its pong before the first barrier.                 *)
PeerPutsFirst(p) ==
  CASE pc[p] = "sizeBarrier" -> IF transport = "puts" THEN "put" ELSE First(p)
    [] pc[p] = "pingBarrier" -> "pongBarrier"
    [] pc[p] = "pongBarrier" -> IF AfterRound(p) = "pingBarrier" THEN "put" ELSE AfterRound(p)
    [] pc[p] = "final" -> "exit"

(* Where a PE goes from a barrier: at the first of a round trip the peer   *)
(* has the ping, at the second the initiator has the pong.                 *)
AfterBarrier(p) ==
  CASE pc[p] = "sizeBarrier" -> First(p)
    [] pc[p] = "pingBarrier" -> IF p = 0 THEN "pongBarrier" ELSE "put"
    [] pc[p] = "pongBarrier" -> AfterRound(p)
    [] pc[p] = "final" -> "exit"

(* Fault: the initiator hands the turn over and waits at one barrier only. *)
BarrierForPongOnly ==
  /\ \A p \in PE : pc[p] \in BarrierPC
  /\ pc' = [p \in PE |-> IF p = 0 /\ pc[p] = "pingBarrier" THEN "put" ELSE AfterBarrier(p)]
  /\ round' = [p \in PE |-> IF pc[p] = "pongBarrier" \/ (p = 0 /\ pc[p] = "pingBarrier")
                            THEN round[p] + 1 ELSE round[p]]
  /\ UNCHANGED <<transport, recv, puts>>

(* shmem_barrier_all, MPI_Barrier before a size, or the finalisation: both *)
(* PEs have entered one.                                                   *)
Barrier ==
  /\ \A p \in PE : pc[p] \in BarrierPC
  /\ pc' = [p \in PE |-> AfterBarrier(p)]
  /\ round' = [p \in PE |-> IF pc[p] = "pongBarrier" THEN round[p] + 1 ELSE round[p]]
  /\ UNCHANGED <<transport, recv, puts>>

(* MPI_Send, ncclSend or ccl::send of the ping, or of the receive buffer   *)
(* back as the pong.  It may be over before the message has arrived.       *)
AfterSend(p) == IF p = 0 THEN "recv" ELSE AfterRound(p)

EndsRound(p, after) == p = 1 /\ after # "sent"

SendLeg(p) ==
  /\ transport = "messages"
  /\ puts' = puts \cup {[src |-> p, round |-> IF p = 0 THEN round[p] + 1 ELSE recv[p],
                         on |-> "message"]}
  /\ \E after \in {"sent", AfterSend(p)} :
       /\ Goto(p, "put", after)
       /\ round' = IF EndsRound(p, after) THEN [round EXCEPT ![p] = @ + 1] ELSE round
  /\ UNCHANGED recv

EndSend(p) ==
  /\ \A m \in puts : m.src # p
  /\ Goto(p, "sent", AfterSend(p))
  /\ round' = IF p = 1 THEN [round EXCEPT ![p] = @ + 1] ELSE round
  /\ UNCHANGED <<recv, puts>>

(* MPI_Recv, ncclRecv or ccl::recv, which is over when the message is in   *)
(* the buffer; the initiator's ends its round trip.                        *)
RecvLeg(p) ==
  \E m \in puts :
    /\ m.src = 1 - p /\ m.on = "message"
    /\ Goto(p, "recv", IF p = 0 THEN AfterRound(p) ELSE "put")
    /\ puts' = puts \ {m}
    /\ recv' = [recv EXCEPT ![p] = m.round]
    /\ round' = IF p = 0 THEN [round EXCEPT ![p] = @ + 1] ELSE round

(* The initiator validates; the peer is already on its way.                *)
Check ==
  /\ Goto(0, "check", IF round[0] < Total THEN "sizeBarrier" ELSE "final")
  /\ UNCHANGED <<round, recv, puts>>

Deliver(m) ==
  /\ m.on # "message"
  /\ puts' = puts \ {m}
  /\ recv' = [recv EXCEPT ![1 - m.src] = IF m.src = 0 THEN m.round ELSE recv[1]]
  /\ UNCHANGED <<transport, pc, round>>

-----------------------------------------------------------------------------
PEStep(p) ==
  PutLeg(p) \/ Quiet(p) \/ Sync(p) \/ SendLeg(p) \/ EndSend(p) \/ RecvLeg(p)

Next ==
  \/ \E p \in PE : PEStep(p)
  \/ Barrier \/ Check
  \/ \E m \in puts : Deliver(m)

Spec == Init /\ [][Next]_vars

Fairness ==
  /\ \A p \in PE : WF_vars(PEStep(p))
  /\ WF_vars(Barrier \/ Check)
  /\ WF_vars(\E m \in puts : Deliver(m))

FairSpec == Spec /\ Fairness

-----------------------------------------------------------------------------
(* Properties.                                                             *)

(* "Without it the copy overlaps the barriers and the following iteration's *)
(* ping, which is not a ping-pong at all": when the peer's turn comes it   *)
(* holds this round trip's ping, and the initiator starts the next ping,   *)
(* and validates, with the pong of the last one.                           *)
RoundTrip ==
  /\ pc[1] = "put" => recv[1] = round[1] + 1
  /\ pc[0] \in {"put", "check"} => recv[0] = round[0]

(* The barriers, or the sends and receives, of the two PEs pair up as      *)
(* meant: they take turns.                                                 *)
Turns == INSTANCE TurnTaking WITH
           pings <- round[0] + (IF pc[0] \in {"pongBarrier", "sent", "recv"} THEN 1 ELSE 0),
           pongs <- round[1] + (IF pc[1] = "sent" THEN 1 ELSE 0)

ImplementsTurns == Turns!Spec

(* Neither PE is left alone at a barrier or waits for a message for ever.  *)
Termination == <>(\A p \in PE : pc[p] = "exit")

=============================================================================
