------------------------------ MODULE HaloRing ------------------------------
(***************************************************************************)
(* The NVSHMEM ring halo exchange (shmem/nvshmem/microbench/halo_1d.cu):   *)
(* the persistent cooperative kernel of every PE, whose blocks put their   *)
(* chunks of the boundaries one-sidedly and whose block 0 signals and      *)
(* waits once per direction and iteration, and the host loop around it     *)
(* that poisons, aligns, launches, validates and combines the verdicts.    *)
(*                                                                         *)
(* One-sided operations are asynchronous: a put or a signal is in flight   *)
(* from the call until the network delivers it, in any order; only quiet   *)
(* orders them.                                                            *)
(***************************************************************************)
EXTENDS RingTopology, Batches

CONSTANTS
  Halo,            (* Elements of one halo.                                *)
  MaxGrid,         (* Blocks the cooperative launch may use.               *)
  MinPerBlock      (* min_elements_per_block.                              *)

ASSUME HaloAssumption ==
  /\ {Halo, MaxGrid, MinPerBlock} \subseteq Nat \ {0}
  /\ {Sizes, Iterations, Warmup} \subseteq Nat \ {0}
  /\ {SteadySamples, IsolatedSamples} \subseteq Nat \ {0}

-----------------------------------------------------------------------------
(* The grid: how many blocks, and which of them own a non-empty chunk.     *)

CeilDiv(a, b) == (a + b - 1) \div b

BlocksFor(elements, max_grid) ==
  LET wanted == CeilDiv(elements, MinPerBlock)
  IN  IF wanted < 1 THEN 1 ELSE IF wanted > max_grid THEN max_grid ELSE wanted

Block == 0 .. BlocksFor(Halo, MaxGrid) - 1
Chunk == CeilDiv(Halo, BlocksFor(Halo, MaxGrid))

(* The blocks whose chunk is not empty (len # 0).                          *)
Active == {b \in Block : b * Chunk < Halo}

-----------------------------------------------------------------------------
VARIABLES
  host,     (* Where the host thread of each PE is.                        *)
  bench,    (* The case it is in: a halo size with a batch length.         *)
  batch,    (* The batch of that case, 0 for the warm-up.                  *)
  base,     (* Its running signal total.                                   *)
  ok,       (* Its local_ok of the case.                                   *)
  all_ok,   (* Its all_cases_ok.                                           *)
  pc,       (* Where each block of its kernel is.                          *)
  it,       (* The kernel's iteration, 0 while no kernel runs.             *)
  sig,      (* sig[p][s]: signal counter of p for its halo at side s.      *)
  pending,  (* pending[p][s]: signals in flight to that counter.           *)
  puts,     (* Puts in flight.                                             *)
  recv      (* recv[p][s][b]: what chunk b of p's halo at side s holds:    *)
            (* the signal total of the iteration that wrote it, or Poison. *)

vars == <<host, bench, batch, base, ok, all_ok, pc, it, sig, pending, puts, recv>>
hostVars == <<bench, batch, base, ok, all_ok>>
netVars == <<sig, pending, puts, recv>>

(* The content of a halo no exchange of this batch has written: 0xA5 bytes, *)
(* or the zeros of the allocation.  No PE's marker has that value.          *)
Poison == 0

Put == [src : PE, to : Side, blk : Active, stamp : Nat]

HostPC == {"before", "aligned", "body", "kernel", "after", "verdict", "closing", "exit"}
BlockPC == {"idle", "put", "quiet", "sync1", "signalRight", "signalLeft",
            "waitLeft", "waitRight", "sync2"}

TypeOK ==
  /\ host \in [PE -> HostPC]
  /\ bench \in [PE -> Nat \ {0}]
  /\ batch \in [PE -> Nat]
  /\ base \in [PE -> Nat]
  /\ ok \in [PE -> BOOLEAN]
  /\ all_ok \in [PE -> BOOLEAN]
  /\ pc \in [PE -> [Block -> BlockPC]]
  /\ it \in [PE -> Nat]
  /\ sig \in [PE -> [Side -> Nat]]
  /\ pending \in [PE -> [Side -> Nat]]
  /\ puts \subseteq Put
  /\ recv \in [PE -> [Side -> [Block -> Nat]]]

Init ==
  /\ host = [p \in PE |-> "before"]
  /\ bench = [p \in PE |-> 1]
  /\ batch = [p \in PE |-> 0]
  /\ base = [p \in PE |-> 0]
  /\ ok = [p \in PE |-> TRUE]
  /\ all_ok = [p \in PE |-> TRUE]
  /\ pc = [p \in PE |-> [b \in Block |-> "idle"]]
  /\ it = [p \in PE |-> 0]
  /\ sig = [p \in PE |-> [s \in Side |-> 0]]
  /\ pending = [p \in PE |-> [s \in Side |-> 0]]
  /\ puts = {}
  /\ recv = [p \in PE |-> [s \in Side |-> [b \in Block |-> Poison]]]

-----------------------------------------------------------------------------
(* The kernel.                                                             *)

(* The exchange p is in, counted over all launches; base[p] between them.  *)
Exchange(p) == base[p] + it[p]

(* Fault: the counters are taken to start at 0 in every launch.            *)
ThresholdWithoutBase(p) == it[p]

(* The signal count the kernel waits for: base + it.                       *)
Threshold(p) == base[p] + it[p]

At(p, b, from, to) ==
  /\ pc[p][b] = from
  /\ pc' = [pc EXCEPT ![p][b] = to]

(* Both non-blocking puts of block b; an empty block issues nothing.       *)
IssuePuts(p, b) ==
  /\ At(p, b, "put", "quiet")
  /\ puts' = IF b \in Active
             THEN puts \cup {[src |-> p, to |-> s, blk |-> b, stamp |-> Exchange(p)] : s \in Side}
             ELSE puts
  /\ UNCHANGED <<host, hostVars, it, sig, pending, recv>>

(* Fault: the block goes to grid.sync() without nvshmem_quiet.             *)
QuietSkipped(p, b) ==
  /\ At(p, b, "quiet", "sync1")
  /\ UNCHANGED <<host, hostVars, it, netVars>>

(* nvshmem_quiet: the puts this block issued have all been delivered.      *)
Quiet(p, b) ==
  /\ \A m \in puts : ~(m.src = p /\ m.blk = b)
  /\ At(p, b, "quiet", "sync1")
  /\ UNCHANGED <<host, hostVars, it, netVars>>

(* Fault: __syncthreads() in place of the first grid.sync().               *)
BlockSync1(p) ==
  /\ \E b \in Block : At(p, b, "sync1", IF b = 0 THEN "signalRight" ELSE "sync2")
  /\ UNCHANGED <<host, hostVars, it, netVars>>

(* The first grid.sync(): block 0 goes on to signal, the others to the     *)
(* second grid.sync().                                                     *)
GridSync1(p) ==
  /\ \A b \in Block : pc[p][b] = "sync1"
  /\ pc' = [pc EXCEPT ![p] = [b \in Block |-> IF b = 0 THEN "signalRight" ELSE "sync2"]]
  /\ UNCHANGED <<host, hostVars, it, netVars>>

(* nvshmemx_signal_op(..., SIGNAL_ADD, ...) to the neighbour at side s.    *)
SignalTo(p, s) ==
  pending' = [pending EXCEPT ![Neighbour(p, s)][Opp(s)] = @ + 1]

SignalRight(p) ==
  /\ At(p, 0, "signalRight", "signalLeft")
  /\ SignalTo(p, "right")
  /\ UNCHANGED <<host, hostVars, it, sig, puts, recv>>

SignalLeft(p) ==
  /\ At(p, 0, "signalLeft", "waitLeft")
  /\ SignalTo(p, "left")
  /\ UNCHANGED <<host, hostVars, it, sig, puts, recv>>

(* nvshmem_signal_wait_until(signals + sig_left, CMP_GE, threshold).       *)
WaitLeft(p) ==
  /\ sig[p]["left"] >= Threshold(p)
  /\ At(p, 0, "waitLeft", "waitRight")
  /\ UNCHANGED <<host, hostVars, it, netVars>>

(* Fault: only the left neighbour is waited for.                           *)
WaitRightSkipped(p) ==
  /\ At(p, 0, "waitRight", "sync2")
  /\ UNCHANGED <<host, hostVars, it, netVars>>

WaitRight(p) ==
  /\ sig[p]["right"] >= Threshold(p)
  /\ At(p, 0, "waitRight", "sync2")
  /\ UNCHANGED <<host, hostVars, it, netVars>>

GridReady2(p) == \A b \in Block : pc[p][b] = "sync2"

(* The second grid.sync(), which opens the next iteration.                 *)
GridSync2(p) ==
  /\ GridReady2(p)
  /\ it[p] < Count(bench[p], batch[p])
  /\ it' = [it EXCEPT ![p] = @ + 1]
  /\ pc' = [pc EXCEPT ![p] = [b \in Block |-> "put"]]
  /\ UNCHANGED <<host, hostVars, netVars>>

-----------------------------------------------------------------------------
(* The host.                                                               *)

(* before_batch: poison both halos, then enter nvshmem_barrier_all.        *)
PoisonHalos(p) ==
  /\ host[p] = "before"
  /\ host' = [host EXCEPT ![p] = "aligned"]
  /\ recv' = [recv EXCEPT ![p] = [s \in Side |-> [b \in Block |-> Poison]]]
  /\ UNCHANGED <<hostVars, pc, it, sig, pending, puts>>

(* Fault: each launch resets the signal counters and counts from 0.        *)
LaunchResetsCounters(p) ==
  /\ host[p] = "body"
  /\ host' = [host EXCEPT ![p] = "kernel"]
  /\ it' = [it EXCEPT ![p] = 1]
  /\ pc' = [pc EXCEPT ![p] = [b \in Block |-> "put"]]
  /\ base' = [base EXCEPT ![p] = 0]
  /\ sig' = [sig EXCEPT ![p] = [s \in Side |-> 0]]
  /\ UNCHANGED <<bench, batch, ok, all_ok, pending, puts, recv>>

(* nvshmemx_collective_launch of count iterations.                         *)
Launch(p) ==
  /\ host[p] = "body"
  /\ host' = [host EXCEPT ![p] = "kernel"]
  /\ it' = [it EXCEPT ![p] = 1]
  /\ pc' = [pc EXCEPT ![p] = [b \in Block |-> "put"]]
  /\ UNCHANGED <<hostVars, netVars>>

(* Fault: a batch advances the total by one, as if it were one exchange.   *)
FinishKernelCountsOne(p) ==
  /\ GridReady2(p)
  /\ it[p] = Count(bench[p], batch[p])
  /\ base' = [base EXCEPT ![p] = @ + 1]
  /\ it' = [it EXCEPT ![p] = 0]
  /\ pc' = [pc EXCEPT ![p] = [b \in Block |-> "idle"]]
  /\ host' = [host EXCEPT ![p] = IF batch[p] = 0 THEN "before" ELSE "after"]
  /\ batch' = [batch EXCEPT ![p] = IF @ = 0 THEN 1 ELSE @]
  /\ UNCHANGED <<bench, ok, all_ok, netVars>>

(* The last iteration ends: cudaDeviceSynchronize returns, base advances,  *)
(* and a timed batch goes on to its validation, the warm-up to the first   *)
(* sample.                                                                 *)
FinishKernel(p) ==
  /\ GridReady2(p)
  /\ it[p] = Count(bench[p], batch[p])
  /\ base' = [base EXCEPT ![p] = @ + Count(bench[p], batch[p])]
  /\ it' = [it EXCEPT ![p] = 0]
  /\ pc' = [pc EXCEPT ![p] = [b \in Block |-> "idle"]]
  /\ host' = [host EXCEPT ![p] = IF batch[p] = 0 THEN "before" ELSE "after"]
  /\ batch' = [batch EXCEPT ![p] = IF @ = 0 THEN 1 ELSE @]
  /\ UNCHANGED <<bench, ok, all_ok, netVars>>

(* after_batch: every element of both halos has the neighbour's marker.    *)
Validate(p) ==
  /\ host[p] = "after"
  /\ ok' = [ok EXCEPT ![p] = @ /\ \A s \in Side : \A b \in Active : recv[p][s][b] # Poison]
  /\ IF batch[p] < Samples(bench[p])
     THEN /\ host' = [host EXCEPT ![p] = "before"]
          /\ batch' = [batch EXCEPT ![p] = @ + 1]
     ELSE /\ host' = [host EXCEPT ![p] = "verdict"]
          /\ UNCHANGED batch
  /\ UNCHANGED <<bench, base, all_ok, pc, it, netVars>>

(* MPI_Allreduce(MPI_LAND) of local_ok, folded into all_cases_ok.          *)
Verdict ==
  /\ \A p \in PE : host[p] = "verdict"
  /\ host' = [p \in PE |-> "closing"]
  /\ all_ok' = [p \in PE |-> all_ok[p] /\ \A q \in PE : ok[q]]
  /\ UNCHANGED <<bench, batch, base, ok, pc, it, netVars>>

(* nvshmem_barrier_all: every PE has entered one of the two calls.  From   *)
(* the call of before_batch a PE launches, from the one that ends a case   *)
(* it goes to the next case with local_ok = 1, or returns.                 *)
Barrier ==
  /\ \A p \in PE : host[p] \in {"aligned", "closing"}
  /\ LET ends(p) == host[p] = "closing"
         last(p) == bench[p] = Cases
     IN  /\ host' = [p \in PE |-> IF ~ends(p) THEN "body"
                                  ELSE IF last(p) THEN "exit" ELSE "before"]
         /\ bench' = [p \in PE |-> IF ends(p) /\ ~last(p) THEN bench[p] + 1 ELSE bench[p]]
         /\ batch' = [p \in PE |-> IF ends(p) /\ ~last(p) THEN 0 ELSE batch[p]]
         /\ ok' = [p \in PE |-> IF ends(p) /\ ~last(p) THEN TRUE ELSE ok[p]]
  /\ UNCHANGED <<base, all_ok, pc, it, netVars>>

-----------------------------------------------------------------------------
(* The network.                                                            *)

DeliverPut(m) ==
  /\ puts' = puts \ {m}
  /\ recv' = [recv EXCEPT ![Neighbour(m.src, m.to)][Opp(m.to)][m.blk] = m.stamp]
  /\ UNCHANGED <<host, hostVars, pc, it, sig, pending>>

DeliverSignal(p, s) ==
  /\ pending[p][s] > 0
  /\ pending' = [pending EXCEPT ![p][s] = @ - 1]
  /\ sig' = [sig EXCEPT ![p][s] = @ + 1]
  /\ UNCHANGED <<host, hostVars, pc, it, puts, recv>>

-----------------------------------------------------------------------------
BlockStep(p, b) == IssuePuts(p, b) \/ Quiet(p, b)
LeaderStep(p) == SignalRight(p) \/ SignalLeft(p) \/ WaitLeft(p) \/ WaitRight(p)
GridStep(p) == GridSync1(p) \/ GridSync2(p)
HostStep(p) == PoisonHalos(p) \/ Launch(p) \/ FinishKernel(p) \/ Validate(p)
Collective == Verdict \/ Barrier
Deliver ==
  \/ \E m \in puts : DeliverPut(m)
  \/ \E p \in PE, s \in Side : DeliverSignal(p, s)

Next ==
  \/ \E p \in PE : \/ \E b \in Block : BlockStep(p, b)
                   \/ LeaderStep(p)
                   \/ GridStep(p)
                   \/ HostStep(p)
  \/ Collective
  \/ Deliver

Spec == Init /\ [][Next]_vars

(* A cooperative launch keeps every block resident, so each block keeps     *)
(* being scheduled; the host threads run; the network delivers.             *)
Fairness ==
  /\ \A p \in PE : /\ \A b \in Block : WF_vars(BlockStep(p, b))
                   /\ WF_vars(LeaderStep(p))
                   /\ WF_vars(GridStep(p))
                   /\ WF_vars(HostStep(p))
  /\ WF_vars(Collective)
  /\ WF_vars(Deliver)

FairSpec == Spec /\ Fairness

-----------------------------------------------------------------------------
(* Properties.                                                             *)

(* The signals p has sent towards s.                                       *)
Sent(p, s) ==
  base[p] + (IF it[p] = 0 THEN 0 ELSE it[p] - 1)
          + (IF \/ pc[p][0] \in {"waitLeft", "waitRight", "sync2"}
                \/ s = "right" /\ pc[p][0] = "signalLeft"
             THEN 1 ELSE 0)

(* The exchanges whose two waits p has passed.                             *)
Done(p) ==
  base[p] + (IF it[p] = 0 THEN 0 ELSE it[p] - 1)
          + (IF pc[p][0] = "sync2" THEN 1 ELSE 0)

(* Once block 0 has passed its two waits of an iteration, every chunk of   *)
(* both halos holds what the neighbours put in that iteration or, if they  *)
(* are ahead, in the next one: the signal never overtakes the data.        *)
WaitGatesData ==
  \A p \in PE : pc[p][0] = "sync2" =>
    \A s \in Side, b \in Active : recv[p][s][b] \in {Exchange(p), Exchange(p) + 1}

(* Between its kernel and the end of the barrier before the next one, no   *)
(* put is in flight to a PE: its validation reads, and its poisoning       *)
(* overwrites, halos that no neighbour writes at the same time.            *)
HostOwnsHalo ==
  \A m \in puts : host[Neighbour(m.src, m.to)] \in {"body", "kernel"}

(* What the host validates is the last exchange of the batch, chunk for    *)
(* chunk, not an earlier one of the same batch that happens to look alike. *)
ValidatesLastExchange ==
  \A p \in PE : host[p] = "after" =>
    \A s \in Side, b \in Active : recv[p][s][b] = base[p]

(* "base is the running signal total (one per direction per iteration)     *)
(* every PE has sent, identical across PEs": once a PE has left its kernel *)
(* its counters are exactly that total and no signal is on its way to      *)
(* them, so the thresholds of the next launch are met by its own signals   *)
(* only; and every PE that has left has the same total.                    *)
BaseIsSignalTotal ==
  \A p \in PE : host[p] \notin {"body", "kernel"} =>
    /\ \A s \in Side : sig[p][s] = base[p] /\ pending[p][s] = 0
    /\ \A q \in PE : host[q] \notin {"body", "kernel"} => base[q] = base[p]

(* However many blocks move data, at most two signals are ever on their    *)
(* way to one counter: what "one signal per direction per iteration" buys. *)
SignalsOutstanding == \A p \in PE, s \in Side : pending[p][s] <= 2

(* A correct exchange is never reported invalid.                           *)
NeverInvalid == \A p \in PE : ok[p] /\ all_ok[p]

(* The exchange implements the abstract ring: a PE completes an iteration  *)
(* only when both neighbours have signalled it.                            *)
Ring == INSTANCE RingExchange WITH
          Rounds <- Nat,
          posted <- [p \in PE |-> [s \in Side |-> Sent(p, s)]],
          done   <- [p \in PE |-> Done(p)]

ImplementsRing == Ring!Spec

(* No wait spins for ever: every PE goes through all its batches and       *)
(* leaves with a valid verdict.                                            *)
Termination == <>(\A p \in PE : host[p] = "exit" /\ all_ok[p])

-----------------------------------------------------------------------------
(* The inductive invariant the properties follow from.                     *)

InLaunch(p) == host[p] \in {"body", "kernel"}

(* The launches of its case p has been released into, and the signal total *)
(* at which the launch it was last released into ends.                     *)
LaunchesBegun(p) == IF host[p] \in {"before", "aligned"} THEN batch[p] ELSE batch[p] + 1
EndTotal(p) == IF InLaunch(p) THEN base[p] + Count(bench[p], batch[p]) ELSE base[p]

(* The barriers keep all PEs in the same launch of the same case.          *)
SameLaunch ==
  \A p, q \in PE :
    /\ bench[p] = bench[q]
    /\ LaunchesBegun(p) = LaunchesBegun(q)
    /\ EndTotal(p) = EndTotal(q)
    /\ host[p] \in {"closing", "exit"} => host[q] = host[p]

(* Which batches each stage of the host loop sees.                         *)
HostStage ==
  \A p \in PE :
    /\ batch[p] <= Samples(bench[p])
    /\ host[p] \in {"verdict", "closing", "exit"} => batch[p] = Samples(bench[p])
    /\ host[p] = "after" => base[p] > 0
    /\ host[p] = "kernel" => it[p] \in 1 .. Count(bench[p], batch[p])
    /\ host[p] # "kernel" => it[p] = 0
    /\ \A b \in Block : (pc[p][b] = "idle") <=> (host[p] # "kernel")

BeforeSync1 == {"put", "quiet", "sync1"}

(* The grid.sync()s keep the blocks of a kernel in the same half of the    *)
(* same iteration.                                                         *)
GridStage ==
  \A p \in PE, b \in Block :
    /\ pc[p][b] \in BeforeSync1 <=> pc[p][0] \in BeforeSync1
    /\ b # 0 => pc[p][b] \in BeforeSync1 \cup {"idle", "sync2"}

PutsOfQuietBlocks ==
  \A m \in puts : pc[m.src][m.blk] = "quiet" /\ m.stamp = Exchange(m.src)

(* No signal is lost: the counter and what is in flight to it add up to    *)
(* what the neighbour on that side has sent.                               *)
SignalsAddUp ==
  \A p \in PE, s \in Side : sig[p][s] + pending[p][s] = Sent(Neighbour(p, s), Opp(s))

WaitedFor ==
  \A p \in PE :
    /\ \A s \in Side : sig[p][s] >= Done(p)
    /\ pc[p][0] = "waitRight" => sig[p]["left"] >= Exchange(p)

(* What the puts of chunk b by q have left in the halo of its neighbour,   *)
(* until the neighbour poisons it for the next launch.                     *)
LandedAt(q, s, b) ==
  LET t == Neighbour(q, s)
      got == recv[t][Opp(s)][b]
  IN  host[t] # "aligned" =>
        /\ host[q] \notin {"body", "kernel"} => got = base[q]
        /\ host[q] = "kernel" /\ pc[q][b] \notin {"put", "quiet"} => got = Exchange(q)
        /\ pc[q][b] = "quiet" =>
             \/ got = Exchange(q)
             \/ [src |-> q, to |-> s, blk |-> b, stamp |-> Exchange(q)] \in puts
        /\ pc[q][b] \in {"put", "quiet"} /\ it[q] > 1 => got \in {Exchange(q) - 1, Exchange(q)}

PutsLanded == \A q \in PE, s \in Side, b \in Active : LandedAt(q, s, b)

IInv ==
  /\ TypeOK
  /\ SameLaunch
  /\ HostStage
  /\ GridStage
  /\ PutsOfQuietBlocks
  /\ SignalsAddUp
  /\ WaitedFor
  /\ PutsLanded

=============================================================================
