--------------------------- MODULE HaloRingProofs ---------------------------
(***************************************************************************)
(* Proofs about the NVSHMEM ring halo exchange, for every number of PEs,   *)
(* grid, halo, batch length and number of samples.                         *)
(***************************************************************************)
EXTENDS HaloRing, WellFoundedInduction, TLAPS

(* Going to a neighbour and back ends where it started, so every halo has  *)
(* exactly one writer.                                                     *)
LEMMA RingNeighbours ==
  ASSUME NEW p \in PE, NEW s \in Side
  PROVE  /\ Neighbour(p, s) \in PE
         /\ Opp(s) \in Side
         /\ Opp(Opp(s)) = s
         /\ Neighbour(Neighbour(p, s), Opp(s)) = p
<1>1. \A q \in PE :
        /\ Neighbour(q, "right") = (IF q = N - 1 THEN 0 ELSE q + 1)
        /\ Neighbour(q, "left") = (IF q = 0 THEN N - 1 ELSE q - 1)
  <2>1. \A q \in PE : /\ (q + 1) % N = (IF q = N - 1 THEN 0 ELSE q + 1)
                      /\ (q - 1 + N) % N = (IF q = 0 THEN N - 1 ELSE q - 1)
    BY RingSize DEF PE
  <2>2. QED
    BY <2>1 DEF Neighbour
<1>2. CASE s = "left"
  <2>1. Opp(s) = "right" /\ Opp(Opp(s)) = "left"
    BY <1>2 DEF Opp
  <2>2. QED
    BY <1>1, <1>2, <2>1, RingSize DEF PE, Side
<1>3. CASE s = "right"
  <2>1. Opp(s) = "left" /\ Opp(Opp(s)) = "right"
    BY <1>3 DEF Opp
  <2>2. QED
    BY <1>1, <1>3, <2>1, RingSize DEF PE, Side
<1>4. QED
  BY <1>2, <1>3 DEF Side

-----------------------------------------------------------------------------
(* The constants.                                                          *)

(* The grid has a block 0, the leader.                                     *)
LEMMA GridShape == /\ 0 \in Block
                   /\ Block \subseteq Nat
                   /\ Active \subseteq Block
<1>1. CeilDiv(Halo, MinPerBlock) \in Int
  BY HaloAssumption, RingSize DEF CeilDiv
<1>2. BlocksFor(Halo, MaxGrid) \in Nat \ {0}
  BY <1>1, HaloAssumption, RingSize DEF BlocksFor
<1>3. QED
  BY <1>2 DEF Block, Active

(* Every batch runs at least one exchange.                                 *)
LEMMA BatchShape ==
  ASSUME NEW c \in Nat \ {0}
  PROVE  /\ Samples(c) \in Nat \ {0}
         /\ \A b \in Nat : Count(c, b) \in Nat \ {0}
<1> USE HaloAssumption, RingSize
<1>1. CaseIters(c) \in Nat \ {0}
  <2>1. CASE Iterations = 1
    <3>1. BatchCounts = <<1>> /\ Len(BatchCounts) = 1
      BY <2>1 DEF BatchCounts
    <3>2. (c - 1) % 1 = 0
      OBVIOUS
    <3>3. QED
      BY <3>1, <3>2 DEF CaseIters
  <2>2. CASE Iterations # 1
    <3>1. BatchCounts = <<1, Iterations>> /\ Len(BatchCounts) = 2
      BY <2>2 DEF BatchCounts
    <3>2. (c - 1) % 2 \in {0, 1}
      OBVIOUS
    <3>3. QED
      BY <3>1, <3>2 DEF CaseIters
  <2>3. QED
    BY <2>1, <2>2
<1>2. QED
  BY <1>1 DEF Samples, Count

-----------------------------------------------------------------------------
(* Type correctness.                                                       *)

LEMMA TypeInit == Init => TypeOK
BY DEF Init, TypeOK, HostPC, BlockPC, Poison

LEMMA TypeStep == TypeOK /\ [Next]_vars => TypeOK'
<1> SUFFICES ASSUME TypeOK, [Next]_vars
             PROVE  TypeOK'
  OBVIOUS
<1> USE RingNeighbours, GridShape DEF TypeOK
<1>1. ASSUME NEW p \in PE, NEW b \in Block, IssuePuts(p, b)
      PROVE  TypeOK'
  <2>1. Exchange(p) \in Nat
    BY DEF Exchange
  <2>2. puts' \subseteq Put
    BY <1>1, <2>1 DEF IssuePuts, Put
  <2>3. QED
    BY <1>1, <2>2 DEF IssuePuts, At, BlockPC, hostVars
<1>2. ASSUME NEW p \in PE, NEW b \in Block, Quiet(p, b)
      PROVE  TypeOK'
  BY <1>2 DEF Quiet, At, BlockPC, hostVars, netVars
<1>3. ASSUME NEW p \in PE, LeaderStep(p)
      PROVE  TypeOK'
  <2>1. CASE SignalRight(p)
    <3>1. "right" \in Side /\ Neighbour(p, "right") \in PE /\ Opp("right") \in Side
      BY DEF Side
    <3>2. pending' \in [PE -> [Side -> Nat]]
      BY <2>1, <3>1 DEF SignalRight, SignalTo
    <3>3. pc' \in [PE -> [Block -> BlockPC]]
      BY <2>1 DEF SignalRight, At, BlockPC
    <3>4. QED
      BY <2>1, <3>2, <3>3 DEF SignalRight, hostVars
  <2>2. CASE SignalLeft(p)
    <3>1. "left" \in Side /\ Neighbour(p, "left") \in PE /\ Opp("left") \in Side
      BY DEF Side
    <3>2. pending' \in [PE -> [Side -> Nat]]
      BY <2>2, <3>1 DEF SignalLeft, SignalTo
    <3>3. pc' \in [PE -> [Block -> BlockPC]]
      BY <2>2 DEF SignalLeft, At, BlockPC
    <3>4. QED
      BY <2>2, <3>2, <3>3 DEF SignalLeft, hostVars
  <2>3. CASE WaitLeft(p)
    BY <2>3 DEF WaitLeft, At, BlockPC, hostVars, netVars
  <2>4. CASE WaitRight(p)
    BY <2>4 DEF WaitRight, At, BlockPC, hostVars, netVars
  <2>5. QED
    BY <1>3, <2>1, <2>2, <2>3, <2>4 DEF LeaderStep
<1>4. ASSUME NEW p \in PE, GridStep(p)
      PROVE  TypeOK'
  <2>1. CASE GridSync1(p)
    <3>1. [b \in Block |-> IF b = 0 THEN "signalRight" ELSE "sync2"] \in [Block -> BlockPC]
      BY DEF BlockPC
    <3>2. pc' \in [PE -> [Block -> BlockPC]]
      BY <2>1, <3>1 DEF GridSync1
    <3>3. QED
      BY <2>1, <3>2 DEF GridSync1, hostVars, netVars
  <2>2. CASE GridSync2(p)
    <3>1. [b \in Block |-> "put"] \in [Block -> BlockPC]
      BY DEF BlockPC
    <3>2. pc' \in [PE -> [Block -> BlockPC]]
      BY <2>2, <3>1 DEF GridSync2
    <3>3. it' \in [PE -> Nat]
      BY <2>2 DEF GridSync2
    <3>4. QED
      BY <2>2, <3>2, <3>3 DEF GridSync2, hostVars, netVars
  <2>3. QED
    BY <1>4, <2>1, <2>2 DEF GridStep
<1>5. ASSUME NEW p \in PE, PoisonHalos(p)
      PROVE  TypeOK'
  BY <1>5 DEF PoisonHalos, HostPC, Poison, hostVars
<1>6. ASSUME NEW p \in PE, Launch(p)
      PROVE  TypeOK'
  BY <1>6 DEF Launch, HostPC, BlockPC, hostVars, netVars
<1>7. ASSUME NEW p \in PE, FinishKernel(p)
      PROVE  TypeOK'
  <2>1. Count(bench[p], batch[p]) \in Nat
    BY BatchShape
  <2>2. QED
    BY <1>7, <2>1 DEF FinishKernel, HostPC, BlockPC, netVars
<1>8. ASSUME NEW p \in PE, Validate(p)
      PROVE  TypeOK'
  <2>1. ok' \in [PE -> BOOLEAN]
    BY <1>8, Zenon DEF Validate
  <2>2. host' \in [PE -> HostPC] /\ batch' \in [PE -> Nat]
    <3>1. CASE batch[p] < Samples(bench[p])
      BY <1>8, <3>1 DEF Validate, HostPC
    <3>2. CASE ~(batch[p] < Samples(bench[p]))
      BY <1>8, <3>2 DEF Validate, HostPC
    <3>3. QED
      BY <3>1, <3>2
  <2>3. QED
    BY <1>8, <2>1, <2>2 DEF Validate, netVars
<1>9. CASE Verdict
  BY <1>9 DEF Verdict, HostPC, netVars
<1>10. CASE Barrier
  <2>1. host' \in [PE -> HostPC] /\ bench' \in [PE -> Nat \ {0}] /\ batch' \in [PE -> Nat]
    BY <1>10 DEF Barrier, HostPC
  <2>2. ok' \in [PE -> BOOLEAN]
    <3>1. \A p \in PE : ok[p] \in BOOLEAN
      OBVIOUS
    <3>2. ASSUME NEW p \in PE
          PROVE  (IF host[p] = "closing" /\ ~(bench[p] = Cases) THEN TRUE ELSE ok[p]) \in BOOLEAN
      BY <3>1
    <3>3. QED
      BY <1>10, <3>2, Zenon DEF Barrier
  <2>3. QED
    BY <1>10, <2>1, <2>2 DEF Barrier, netVars
<1>11. ASSUME NEW m \in puts, DeliverPut(m)
       PROVE  TypeOK'
  <2>1. m.src \in PE /\ m.to \in Side /\ m.blk \in Block /\ m.stamp \in Nat
    BY DEF Put
  <2>2. QED
    BY <1>11, <2>1 DEF DeliverPut, hostVars
<1>12. ASSUME NEW p \in PE, NEW s \in Side, DeliverSignal(p, s)
       PROVE  TypeOK'
  BY <1>12 DEF DeliverSignal, hostVars
<1>13. CASE UNCHANGED vars
  BY <1>13 DEF vars
<1>14. QED
  BY <1>1, <1>2, <1>3, <1>4, <1>5, <1>6, <1>7, <1>8, <1>9, <1>10, <1>11, <1>12, <1>13
  DEF Next, BlockStep, HostStep, Collective, Deliver

(* Every variable keeps its type: no signal count goes below zero, and a   *)
(* put in flight names a PE, a direction and a block that owns a chunk.    *)
THEOREM TypeCorrect == Spec => []TypeOK
BY TypeInit, TypeStep, PTL DEF Spec

-----------------------------------------------------------------------------
(* The inductive invariant holds initially.                                *)

LEMMA InvInit == Init => IInv
<1> SUFFICES ASSUME Init
             PROVE  IInv
  OBVIOUS
<1> USE RingNeighbours, GridShape, BatchShape DEF Init
<1>1. TypeOK
  BY TypeInit
<1>2. SameLaunch
  BY DEF SameLaunch, LaunchesBegun, EndTotal, InLaunch
<1>3. HostStage
  BY <1>1 DEF HostStage
<1>4. GridStage
  BY DEF GridStage, BeforeSync1
<1>5. PutsOfQuietBlocks
  BY DEF PutsOfQuietBlocks
<1>6. SignalsAddUp
  <2>1. \A p \in PE, s \in Side : Sent(p, s) = 0
    BY DEF Sent
  <2>2. QED
    BY <2>1 DEF SignalsAddUp
<1>7. WaitedFor
  BY DEF WaitedFor, Done
<1>8. PutsLanded
  BY DEF PutsLanded, LandedAt, Poison
<1>9. QED
  BY <1>1, <1>2, <1>3, <1>4, <1>5, <1>6, <1>7, <1>8 DEF IInv

-----------------------------------------------------------------------------
(* The host loop: all PEs stay in the same launch.                         *)

(* A step that leaves alone what a PE has begun keeps the PEs together.    *)
LEMMA SameLaunchFrame ==
  ASSUME SameLaunch,
         \A q \in PE : /\ bench'[q] = bench[q]
                       /\ LaunchesBegun(q)' = LaunchesBegun(q)
                       /\ EndTotal(q)' = EndTotal(q)
                       /\ host[q] \in {"closing", "exit"} => host'[q] = host[q]
                       /\ host'[q] \in {"closing", "exit"} => host'[q] = host[q]
  PROVE  SameLaunch'
BY DEF SameLaunch

(* A kernel is running exactly while a block is at one of its statements.  *)
LEMMA KernelRuns ==
  ASSUME TypeOK, HostStage, NEW p \in PE, NEW b \in Block, pc[p][b] # "idle"
  PROVE  host[p] = "kernel" /\ it[p] \in 1 .. Count(bench[p], batch[p])
BY DEF HostStage

(* Only the host's own steps change its variables.                         *)
LEMMA StepKinds ==
  ASSUME [Next]_vars
  PROVE  \/ UNCHANGED <<host, hostVars>>
         \/ \E p \in PE : PoisonHalos(p) \/ Launch(p) \/ FinishKernel(p) \/ Validate(p)
         \/ Verdict
         \/ Barrier
<1>1. ASSUME NEW p \in PE, NEW b \in Block, BlockStep(p, b)
      PROVE  UNCHANGED <<host, hostVars>>
  BY <1>1 DEF BlockStep, IssuePuts, Quiet
<1>2. ASSUME NEW p \in PE, LeaderStep(p) \/ GridStep(p)
      PROVE  UNCHANGED <<host, hostVars>>
  BY <1>2 DEF LeaderStep, GridStep, SignalRight, SignalLeft, WaitLeft, WaitRight,
              GridSync1, GridSync2
<1>3. CASE Deliver
  BY <1>3 DEF Deliver, DeliverPut, DeliverSignal
<1>4. CASE UNCHANGED vars
  BY <1>4 DEF vars, hostVars
<1>5. QED
  BY <1>1, <1>2, <1>3, <1>4 DEF Next, HostStep, Collective

LEMMA SameLaunchStep == IInv /\ [Next]_vars => SameLaunch'
<1> SUFFICES ASSUME IInv, [Next]_vars
             PROVE  SameLaunch'
  OBVIOUS
<1> USE GridShape DEF IInv
<1>1. CASE UNCHANGED <<host, hostVars>>
  BY <1>1 DEF hostVars, SameLaunch, LaunchesBegun, EndTotal, InLaunch
<1>2. ASSUME NEW p \in PE, PoisonHalos(p)
      PROVE  SameLaunch'
  <2>1. \A q \in PE : host'[q] = IF q = p THEN "aligned" ELSE host[q]
    BY <1>2 DEF PoisonHalos, TypeOK
  <2>2. QED
    BY <1>2, <2>1, SameLaunchFrame
    DEF PoisonHalos, hostVars, LaunchesBegun, EndTotal, InLaunch
<1>3. ASSUME NEW p \in PE, Launch(p)
      PROVE  SameLaunch'
  <2>1. \A q \in PE : host'[q] = IF q = p THEN "kernel" ELSE host[q]
    BY <1>3 DEF Launch, TypeOK
  <2>2. QED
    BY <1>3, <2>1, SameLaunchFrame
    DEF Launch, hostVars, LaunchesBegun, EndTotal, InLaunch
<1>4. ASSUME NEW p \in PE, FinishKernel(p)
      PROVE  SameLaunch'
  <2>1. host[p] = "kernel"
    BY <1>4, KernelRuns DEF FinishKernel, GridReady2
  <2>2. \A q \in PE :
          /\ host'[q] = IF q # p THEN host[q] ELSE IF batch[p] = 0 THEN "before" ELSE "after"
          /\ batch'[q] = IF q = p /\ batch[p] = 0 THEN 1 ELSE batch[q]
          /\ base'[q] = IF q = p THEN base[p] + Count(bench[p], batch[p]) ELSE base[q]
    BY <1>4 DEF FinishKernel, TypeOK
  <2>3. QED
    BY <1>4, <2>1, <2>2, SameLaunchFrame
    DEF FinishKernel, LaunchesBegun, EndTotal, InLaunch
<1>5. ASSUME NEW p \in PE, Validate(p)
      PROVE  SameLaunch'
  <2>1. CASE batch[p] < Samples(bench[p])
    <3>1. \A q \in PE : /\ host'[q] = IF q = p THEN "before" ELSE host[q]
                        /\ batch'[q] = IF q = p THEN batch[p] + 1 ELSE batch[q]
      BY <1>5, <2>1 DEF Validate, TypeOK
    <3>2. QED
      BY <1>5, <3>1, SameLaunchFrame DEF Validate, LaunchesBegun, EndTotal, InLaunch
  <2>2. CASE ~(batch[p] < Samples(bench[p]))
    <3>1. \A q \in PE : host'[q] = IF q = p THEN "verdict" ELSE host[q]
      BY <1>5, <2>2 DEF Validate, TypeOK
    <3>2. QED
      BY <1>5, <2>2, <3>1, SameLaunchFrame DEF Validate, LaunchesBegun, EndTotal, InLaunch
  <2>3. QED
    BY <2>1, <2>2
<1>6. CASE Verdict
  BY <1>6 DEF Verdict, SameLaunch, LaunchesBegun, EndTotal, InLaunch
<1>7. CASE Barrier
  <2>1. CASE \A p \in PE : host[p] = "aligned"
    <3>1. \A p \in PE : /\ host'[p] = "body" /\ bench'[p] = bench[p]
                        /\ batch'[p] = batch[p] /\ base'[p] = base[p]
      BY <1>7, <2>1 DEF Barrier, TypeOK
    <3>2. \A p, q \in PE : bench[p] = bench[q] /\ batch[p] = batch[q] /\ base[p] = base[q]
      BY <2>1 DEF SameLaunch, LaunchesBegun, EndTotal, InLaunch
    <3>3. QED
      BY <3>1, <3>2 DEF SameLaunch, LaunchesBegun, EndTotal, InLaunch
  <2>2. CASE \A p \in PE : host[p] = "closing"
    <3>1. \A p \in PE :
            /\ host'[p] = IF bench[p] = Cases THEN "exit" ELSE "before"
            /\ bench'[p] = IF bench[p] = Cases THEN bench[p] ELSE bench[p] + 1
            /\ batch'[p] = IF bench[p] = Cases THEN batch[p] ELSE 0
            /\ base'[p] = base[p]
      BY <1>7, <2>2 DEF Barrier, TypeOK
    <3>2. \A p, q \in PE :
            bench[p] = bench[q] /\ batch[p] + 1 = batch[q] + 1 /\ base[p] = base[q]
      BY <2>2 DEF SameLaunch, LaunchesBegun, EndTotal, InLaunch
    <3>3. QED
      BY <3>1, <3>2 DEF SameLaunch, LaunchesBegun, EndTotal, InLaunch
  <2>3. QED
    BY <1>7, <2>1, <2>2 DEF Barrier, SameLaunch
<1>8. QED
  BY <1>1, <1>2, <1>3, <1>4, <1>5, <1>6, <1>7, StepKinds

-----------------------------------------------------------------------------
(* The stages of host and grid.                                            *)

(* A statement of one block of the kernel of p: block b leaves "from" for  *)
(* "to", neither of them outside the kernel.                               *)
LEMMA BlockMoves ==
  ASSUME TypeOK, NEW p \in PE, NEW b \in Block, NEW from, NEW to \in BlockPC, At(p, b, from, to)
  PROVE  /\ pc[p][b] = from
         /\ \A q \in PE, c \in Block :
              pc'[q][c] = IF q = p /\ c = b THEN to ELSE pc[q][c]
BY DEF At, TypeOK

LEMMA HostStageStep == IInv /\ [Next]_vars => HostStage'
<1> SUFFICES ASSUME IInv, [Next]_vars
             PROVE  HostStage'
  OBVIOUS
<1> USE GridShape DEF IInv
<1>1. ASSUME UNCHANGED <<host, hostVars, it>>,
             \A q \in PE, c \in Block : (pc'[q][c] = "idle") <=> (pc[q][c] = "idle")
      PROVE  HostStage'
  BY <1>1 DEF hostVars, HostStage
<1>2. ASSUME NEW p \in PE, NEW b \in Block, NEW from \in BlockPC \ {"idle"},
             NEW to \in BlockPC \ {"idle"}, At(p, b, from, to),
             UNCHANGED <<host, hostVars, it>>
      PROVE  HostStage'
  BY <1>1, <1>2, BlockMoves
<1>3. ASSUME NEW p \in PE, NEW b \in Block, BlockStep(p, b)
      PROVE  HostStage'
  BY <1>2, <1>3 DEF BlockStep, IssuePuts, Quiet, BlockPC
<1>4. ASSUME NEW p \in PE, LeaderStep(p)
      PROVE  HostStage'
  BY <1>2, <1>4 DEF LeaderStep, SignalRight, SignalLeft, WaitLeft, WaitRight, BlockPC
<1>5. ASSUME NEW p \in PE, GridSync1(p)
      PROVE  HostStage'
  <2>1. \A q \in PE, c \in Block :
          pc'[q][c] = IF q = p THEN (IF c = 0 THEN "signalRight" ELSE "sync2") ELSE pc[q][c]
    BY <1>5 DEF GridSync1, TypeOK
  <2>2. QED
    BY <1>1, <1>5, <2>1 DEF GridSync1
<1>6. ASSUME NEW p \in PE, GridSync2(p)
      PROVE  HostStage'
  <2>1. /\ \A q \in PE, c \in Block : pc'[q][c] = IF q = p THEN "put" ELSE pc[q][c]
        /\ \A q \in PE : it'[q] = IF q = p THEN it[p] + 1 ELSE it[q]
    BY <1>6 DEF GridSync2, TypeOK
  <2>2. host[p] = "kernel" /\ it[p] \in 1 .. Count(bench[p], batch[p])
    BY <1>6, KernelRuns DEF GridSync2, GridReady2
  <2>3. Count(bench[p], batch[p]) \in Nat
    BY BatchShape DEF TypeOK
  <2>4. QED
    BY <1>6, <2>1, <2>2, <2>3 DEF GridSync2, HostStage, hostVars
<1>7. ASSUME NEW p \in PE, PoisonHalos(p)
      PROVE  HostStage'
  <2>1. \A q \in PE : host'[q] = IF q = p THEN "aligned" ELSE host[q]
    BY <1>7 DEF PoisonHalos, TypeOK
  <2>2. QED
    BY <1>7, <2>1 DEF PoisonHalos, HostStage, hostVars
<1>8. ASSUME NEW p \in PE, Launch(p)
      PROVE  HostStage'
  <2>1. /\ \A q \in PE, c \in Block : pc'[q][c] = IF q = p THEN "put" ELSE pc[q][c]
        /\ \A q \in PE : it'[q] = IF q = p THEN 1 ELSE it[q]
        /\ \A q \in PE : host'[q] = IF q = p THEN "kernel" ELSE host[q]
    BY <1>8 DEF Launch, TypeOK
  <2>2. Count(bench[p], batch[p]) \in Nat \ {0}
    BY BatchShape DEF TypeOK
  <2>3. QED
    BY <1>8, <2>1, <2>2 DEF Launch, HostStage, hostVars
<1>9. ASSUME NEW p \in PE, FinishKernel(p)
      PROVE  HostStage'
  <2>1. host[p] = "kernel"
    BY <1>9, KernelRuns DEF FinishKernel, GridReady2
  <2>2. /\ \A q \in PE, c \in Block : pc'[q][c] = IF q = p THEN "idle" ELSE pc[q][c]
        /\ \A q \in PE : it'[q] = IF q = p THEN 0 ELSE it[q]
        /\ \A q \in PE :
             host'[q] = IF q # p THEN host[q] ELSE IF batch[p] = 0 THEN "before" ELSE "after"
        /\ \A q \in PE : batch'[q] = IF q = p /\ batch[p] = 0 THEN 1 ELSE batch[q]
        /\ \A q \in PE : base'[q] = IF q = p THEN base[p] + Count(bench[p], batch[p]) ELSE base[q]
    BY <1>9 DEF FinishKernel, TypeOK
  <2>3. Count(bench[p], batch[p]) \in Nat \ {0} /\ Samples(bench[p]) \in Nat \ {0}
    BY BatchShape DEF TypeOK
  <2>4. base[p] \in Nat /\ UNCHANGED bench
    BY <1>9 DEF TypeOK, FinishKernel
  <2>5. QED
    BY <2>1, <2>2, <2>3, <2>4 DEF HostStage
<1>10. ASSUME NEW p \in PE, Validate(p)
       PROVE  HostStage'
  <2>1. Samples(bench[p]) \in Nat /\ batch[p] \in Nat
    BY BatchShape DEF TypeOK
  <2>2. CASE batch[p] < Samples(bench[p])
    <3>1. \A q \in PE : /\ host'[q] = IF q = p THEN "before" ELSE host[q]
                        /\ batch'[q] = IF q = p THEN batch[p] + 1 ELSE batch[q]
      BY <1>10, <2>2 DEF Validate, TypeOK
    <3>2. QED
      BY <1>10, <2>1, <2>2, <3>1 DEF Validate, HostStage
  <2>3. CASE ~(batch[p] < Samples(bench[p]))
    <3>1. \A q \in PE : host'[q] = IF q = p THEN "verdict" ELSE host[q]
      BY <1>10, <2>3 DEF Validate, TypeOK
    <3>2. QED
      BY <1>10, <2>1, <2>3, <3>1 DEF Validate, HostStage
  <2>4. QED
    BY <2>2, <2>3
<1>11. CASE Verdict
  BY <1>11 DEF Verdict, HostStage
<1>12. CASE Barrier
  <2>1. \A q \in PE : bench[q] + 1 \in Nat \ {0}
    BY DEF TypeOK
  <2>2. \A q \in PE : Samples(bench[q] + 1) \in Nat
    BY <2>1, BatchShape
  <2>3. QED
    BY <1>12, <2>2 DEF Barrier, HostStage
<1>13. CASE Deliver
  BY <1>1, <1>13 DEF Deliver, DeliverPut, DeliverSignal
<1>14. CASE UNCHANGED vars
  BY <1>1, <1>14 DEF vars, hostVars
<1>15. QED
  BY <1>3, <1>4, <1>5, <1>6, <1>7, <1>8, <1>9, <1>10, <1>11, <1>12, <1>13, <1>14
  DEF Next, GridStep, HostStep, Collective

LEMMA GridStageStep == IInv /\ [Next]_vars => GridStage'
<1> SUFFICES ASSUME IInv, [Next]_vars
             PROVE  GridStage'
  OBVIOUS
<1> USE GridShape DEF IInv
<1>1. CASE UNCHANGED pc
  BY <1>1 DEF GridStage
<1>2. ASSUME NEW p \in PE, NEW b \in Block, BlockStep(p, b)
      PROVE  GridStage'
  <2>1. PICK from \in BeforeSync1, to \in BeforeSync1 : At(p, b, from, to)
    BY <1>2 DEF BlockStep, IssuePuts, Quiet, BeforeSync1
  <2>2. QED
    BY <2>1, BlockMoves DEF GridStage, BeforeSync1, BlockPC
<1>3. ASSUME NEW p \in PE, LeaderStep(p)
      PROVE  GridStage'
  <2>1. PICK from \in BlockPC \ BeforeSync1, to \in BlockPC \ BeforeSync1 : At(p, 0, from, to)
    BY <1>3 DEF LeaderStep, SignalRight, SignalLeft, WaitLeft, WaitRight, BeforeSync1, BlockPC
  <2>2. QED
    BY <2>1, BlockMoves DEF GridStage, BeforeSync1, BlockPC
<1>4. ASSUME NEW p \in PE, GridSync1(p)
      PROVE  GridStage'
  <2>1. \A q \in PE, c \in Block :
          pc'[q][c] = IF q = p THEN (IF c = 0 THEN "signalRight" ELSE "sync2") ELSE pc[q][c]
    BY <1>4 DEF GridSync1, TypeOK
  <2>2. ASSUME NEW q \in PE, NEW c \in Block
        PROVE  /\ pc'[q][c] \in BeforeSync1 <=> pc'[q][0] \in BeforeSync1
               /\ c # 0 => pc'[q][c] \in BeforeSync1 \cup {"idle", "sync2"}
    <3>1. CASE q = p
      BY <2>1, <3>1 DEF BeforeSync1
    <3>2. CASE q # p
      <4>1. pc'[q][c] = pc[q][c] /\ pc'[q][0] = pc[q][0]
        BY <2>1, <3>2
      <4>2. QED
        BY <4>1 DEF GridStage
    <3>3. QED
      BY <3>1, <3>2
  <2>3. QED
    BY <2>2 DEF GridStage
<1>5. ASSUME NEW p \in PE, GridSync2(p) \/ Launch(p)
      PROVE  GridStage'
  <2>1. \A q \in PE, c \in Block : pc'[q][c] = IF q = p THEN "put" ELSE pc[q][c]
    BY <1>5 DEF GridSync2, Launch, TypeOK
  <2>2. ASSUME NEW q \in PE, NEW c \in Block
        PROVE  /\ pc'[q][c] \in BeforeSync1 <=> pc'[q][0] \in BeforeSync1
               /\ c # 0 => pc'[q][c] \in BeforeSync1 \cup {"idle", "sync2"}
    <3>1. CASE q = p
      BY <2>1, <3>1 DEF BeforeSync1
    <3>2. CASE q # p
      <4>1. pc'[q][c] = pc[q][c] /\ pc'[q][0] = pc[q][0]
        BY <2>1, <3>2
      <4>2. QED
        BY <4>1 DEF GridStage
    <3>3. QED
      BY <3>1, <3>2
  <2>3. QED
    BY <2>2 DEF GridStage
<1>6. ASSUME NEW p \in PE, FinishKernel(p)
      PROVE  GridStage'
  <2>1. \A q \in PE, c \in Block : pc'[q][c] = IF q = p THEN "idle" ELSE pc[q][c]
    BY <1>6 DEF FinishKernel, TypeOK
  <2>2. ASSUME NEW q \in PE, NEW c \in Block
        PROVE  /\ pc'[q][c] \in BeforeSync1 <=> pc'[q][0] \in BeforeSync1
               /\ c # 0 => pc'[q][c] \in BeforeSync1 \cup {"idle", "sync2"}
    <3>1. CASE q = p
      BY <2>1, <3>1 DEF BeforeSync1
    <3>2. CASE q # p
      <4>1. pc'[q][c] = pc[q][c] /\ pc'[q][0] = pc[q][0]
        BY <2>1, <3>2
      <4>2. QED
        BY <4>1 DEF GridStage
    <3>3. QED
      BY <3>1, <3>2
  <2>3. QED
    BY <2>2 DEF GridStage
<1>7. ASSUME NEW p \in PE, PoisonHalos(p) \/ Validate(p)
      PROVE  UNCHANGED pc
  BY <1>7 DEF PoisonHalos, Validate
<1>8. CASE Collective \/ Deliver \/ UNCHANGED vars
  BY <1>1, <1>8 DEF Collective, Verdict, Barrier, Deliver, DeliverPut, DeliverSignal, vars
<1>9. QED
  BY <1>1, <1>2, <1>3, <1>4, <1>5, <1>6, <1>7, <1>8 DEF Next, GridStep, HostStep

-----------------------------------------------------------------------------
(* Puts and signals.                                                       *)

(* The steps that move the blocks of a kernel or its launch, seen from pc, *)
(* it and base; every other step leaves the three alone.                   *)
LEMMA PhaseKinds ==
  ASSUME [Next]_vars
  PROVE  \/ \E p \in PE, b \in Block : IssuePuts(p, b) \/ Quiet(p, b)
         \/ \E p \in PE : \/ SignalRight(p) \/ SignalLeft(p) \/ WaitLeft(p) \/ WaitRight(p)
                         \/ GridSync1(p) \/ GridSync2(p) \/ Launch(p) \/ FinishKernel(p)
         \/ \E m \in puts : DeliverPut(m)
         \/ \E p \in PE, s \in Side : DeliverSignal(p, s)
         \/ /\ UNCHANGED <<pc, it, base, sig, pending, puts>>
            /\ \/ \E p \in PE : PoisonHalos(p) \/ Validate(p)
               \/ Verdict
               \/ Barrier
               \/ UNCHANGED vars
<1>1. ASSUME NEW p \in PE, PoisonHalos(p) \/ Validate(p)
      PROVE  UNCHANGED <<pc, it, base, sig, pending, puts>>
  BY <1>1 DEF PoisonHalos, Validate, hostVars, netVars
<1>2. ASSUME Verdict \/ Barrier \/ UNCHANGED vars
      PROVE  UNCHANGED <<pc, it, base, sig, pending, puts>>
  BY <1>2 DEF Verdict, Barrier, vars, netVars
<1>3. QED
  BY <1>1, <1>2 DEF Next, BlockStep, LeaderStep, GridStep, HostStep, Collective, Deliver

LEMMA PutsStep == IInv /\ [Next]_vars => PutsOfQuietBlocks'
<1> SUFFICES ASSUME IInv, [Next]_vars
             PROVE  PutsOfQuietBlocks'
  OBVIOUS
<1> USE GridShape DEF IInv
<1>0. \A m \in puts : m.src \in PE /\ m.blk \in Block /\ m.to \in Side /\ m.stamp \in Nat
  BY DEF TypeOK, Put
<1>1. ASSUME puts' \subseteq puts,
             \A m \in puts' : pc'[m.src][m.blk] = "quiet" /\ Exchange(m.src)' = Exchange(m.src)
      PROVE  PutsOfQuietBlocks'
  BY <1>1 DEF PutsOfQuietBlocks
<1>2. ASSUME NEW p \in PE, NEW b \in Block, IssuePuts(p, b)
      PROVE  PutsOfQuietBlocks'
  <2>0. pc \in [PE -> [Block -> BlockPC]] /\ pc' = [pc EXCEPT ![p][b] = "quiet"]
    BY <1>2 DEF IssuePuts, At, TypeOK
  <2>1. \A q \in PE, c \in Block : pc'[q][c] = IF q = p /\ c = b THEN "quiet" ELSE pc[q][c]
    BY <2>0
  <2>2. pc[p][b] = "put"
    BY <1>2 DEF IssuePuts, At
  <2>3. \A q \in PE : Exchange(q)' = Exchange(q)
    BY <1>2 DEF IssuePuts, hostVars, Exchange
  <2>4. ASSUME NEW m \in puts'
        PROVE  pc'[m.src][m.blk] = "quiet" /\ m.stamp = Exchange(m.src)'
    <3>1. CASE m \in puts
      BY <1>0, <2>1, <2>2, <2>3, <3>1 DEF PutsOfQuietBlocks
    <3>2. CASE m \notin puts
      BY <1>2, <2>1, <2>3, <3>2 DEF IssuePuts
    <3>3. QED
      BY <3>1, <3>2
  <2>5. QED
    BY <2>4 DEF PutsOfQuietBlocks
<1>3. ASSUME NEW p \in PE, NEW b \in Block, Quiet(p, b)
      PROVE  PutsOfQuietBlocks'
  <2>1. \A q \in PE, c \in Block : pc'[q][c] = IF q = p /\ c = b THEN "sync1" ELSE pc[q][c]
    BY <1>3, BlockMoves DEF Quiet, BlockPC
  <2>2. UNCHANGED <<puts, base, it>> /\ \A m \in puts : ~(m.src = p /\ m.blk = b)
    BY <1>3 DEF Quiet, hostVars, netVars
  <2>3. \A m \in puts : pc'[m.src][m.blk] = pc[m.src][m.blk]
    BY <1>0, <2>1, <2>2
  <2>4. \A m \in puts : pc'[m.src][m.blk] = "quiet"
    BY <2>3 DEF PutsOfQuietBlocks
  <2>5. QED
    BY <1>1, <2>2, <2>4 DEF Exchange
<1>4. ASSUME NEW p \in PE, SignalRight(p) \/ SignalLeft(p) \/ WaitLeft(p) \/ WaitRight(p)
      PROVE  PutsOfQuietBlocks'
  <2>1. PICK from \in BlockPC \ {"quiet"}, to \in BlockPC : At(p, 0, from, to)
    BY <1>4 DEF SignalRight, SignalLeft, WaitLeft, WaitRight, BlockPC
  <2>2. UNCHANGED <<puts, base, it>>
    BY <1>4 DEF SignalRight, SignalLeft, WaitLeft, WaitRight, hostVars, netVars
  <2>3. /\ pc[p][0] # "quiet"
        /\ \A q \in PE, c \in Block : pc'[q][c] = IF q = p /\ c = 0 THEN to ELSE pc[q][c]
    BY <2>1, BlockMoves
  <2>4. \A m \in puts : pc'[m.src][m.blk] = "quiet"
    BY <1>0, <2>3 DEF PutsOfQuietBlocks
  <2>5. QED
    BY <1>1, <2>2, <2>4 DEF Exchange
<1>5. ASSUME NEW p \in PE, \A b \in Block : pc[p][b] # "quiet",
             \A q \in PE \ {p} : pc'[q] = pc[q] /\ it'[q] = it[q] /\ base'[q] = base[q],
             UNCHANGED puts
      PROVE  PutsOfQuietBlocks'
  <2>1. \A m \in puts : m.src # p
    <3>1. SUFFICES ASSUME NEW m \in puts, m.src = p
                   PROVE  FALSE
      OBVIOUS
    <3>2. pc[m.src][m.blk] = "quiet" /\ m.blk \in Block
      BY <1>0 DEF PutsOfQuietBlocks
    <3>3. pc[p][m.blk] # "quiet"
      BY <1>5, <3>2
    <3>4. QED
      BY <3>1, <3>2, <3>3
  <2>2. \A m \in puts : pc'[m.src] = pc[m.src] /\ Exchange(m.src)' = Exchange(m.src)
    BY <1>0, <1>5, <2>1 DEF Exchange
  <2>3. QED
    BY <1>1, <1>5, <2>2 DEF PutsOfQuietBlocks
<1>6. ASSUME NEW p \in PE, GridSync1(p) \/ GridSync2(p)
      PROVE  PutsOfQuietBlocks'
  <2>1. \A b \in Block : pc[p][b] # "quiet"
    BY <1>6 DEF GridSync1, GridSync2, GridReady2
  <2>2. \A q \in PE \ {p} : pc'[q] = pc[q] /\ it'[q] = it[q]
    BY <1>6 DEF GridSync1, GridSync2, TypeOK
  <2>3. UNCHANGED <<base, puts>>
    BY <1>6 DEF GridSync1, GridSync2, hostVars, netVars
  <2>4. QED
    BY <1>5, <2>1, <2>2, <2>3
<1>7. ASSUME NEW p \in PE, Launch(p)
      PROVE  PutsOfQuietBlocks'
  <2>1. \A b \in Block : pc[p][b] = "idle"
    BY <1>7 DEF Launch, HostStage
  <2>2. QED
    BY <1>5, <1>7, <2>1 DEF Launch, TypeOK, hostVars, netVars
<1>8. ASSUME NEW p \in PE, FinishKernel(p)
      PROVE  PutsOfQuietBlocks'
  BY <1>5, <1>8 DEF FinishKernel, GridReady2, TypeOK, hostVars, netVars
<1>9. ASSUME NEW m \in puts, DeliverPut(m)
      PROVE  PutsOfQuietBlocks'
  BY <1>1, <1>9 DEF DeliverPut, hostVars, Exchange, PutsOfQuietBlocks
<1>10. ASSUME UNCHANGED <<pc, it, base, puts>>
       PROVE  PutsOfQuietBlocks'
  BY <1>10 DEF Exchange, PutsOfQuietBlocks
<1>11. ASSUME NEW p \in PE, NEW s \in Side, DeliverSignal(p, s)
       PROVE  PutsOfQuietBlocks'
  BY <1>10, <1>11 DEF DeliverSignal, hostVars
<1>12. QED
  BY <1>2, <1>3, <1>4, <1>6, <1>7, <1>8, <1>9, <1>10, <1>11, PhaseKinds

(* What a signal changes: one count more is sent, and one more in flight   *)
(* to the counter it goes to.                                              *)
LEMMA SignalSent ==
  ASSUME IInv, NEW p \in PE, NEW d \in Side,
         \A q \in PE, s \in Side :
            Sent(q, s)' = Sent(q, s) + (IF q = p /\ s = d THEN 1 ELSE 0),
         SignalTo(p, d), UNCHANGED sig
  PROVE  SignalsAddUp'
<1> USE RingNeighbours
<1>1. ASSUME NEW t \in PE, NEW h \in Side
      PROVE  sig'[t][h] + pending'[t][h] = Sent(Neighbour(t, h), Opp(h))'
  <2>1. pending'[t][h] = IF t = Neighbour(p, d) /\ h = Opp(d) THEN pending[t][h] + 1 ELSE pending[t][h]
    BY DEF SignalTo, IInv, TypeOK
  <2>2. (t = Neighbour(p, d) /\ h = Opp(d)) <=> (Neighbour(t, h) = p /\ Opp(h) = d)
    OBVIOUS
  <2>3. sig[t][h] \in Nat /\ pending[t][h] \in Nat
    BY DEF IInv, TypeOK
  <2>4. sig[t][h] + pending[t][h] = Sent(Neighbour(t, h), Opp(h))
    BY DEF IInv, SignalsAddUp
  <2>5. QED
    BY <2>1, <2>2, <2>3, <2>4
<1>2. QED
  BY <1>1 DEF SignalsAddUp

(* A step seen from the abstract ring: nothing is posted or completed, or  *)
(* p posts its boundary towards d, or p completes an exchange both of      *)
(* whose signals have arrived.                                             *)
RingStays ==
  \A q \in PE : Done(q)' = Done(q) /\ \A s \in Side : Sent(q, s)' = Sent(q, s)

RingPosts(p, d) ==
  /\ Sent(p, d) = Done(p)
  /\ \A q \in PE : Done(q)' = Done(q)
  /\ \A q \in PE, s \in Side :
       Sent(q, s)' = Sent(q, s) + (IF q = p /\ s = d THEN 1 ELSE 0)

RingCompletes(p) ==
  /\ \A s \in Side : sig[p][s] > Done(p) /\ Sent(p, s) > Done(p)
  /\ \A q \in PE : Done(q)' = Done(q) + (IF q = p THEN 1 ELSE 0)
  /\ \A q \in PE, s \in Side : Sent(q, s)' = Sent(q, s)

RingMoves ==
  \/ RingStays
  \/ \E p \in PE, d \in Side : RingPosts(p, d)
  \/ \E p \in PE : RingCompletes(p)

(* How far each PE has come, seen from a step that changes no counts.      *)
LEMMA CountsFrame ==
  ASSUME IInv,
         \A q \in PE : /\ \A s \in Side : Sent(q, s)' = Sent(q, s)
                       /\ Done(q)' = Done(q)
                       /\ pc'[q][0] = "waitRight" => pc[q][0] = "waitRight" /\ Exchange(q)' = Exchange(q),
         UNCHANGED <<sig, pending>>
  PROVE  SignalsAddUp' /\ WaitedFor' /\ RingMoves
BY RingNeighbours DEF IInv, SignalsAddUp, WaitedFor, RingMoves, RingStays

LEMMA SignalsStep == IInv /\ [Next]_vars => SignalsAddUp' /\ WaitedFor' /\ RingMoves
<1> SUFFICES ASSUME IInv, [Next]_vars
             PROVE  SignalsAddUp' /\ WaitedFor' /\ RingMoves
  OBVIOUS
<1> USE GridShape, RingNeighbours
<1>0. /\ TypeOK /\ HostStage /\ SignalsAddUp /\ WaitedFor
      /\ \A q \in PE : base[q] \in Nat /\ it[q] \in Nat
      /\ \A q \in PE, s \in Side : sig[q][s] \in Nat /\ pending[q][s] \in Nat
  BY DEF IInv, TypeOK
<1>1. ASSUME NEW p \in PE, NEW b \in Block, IssuePuts(p, b) \/ Quiet(p, b)
      PROVE  SignalsAddUp' /\ WaitedFor' /\ RingMoves
  <2>1. PICK from \in BeforeSync1, to \in BeforeSync1 : At(p, b, from, to)
    BY <1>1 DEF IssuePuts, Quiet, BeforeSync1
  <2>2. /\ pc[p][b] = from
        /\ \A q \in PE : pc'[q][0] = IF q = p /\ b = 0 THEN to ELSE pc[q][0]
    BY <1>0, <2>1, BlockMoves DEF BeforeSync1, BlockPC
  <2>3. UNCHANGED <<base, it, sig, pending>>
    BY <1>1 DEF IssuePuts, Quiet, hostVars, netVars
  <2>4. QED
    BY <2>2, <2>3, CountsFrame DEF Sent, Done, Exchange, BeforeSync1
<1>2. ASSUME NEW p \in PE, SignalRight(p)
      PROVE  SignalsAddUp' /\ WaitedFor' /\ RingMoves
  <2>1. /\ pc[p][0] = "signalRight"
        /\ \A q \in PE : pc'[q][0] = IF q = p THEN "signalLeft" ELSE pc[q][0]
    BY <1>0, <1>2, BlockMoves DEF SignalRight, BlockPC
  <2>2. UNCHANGED <<base, it, sig>> /\ SignalTo(p, "right") /\ "right" \in Side
    BY <1>2 DEF SignalRight, hostVars, Side
  <2>3. \A q \in PE, s \in Side :
          Sent(q, s)' = Sent(q, s) + (IF q = p /\ s = "right" THEN 1 ELSE 0)
    BY <1>0, <2>1, <2>2 DEF Sent
  <2>4. SignalsAddUp'
    BY <2>2, <2>3, SignalSent
  <2>5. WaitedFor'
    BY <1>0, <2>1, <2>2 DEF WaitedFor, Done, Exchange
  <2>6. RingMoves
    <3>1. \A q \in PE : Done(q)' = Done(q)
      BY <2>1, <2>2 DEF Done
    <3>2. Sent(p, "right") = Done(p)
      BY <1>0, <2>1 DEF Sent, Done
    <3>3. QED
      BY <2>2, <2>3, <3>1, <3>2 DEF RingMoves, RingPosts
  <2>7. QED
    BY <2>4, <2>5, <2>6
<1>3. ASSUME NEW p \in PE, SignalLeft(p)
      PROVE  SignalsAddUp' /\ WaitedFor' /\ RingMoves
  <2>1. /\ pc[p][0] = "signalLeft"
        /\ \A q \in PE : pc'[q][0] = IF q = p THEN "waitLeft" ELSE pc[q][0]
    BY <1>0, <1>3, BlockMoves DEF SignalLeft, BlockPC
  <2>2. UNCHANGED <<base, it, sig>> /\ SignalTo(p, "left") /\ "left" \in Side
    BY <1>3 DEF SignalLeft, hostVars, Side
  <2>3. \A q \in PE, s \in Side :
          Sent(q, s)' = Sent(q, s) + (IF q = p /\ s = "left" THEN 1 ELSE 0)
    BY <1>0, <2>1, <2>2 DEF Sent, Side
  <2>4. SignalsAddUp'
    BY <2>2, <2>3, SignalSent
  <2>5. WaitedFor'
    BY <1>0, <2>1, <2>2 DEF WaitedFor, Done, Exchange
  <2>6. RingMoves
    <3>1. \A q \in PE : Done(q)' = Done(q)
      BY <2>1, <2>2 DEF Done
    <3>2. Sent(p, "left") = Done(p)
      BY <1>0, <2>1 DEF Sent, Done
    <3>3. QED
      BY <2>2, <2>3, <3>1, <3>2 DEF RingMoves, RingPosts
  <2>7. QED
    BY <2>4, <2>5, <2>6
<1>4. ASSUME NEW p \in PE, WaitLeft(p)
      PROVE  SignalsAddUp' /\ WaitedFor' /\ RingMoves
  <2>1. /\ pc[p][0] = "waitLeft" /\ sig[p]["left"] >= Exchange(p)
        /\ \A q \in PE : pc'[q][0] = IF q = p THEN "waitRight" ELSE pc[q][0]
    BY <1>0, <1>4, BlockMoves DEF WaitLeft, BlockPC, Exchange, Threshold
  <2>2. UNCHANGED <<base, it, sig, pending>>
    BY <1>4 DEF WaitLeft, hostVars, netVars
  <2>3. RingStays
    BY <2>1, <2>2 DEF RingStays, Sent, Done
  <2>4. SignalsAddUp'
    BY <1>0, <2>2, <2>3 DEF SignalsAddUp, RingStays
  <2>5. WaitedFor'
    BY <1>0, <2>1, <2>2, <2>3 DEF WaitedFor, RingStays, Exchange
  <2>6. QED
    BY <2>3, <2>4, <2>5 DEF RingMoves
<1>5. ASSUME NEW p \in PE, WaitRight(p)
      PROVE  SignalsAddUp' /\ WaitedFor' /\ RingMoves
  <2>1. /\ pc[p][0] = "waitRight" /\ sig[p]["right"] >= Exchange(p)
        /\ \A q \in PE : pc'[q][0] = IF q = p THEN "sync2" ELSE pc[q][0]
    BY <1>0, <1>5, BlockMoves DEF WaitRight, BlockPC, Exchange, Threshold
  <2>2. UNCHANGED <<base, it, sig, pending>>
    BY <1>5 DEF WaitRight, hostVars, netVars
  <2>3. sig[p]["left"] >= Exchange(p) /\ it[p] > 0
    BY <1>0, <2>1, KernelRuns DEF WaitedFor
  <2>4. SignalsAddUp'
    BY <1>0, <2>1, <2>2 DEF SignalsAddUp, Sent
  <2>5. WaitedFor'
    BY <1>0, <2>1, <2>2, <2>3 DEF WaitedFor, Done, Exchange, Side
  <2>6. RingMoves
    <3>1. \A q \in PE, s \in Side : Sent(q, s)' = Sent(q, s)
      BY <2>1, <2>2 DEF Sent
    <3>2. \A q \in PE : Done(q)' = Done(q) + (IF q = p THEN 1 ELSE 0)
      BY <1>0, <2>1, <2>2 DEF Done
    <3>3. Sent(p, "left") = Exchange(p) /\ Sent(p, "right") = Exchange(p)
      BY <1>0, <2>1, <2>3 DEF Sent, Exchange
    <3>4. Done(p) = Exchange(p) - 1
      BY <1>0, <2>1, <2>3 DEF Done, Exchange
    <3>5. \A s \in Side : sig[p][s] >= Exchange(p) /\ Sent(p, s) = Exchange(p)
      BY <2>1, <2>3, <3>3 DEF Side
    <3>6. QED
      BY <1>0, <3>1, <3>2, <3>4, <3>5 DEF RingMoves, RingCompletes, Exchange
  <2>7. QED
    BY <2>4, <2>5, <2>6
<1>6. ASSUME NEW p \in PE, GridSync1(p)
      PROVE  SignalsAddUp' /\ WaitedFor' /\ RingMoves
  <2>1. /\ pc[p][0] = "sync1"
        /\ \A q \in PE : pc'[q][0] = IF q = p THEN "signalRight" ELSE pc[q][0]
    BY <1>0, <1>6 DEF GridSync1, TypeOK
  <2>2. UNCHANGED <<base, it, sig, pending>>
    BY <1>6 DEF GridSync1, hostVars, netVars
  <2>3. QED
    BY <2>1, <2>2, CountsFrame DEF Sent, Done, Exchange
<1>7. ASSUME NEW p \in PE, GridSync2(p)
      PROVE  SignalsAddUp' /\ WaitedFor' /\ RingMoves
  <2>1. /\ pc[p][0] = "sync2" /\ it[p] > 0
        /\ \A q \in PE : /\ pc'[q][0] = IF q = p THEN "put" ELSE pc[q][0]
                        /\ it'[q] = IF q = p THEN it[p] + 1 ELSE it[q]
    BY <1>0, <1>7, KernelRuns DEF GridSync2, GridReady2, TypeOK
  <2>2. UNCHANGED <<base, sig, pending>>
    BY <1>7 DEF GridSync2, hostVars, netVars
  <2>3. \A q \in PE : Done(q)' = Done(q) /\ \A s \in Side : Sent(q, s)' = Sent(q, s)
    BY <1>0, <2>1, <2>2 DEF Sent, Done
  <2>4. QED
    BY <2>1, <2>2, <2>3, CountsFrame DEF Exchange
<1>8. ASSUME NEW p \in PE, Launch(p)
      PROVE  SignalsAddUp' /\ WaitedFor' /\ RingMoves
  <2>1. /\ pc[p][0] = "idle" /\ it[p] = 0
        /\ \A q \in PE : /\ pc'[q][0] = IF q = p THEN "put" ELSE pc[q][0]
                        /\ it'[q] = IF q = p THEN 1 ELSE it[q]
    BY <1>0, <1>8 DEF Launch, HostStage, TypeOK
  <2>2. UNCHANGED <<base, sig, pending>>
    BY <1>8 DEF Launch, hostVars, netVars
  <2>3. \A q \in PE : Done(q)' = Done(q) /\ \A s \in Side : Sent(q, s)' = Sent(q, s)
    BY <1>0, <2>1, <2>2 DEF Sent, Done
  <2>4. QED
    BY <2>1, <2>2, <2>3, CountsFrame DEF Exchange
<1>9. ASSUME NEW p \in PE, FinishKernel(p)
      PROVE  SignalsAddUp' /\ WaitedFor' /\ RingMoves
  <2>1. /\ pc[p][0] = "sync2" /\ it[p] = Count(bench[p], batch[p])
        /\ \A q \in PE : /\ pc'[q][0] = IF q = p THEN "idle" ELSE pc[q][0]
                        /\ it'[q] = IF q = p THEN 0 ELSE it[q]
    BY <1>0, <1>9 DEF FinishKernel, GridReady2, TypeOK
  <2>2. \A q \in PE : base'[q] = IF q = p THEN base[p] + it[p] ELSE base[q]
    BY <1>0, <1>9, <2>1 DEF FinishKernel, TypeOK
  <2>3. it[p] > 0
    BY <1>0, <2>1, KernelRuns
  <2>4. UNCHANGED <<sig, pending>>
    BY <1>9 DEF FinishKernel, netVars
  <2>5. ASSUME NEW q \in PE
        PROVE  /\ Done(q)' = Done(q)
               /\ \A s \in Side : Sent(q, s)' = Sent(q, s)
               /\ pc'[q][0] = "waitRight" => pc[q][0] = "waitRight" /\ Exchange(q)' = Exchange(q)
    <3>1. CASE q = p
      BY <1>0, <2>1, <2>2, <2>3, <3>1 DEF Sent, Done
    <3>2. CASE q # p
      BY <2>1, <2>2, <3>2 DEF Sent, Done, Exchange
    <3>3. QED
      BY <3>1, <3>2
  <2>6. QED
    BY <2>4, <2>5, CountsFrame
<1>10. ASSUME NEW p \in PE, NEW s \in Side, DeliverSignal(p, s)
       PROVE  SignalsAddUp' /\ WaitedFor' /\ RingMoves
  <2>1. /\ UNCHANGED <<pc, it, base>>
        /\ pending[p][s] > 0
        /\ \A q \in PE, t \in Side :
             /\ sig'[q][t] = IF q = p /\ t = s THEN sig[p][s] + 1 ELSE sig[q][t]
             /\ pending'[q][t] = IF q = p /\ t = s THEN pending[p][s] - 1 ELSE pending[q][t]
    BY <1>0, <1>10 DEF DeliverSignal, hostVars, TypeOK
  <2>2. /\ \A q \in PE : Done(q)' = Done(q) /\ Exchange(q)' = Exchange(q) /\ Done(q) \in Nat
        /\ \A q \in PE, t \in Side : Sent(q, t)' = Sent(q, t)
        /\ \A q \in PE : Exchange(q) \in Nat
    BY <1>0, <2>1 DEF Sent, Done, Exchange
  <2>3. ASSUME NEW q \in PE, NEW t \in Side
        PROVE  sig'[q][t] + pending'[q][t] = Sent(Neighbour(q, t), Opp(t))'
    <3>1. sig[q][t] + pending[q][t] = Sent(Neighbour(q, t), Opp(t))
      BY <1>0 DEF SignalsAddUp
    <3>2. sig'[q][t] + pending'[q][t] = sig[q][t] + pending[q][t]
      BY <1>0, <2>1
    <3>3. QED
      BY <2>2, <3>1, <3>2
  <2>4. WaitedFor'
    BY <1>0, <2>1, <2>2 DEF WaitedFor, Side
  <2>5. QED
    BY <2>2, <2>3, <2>4 DEF SignalsAddUp, RingMoves, RingStays
<1>11. ASSUME UNCHANGED <<pc, it, base, sig, pending>>
       PROVE  SignalsAddUp' /\ WaitedFor' /\ RingMoves
  BY <1>11, CountsFrame DEF Sent, Done, Exchange
<1>12. ASSUME NEW m \in puts, DeliverPut(m)
       PROVE  SignalsAddUp' /\ WaitedFor' /\ RingMoves
  BY <1>11, <1>12 DEF DeliverPut, hostVars
<1>13. QED
  BY <1>1, <1>2, <1>3, <1>4, <1>5, <1>6, <1>7, <1>8, <1>9, <1>10, <1>11, <1>12, PhaseKinds

-----------------------------------------------------------------------------
(* The data.                                                               *)

LEMMA LandedStep == IInv /\ [Next]_vars => PutsLanded'
<1> SUFFICES ASSUME IInv, [Next]_vars, NEW q \in PE, NEW s \in Side, NEW b \in Active
             PROVE  LandedAt(q, s, b)'
  BY DEF PutsLanded
<1> DEFINE t == Neighbour(q, s)
<1> USE GridShape
<1>0. /\ TypeOK /\ HostStage /\ GridStage /\ PutsOfQuietBlocks /\ LandedAt(q, s, b)
      /\ t \in PE /\ Opp(s) \in Side /\ b \in Block
      /\ base[q] \in Nat /\ it[q] \in Nat
      /\ (pc[q][b] = "idle") <=> (host[q] # "kernel")
  BY RingNeighbours DEF IInv, PutsLanded, TypeOK, HostStage
<1>1. ASSUME NEW p \in PE, NEW c \in Block, IssuePuts(p, c)
      PROVE  LandedAt(q, s, b)'
  <2>1. /\ pc[p][c] = "put"
        /\ pc'[q][b] = IF q = p /\ b = c THEN "quiet" ELSE pc[q][b]
    <3>1. "quiet" \in BlockPC /\ At(p, c, "put", "quiet")
      BY <1>1 DEF IssuePuts, BlockPC
    <3>2. QED
      BY <1>0, <3>1, BlockMoves
  <2>2. UNCHANGED <<host, base, it, recv>> /\ puts \subseteq puts'
    BY <1>1 DEF IssuePuts, hostVars
  <2>3. CASE q = p /\ b = c
    <3>1. [src |-> q, to |-> s, blk |-> b, stamp |-> Exchange(q)] \in puts'
      BY <1>1, <2>3 DEF IssuePuts
    <3>2. QED
      BY <1>0, <2>1, <2>2, <2>3, <3>1 DEF LandedAt, Exchange
  <2>4. CASE ~(q = p /\ b = c)
    BY <1>0, <2>1, <2>2, <2>4 DEF LandedAt, Exchange
  <2>5. QED
    BY <2>3, <2>4
<1>2. ASSUME NEW p \in PE, NEW c \in Block, Quiet(p, c)
      PROVE  LandedAt(q, s, b)'
  <2>1. /\ pc[p][c] = "quiet"
        /\ pc'[q][b] = IF q = p /\ b = c THEN "sync1" ELSE pc[q][b]
    BY <1>0, <1>2, BlockMoves DEF Quiet, BlockPC
  <2>2. UNCHANGED <<host, base, it, recv, puts>>
    BY <1>2 DEF Quiet, hostVars, netVars
  <2>3. q = p /\ b = c => [src |-> q, to |-> s, blk |-> b, stamp |-> Exchange(q)] \notin puts
    BY <1>2 DEF Quiet
  <2>4. QED
    BY <1>0, <2>1, <2>2, <2>3 DEF LandedAt, Exchange
<1>3. ASSUME NEW p \in PE, SignalRight(p) \/ SignalLeft(p) \/ WaitLeft(p) \/ WaitRight(p)
      PROVE  LandedAt(q, s, b)'
  <2>1. PICK from \in BlockPC \ {"idle", "put", "quiet"}, to \in BlockPC \ {"idle", "put", "quiet"} :
          At(p, 0, from, to)
    BY <1>3 DEF SignalRight, SignalLeft, WaitLeft, WaitRight, BlockPC
  <2>2. /\ pc[p][0] = from
        /\ pc'[q][b] = IF q = p /\ b = 0 THEN to ELSE pc[q][b]
    BY <1>0, <2>1, BlockMoves
  <2>3. UNCHANGED <<host, base, it, recv, puts>>
    BY <1>3 DEF SignalRight, SignalLeft, WaitLeft, WaitRight, hostVars, netVars
  <2>4. QED
    BY <1>0, <2>2, <2>3 DEF LandedAt, Exchange
<1>4. ASSUME NEW p \in PE, GridSync1(p)
      PROVE  LandedAt(q, s, b)'
  <2>1. /\ q = p => pc[q][b] = "sync1" /\ pc'[q][b] \in {"signalRight", "sync2"}
        /\ q # p => pc'[q][b] = pc[q][b]
    BY <1>0, <1>4 DEF GridSync1, TypeOK
  <2>2. UNCHANGED <<host, base, it, recv, puts>>
    BY <1>4 DEF GridSync1, hostVars, netVars
  <2>3. QED
    BY <1>0, <2>1, <2>2 DEF LandedAt, Exchange
<1>5. ASSUME NEW p \in PE, GridSync2(p)
      PROVE  LandedAt(q, s, b)'
  <2>1. /\ q = p => pc[q][b] = "sync2" /\ pc'[q][b] = "put" /\ it'[q] = it[q] + 1
        /\ q # p => pc'[q][b] = pc[q][b] /\ it'[q] = it[q]
    BY <1>0, <1>5 DEF GridSync2, GridReady2, TypeOK
  <2>2. UNCHANGED <<host, base, recv, puts>>
    BY <1>5 DEF GridSync2, hostVars, netVars
  <2>3. QED
    BY <1>0, <2>1, <2>2 DEF LandedAt, Exchange
<1>6. ASSUME NEW p \in PE, Launch(p)
      PROVE  LandedAt(q, s, b)'
  <2>1. /\ q = p => host'[q] = "kernel" /\ pc'[q][b] = "put" /\ it'[q] = 1
        /\ q # p => host'[q] = host[q] /\ pc'[q][b] = pc[q][b] /\ it'[q] = it[q]
        /\ host'[t] = "aligned" => host[t] = "aligned"
        /\ host[t] = "aligned" => host'[t] = "aligned"
    BY <1>0, <1>6 DEF Launch, TypeOK
  <2>2. UNCHANGED <<base, recv, puts>>
    BY <1>6 DEF Launch, hostVars, netVars
  <2>3. QED
    BY <1>0, <2>1, <2>2 DEF LandedAt, Exchange
<1>7. ASSUME NEW p \in PE, FinishKernel(p)
      PROVE  LandedAt(q, s, b)'
  <2>1. /\ pc[p][0] = "sync2" /\ pc[p][b] = "sync2" /\ it[p] = Count(bench[p], batch[p])
    BY <1>0, <1>7 DEF FinishKernel, GridReady2
  <2>2. host[p] = "kernel"
    BY <1>0, <2>1, KernelRuns
  <2>3. /\ q = p => host'[q] \in {"before", "after"} /\ pc'[q][b] = "idle" /\ base'[q] = base[q] + it[q]
        /\ q # p => /\ host'[q] = host[q] /\ pc'[q][b] = pc[q][b]
                    /\ it'[q] = it[q] /\ base'[q] = base[q]
    BY <1>0, <1>7, <2>1 DEF FinishKernel, TypeOK
  <2>4. host[t] = "aligned" => host'[t] = "aligned"
    BY <1>0, <1>7, <2>2 DEF FinishKernel, TypeOK
  <2>5. UNCHANGED <<recv, puts>>
    BY <1>7 DEF FinishKernel, netVars
  <2>6. QED
    BY <1>0, <2>1, <2>2, <2>3, <2>4, <2>5 DEF LandedAt, Exchange
<1>8. ASSUME NEW p \in PE, PoisonHalos(p)
      PROVE  LandedAt(q, s, b)'
  <2>1. /\ host[p] = "before" /\ \A r \in PE : host'[r] = IF r = p THEN "aligned" ELSE host[r]
        /\ t # p => recv'[t] = recv[t]
        /\ UNCHANGED <<pc, it, base, puts>>
    BY <1>0, <1>8 DEF PoisonHalos, TypeOK, hostVars
  <2>2. QED
    BY <1>0, <2>1 DEF LandedAt, Exchange
<1>9. ASSUME NEW p \in PE, Validate(p)
      PROVE  LandedAt(q, s, b)'
  <2>1. /\ host[p] = "after"
        /\ \A r \in PE : host'[r] = host[r] \/ (r = p /\ host'[r] \in {"before", "verdict"})
    <3>1. PICK h \in {"before", "verdict"} : host' = [host EXCEPT ![p] = h]
      BY <1>9 DEF Validate
    <3>2. QED
      BY <1>0, <1>9, <3>1 DEF Validate, TypeOK
  <2>2. UNCHANGED <<pc, it, base, puts, recv>>
    BY <1>9 DEF Validate, netVars
  <2>3. QED
    BY <1>0, <2>1, <2>2 DEF LandedAt, Exchange
<1>10. CASE Verdict
  BY <1>0, <1>10 DEF Verdict, LandedAt, Exchange, netVars
<1>11. CASE Barrier
  <2>1. UNCHANGED <<pc, it, base, puts, recv>>
    BY <1>11 DEF Barrier, netVars
  <2>2. CASE host[q] = "aligned"
    <3>1. host'[q] = "body" /\ pc'[q][b] = "idle"
      BY <1>0, <1>11, <2>1, <2>2 DEF Barrier
    <3>2. QED
      BY <3>1 DEF LandedAt
  <2>3. CASE host[q] = "closing"
    <3>1. host[t] = "closing" /\ host'[q] \in {"before", "exit"} /\ host'[t] \in {"before", "exit"}
      BY <1>0, <1>11, <2>3 DEF Barrier, IInv, SameLaunch
    <3>2. QED
      BY <1>0, <2>1, <2>3, <3>1 DEF LandedAt
  <2>4. QED
    BY <1>11, <2>2, <2>3 DEF Barrier
<1>12. ASSUME NEW m \in puts, DeliverPut(m)
       PROVE  LandedAt(q, s, b)'
  <2>0. m.src \in PE /\ m.to \in Side /\ m.blk \in Block /\ m.stamp \in Nat
    BY <1>0 DEF TypeOK, Put
  <2>1. UNCHANGED <<host, pc, it, base>>
    BY <1>12 DEF DeliverPut, hostVars
  <2>2. CASE m.src = q /\ m.to = s /\ m.blk = b
    <3>1. recv'[t][Opp(s)][b] = m.stamp
      BY <1>0, <1>12, <2>2 DEF DeliverPut, TypeOK
    <3>2. pc[q][b] = "quiet" /\ m.stamp = Exchange(q)
      BY <1>0, <2>2 DEF PutsOfQuietBlocks
    <3>3. QED
      BY <1>0, <2>1, <3>1, <3>2 DEF LandedAt, Exchange
  <2>3. CASE ~(m.src = q /\ m.to = s /\ m.blk = b)
    <3>1. ~(Neighbour(m.src, m.to) = t /\ Opp(m.to) = Opp(s) /\ m.blk = b)
      BY <2>0, <2>3, RingNeighbours
    <3>2. recv'[t][Opp(s)][b] = recv[t][Opp(s)][b]
      BY <1>0, <1>12, <2>0, <3>1, RingNeighbours DEF DeliverPut, TypeOK
    <3>3. \A e : [src |-> q, to |-> s, blk |-> b, stamp |-> e] # m
      BY <2>3
    <3>4. QED
      BY <1>0, <1>12, <2>1, <3>2, <3>3 DEF LandedAt, Exchange, DeliverPut
  <2>4. QED
    BY <2>2, <2>3
<1>13. ASSUME UNCHANGED <<host, pc, it, base, puts, recv>>
       PROVE  LandedAt(q, s, b)'
  BY <1>0, <1>13 DEF LandedAt, Exchange
<1>14. ASSUME NEW p \in PE, NEW d \in Side, DeliverSignal(p, d)
       PROVE  LandedAt(q, s, b)'
  BY <1>13, <1>14 DEF DeliverSignal, hostVars
<1>15. CASE UNCHANGED vars
  BY <1>13, <1>15 DEF vars
<1>16. QED
  BY <1>1, <1>2, <1>3, <1>4, <1>5, <1>6, <1>7, <1>8, <1>9, <1>10, <1>11, <1>12, <1>14, <1>15,
     PhaseKinds

LEMMA InvStep == IInv /\ [Next]_vars => IInv'
BY TypeStep, SameLaunchStep, HostStageStep, GridStageStep, PutsStep, SignalsStep, LandedStep
DEF IInv

(* The strengthened invariant holds in every reachable state.              *)
THEOREM Inductive == Spec => []IInv
BY InvInit, InvStep, PTL DEF Spec

-----------------------------------------------------------------------------
(* What the invariant says of two neighbours.                              *)

(* A PE has completed no exchange that its neighbour has not signalled, and *)
(* has signalled at most one it has not completed.                         *)
LEMMA Counts ==
  ASSUME IInv, NEW q \in PE, NEW s \in Side
  PROVE  LET t == Neighbour(q, s)
         IN  /\ t \in PE /\ Opp(s) \in Side
             /\ Done(t) <= sig[t][Opp(s)]
             /\ sig[t][Opp(s)] + pending[t][Opp(s)] = Sent(q, s)
             /\ Sent(q, s) \in {Done(q), Done(q) + 1}
             /\ {sig[t][Opp(s)], pending[t][Opp(s)], Done(q), Done(t)} \subseteq Nat
<1>1. /\ Neighbour(q, s) \in PE /\ Opp(s) \in Side
      /\ Opp(Opp(s)) = s /\ Neighbour(Neighbour(q, s), Opp(s)) = q
  BY RingNeighbours
<1>2. \A p \in PE : base[p] \in Nat /\ it[p] \in Nat /\ (pc[p][0] # "idle" => it[p] > 0)
  BY GridShape, KernelRuns DEF IInv, TypeOK
<1>3. \A p \in PE : Done(p) \in Nat
  BY <1>2 DEF Done
<1>4. Sent(q, s) \in {Done(q), Done(q) + 1}
  BY <1>2 DEF Sent, Done
<1>5. QED
  BY <1>1, <1>3, <1>4 DEF IInv, TypeOK, SignalsAddUp, WaitedFor

(* The stage a PE is in bounds the signals it has sent by the total at     *)
(* which its launch ends, and tells whether it has put its chunks.         *)
LEMMA Totals ==
  ASSUME IInv, NEW q \in PE, NEW s \in Side
  PROVE  /\ EndTotal(q) \in Nat
         /\ \A p \in PE : EndTotal(p) = EndTotal(q)
         /\ ~InLaunch(q) => Sent(q, s) = EndTotal(q) /\ base[q] = EndTotal(q) /\ Done(q) = EndTotal(q)
         /\ InLaunch(q) => Sent(q, s) <= EndTotal(q) /\ base[q] < EndTotal(q)
         /\ host[q] = "body" => Sent(q, s) = base[q]
         /\ pc[q][0] \in BeforeSync1 => Sent(q, s) = Exchange(q) - 1
<1>1. base[q] \in Nat /\ it[q] \in Nat /\ Count(bench[q], batch[q]) \in Nat \ {0}
  BY BatchShape DEF IInv, TypeOK
<1>2. /\ host[q] = "kernel" => it[q] \in 1 .. Count(bench[q], batch[q])
      /\ host[q] # "kernel" => it[q] = 0 /\ pc[q][0] = "idle"
      /\ pc[q][0] # "idle" => host[q] = "kernel"
  BY GridShape DEF IInv, HostStage
<1>3. \A p \in PE : EndTotal(p) = EndTotal(q)
  BY DEF IInv, SameLaunch
<1>4. QED
  BY <1>1, <1>2, <1>3 DEF EndTotal, InLaunch, Sent, Done, Exchange, BeforeSync1

(* Two PEs that are in a launch started it from the same total.            *)
LEMMA SameBase ==
  ASSUME IInv, NEW p \in PE, NEW q \in PE, InLaunch(p), InLaunch(q)
  PROVE  base[p] = base[q]
<1>1. /\ bench[p] = bench[q] /\ LaunchesBegun(p) = LaunchesBegun(q)
      /\ EndTotal(p) = EndTotal(q)
  BY DEF IInv, SameLaunch
<1>2. {batch[p], batch[q], base[p], base[q]} \subseteq Nat
  BY DEF IInv, TypeOK
<1>3. batch[p] = batch[q]
  BY <1>1, <1>2 DEF LaunchesBegun, InLaunch
<1>4. Count(bench[p], batch[p]) \in Nat
  BY BatchShape DEF IInv, TypeOK
<1>5. QED
  BY <1>1, <1>2, <1>3, <1>4 DEF EndTotal

(* The exchange a kernel is in does not lie beyond the end of its launch.  *)
LEMMA ExchangeBound ==
  ASSUME IInv, NEW q \in PE, host[q] = "kernel"
  PROVE  Exchange(q) \in Nat /\ Exchange(q) <= EndTotal(q)
<1>1. /\ it[q] \in 1 .. Count(bench[q], batch[q]) /\ base[q] \in Nat
      /\ Count(bench[q], batch[q]) \in Nat
  BY BatchShape DEF IInv, HostStage, TypeOK
<1>2. EndTotal(q) = base[q] + Count(bench[q], batch[q])
  BY DEF EndTotal, InLaunch
<1>3. QED
  BY <1>1, <1>2 DEF Exchange

-----------------------------------------------------------------------------
(* The safety properties.                                                  *)

(* What p's halo at side h holds when the wait for exchange x = base + it  *)
(* has been passed, or when the kernel has ended with x = base.            *)
LEMMA HaloHolds ==
  ASSUME IInv, NEW p \in PE, NEW h \in Side, NEW b \in Active,
         pc[p][0] = "sync2" \/ host[p] = "after"
  PROVE  /\ recv[p][h][b] \in {Exchange(p), Exchange(p) + 1}
         /\ host[p] = "after" => recv[p][h][b] = base[p]
<1> DEFINE q == Neighbour(p, h)
           s == Opp(h)
<1>1. /\ q \in PE /\ s \in Side /\ Opp(s) = h /\ Neighbour(q, s) = p
      /\ b \in Block /\ 0 \in Block
  BY RingNeighbours, GridShape
<1>2. /\ base[p] \in Nat /\ base[q] \in Nat /\ it[p] \in Nat /\ it[q] \in Nat
      /\ host[p] # "aligned" /\ host[p] # "body"
      /\ pc[p][0] = "sync2" => host[p] = "kernel" /\ it[p] > 0
      /\ host[p] = "after" => it[p] = 0
      /\ Done(p) = Exchange(p)
  BY <1>1, KernelRuns DEF IInv, TypeOK, HostStage, Done, Exchange
<1>3. /\ Done(p) <= Sent(q, s) /\ Done(q) <= Sent(p, h)
      /\ Sent(q, s) \in {Done(q), Done(q) + 1} /\ Sent(p, h) \in {Done(p), Done(p) + 1}
      /\ Done(p) \in Nat /\ Done(q) \in Nat
  <2>1. /\ Done(p) <= sig[p][h] /\ sig[p][h] + pending[p][h] = Sent(q, s)
        /\ {sig[p][h], pending[p][h], Done(q), Done(p)} \subseteq Nat
        /\ Sent(q, s) \in {Done(q), Done(q) + 1}
    BY <1>1, Counts
  <2>2. /\ Done(q) <= sig[q][s] /\ sig[q][s] + pending[q][s] = Sent(p, h)
        /\ {sig[q][s], pending[q][s], Done(q), Done(p)} \subseteq Nat
        /\ Sent(p, h) \in {Done(p), Done(p) + 1}
    BY Counts
  <2>3. QED
    BY <2>1, <2>2
<1>4. Sent(p, h) = Done(p)
  BY <1>2, GridShape DEF IInv, HostStage, Sent, Done
<1>5. LandedAt(q, s, b)
  BY <1>1 DEF IInv, PutsLanded
<1>6. EndTotal(p) = EndTotal(q) /\ EndTotal(q) \in Nat
  BY <1>1, Totals
<1>7. CASE ~InLaunch(q)
  <2>1. Sent(q, s) = EndTotal(q) /\ base[q] = EndTotal(q) /\ Done(q) = EndTotal(q)
    BY <1>1, <1>7, Totals
  <2>2. recv[p][h][b] = base[q]
    BY <1>1, <1>2, <1>5, <1>7 DEF LandedAt, InLaunch
  <2>3. Done(q) = Done(p)
    BY <1>3, <1>4, <2>1
  <2>4. QED
    BY <1>2, <2>1, <2>2, <2>3 DEF Exchange
<1>8. CASE host[q] = "body"
  <2>1. Sent(q, s) = base[q] /\ base[q] < EndTotal(q) /\ InLaunch(q)
    BY <1>1, <1>8, Totals DEF InLaunch
  <2>2. CASE host[p] = "kernel"
    <3>1. base[p] = base[q]
      BY <1>1, <2>1, <2>2, SameBase DEF InLaunch
    <3>2. QED
      BY <1>2, <1>3, <2>1, <2>2, <3>1 DEF Exchange, IInv, HostStage
  <2>3. CASE host[p] # "kernel"
    <3>1. Done(p) = EndTotal(p)
      BY <1>2, <2>3, Totals DEF InLaunch
    <3>2. QED
      BY <1>2, <1>3, <1>6, <2>1, <3>1
  <2>4. QED
    BY <2>2, <2>3
<1>9. CASE host[q] = "kernel"
  <2>1. InLaunch(q) /\ it[q] > 0 /\ Exchange(q) \in Nat /\ Exchange(p) \in Nat
    BY <1>1, <1>2, <1>9 DEF InLaunch, Exchange, IInv, HostStage
  <2>2. /\ Sent(q, s) \in {Exchange(q) - 1, Exchange(q)}
        /\ pc[q][0] \in BeforeSync1 => Sent(q, s) = Exchange(q) - 1
        /\ Done(q) \in {Exchange(q) - 1, Exchange(q)}
    BY <1>2, <2>1 DEF Sent, Done, Exchange, BeforeSync1
  <2>3. pc[q][b] \notin {"put", "quiet"} => recv[p][h][b] = Exchange(q)
    BY <1>1, <1>2, <1>5, <1>9 DEF LandedAt
  <2>4. pc[q][b] \in {"put", "quiet"} => Sent(q, s) = Exchange(q) - 1
    BY <1>1, <2>2 DEF IInv, GridStage, BeforeSync1
  <2>5. pc[q][b] \in {"put", "quiet"} /\ it[q] > 1
          => recv[p][h][b] \in {Exchange(q) - 1, Exchange(q)}
    BY <1>1, <1>2, <1>5 DEF LandedAt
  <2>6. Exchange(q) \in {Exchange(p), Exchange(p) + 1}
    BY <1>2, <1>3, <1>4, <2>1, <2>2
  <2>7. CASE host[p] = "kernel"
    <3>1. base[p] = base[q]
      BY <1>1, <2>1, <2>7, SameBase DEF InLaunch
    <3>2. pc[q][b] \in {"put", "quiet"} => Exchange(q) = Exchange(p) + 1 /\ it[q] > 1
      BY <1>2, <1>3, <2>1, <2>4, <2>6, <2>7, <3>1 DEF Exchange, IInv, HostStage
    <3>3. QED
      BY <2>1, <2>3, <2>5, <2>6, <2>7, <3>2
  <2>8. CASE host[p] = "after"
    <3>1. Done(p) = EndTotal(q) /\ base[p] = EndTotal(q)
      BY <1>6, <2>8, Totals DEF InLaunch
    <3>2. Sent(q, s) <= EndTotal(q)
      BY <1>1, <2>1, Totals
    <3>3. Exchange(q) <= EndTotal(q)
      BY <1>1, <1>9, ExchangeBound
    <3>4. Sent(q, s) = Exchange(q) /\ Exchange(q) = EndTotal(q)
      BY <1>3, <1>6, <2>1, <2>2, <3>1, <3>2, <3>3
    <3>5. QED
      BY <1>2, <2>1, <2>3, <2>4, <3>1, <3>4
  <2>9. QED
    BY <1>2, <2>7, <2>8
<1>10. QED
  BY <1>7, <1>8, <1>9 DEF InLaunch

(* The signal a wait is met by never overtakes the data it announces.      *)
THEOREM WaitGatesDataHolds == Spec => []WaitGatesData
<1>1. IInv => WaitGatesData
  BY HaloHolds DEF WaitGatesData
<1>2. QED
  BY <1>1, Inductive, PTL

(* What a PE validates is the last exchange of its batch.                  *)
THEOREM ValidatesLastExchangeHolds == Spec => []ValidatesLastExchange
<1>1. IInv => ValidatesLastExchange
  BY HaloHolds DEF ValidatesLastExchange
<1>2. QED
  BY <1>1, Inductive, PTL

(* No put is in flight to a PE that is outside its launch, so neither the  *)
(* validation nor the poisoning of its halos races with the network.       *)
THEOREM HostOwnsHaloHolds == Spec => []HostOwnsHalo
<1>1. ASSUME IInv, NEW m \in puts
      PROVE  InLaunch(Neighbour(m.src, m.to))
  <2> DEFINE t == Neighbour(m.src, m.to)
  <2>1. m.src \in PE /\ m.to \in Side /\ m.blk \in Block /\ 0 \in Block
    BY <1>1, GridShape DEF IInv, TypeOK, Put
  <2>2. pc[m.src][m.blk] = "quiet"
    BY <1>1 DEF IInv, PutsOfQuietBlocks
  <2>3. host[m.src] = "kernel" /\ it[m.src] \in 1 .. Count(bench[m.src], batch[m.src])
    BY <1>1, <2>1, <2>2, KernelRuns DEF IInv
  <2>4. pc[m.src][0] \in BeforeSync1
    BY <1>1, <2>1, <2>2 DEF IInv, GridStage, BeforeSync1
  <2>5. Sent(m.src, m.to) = Exchange(m.src) - 1
    BY <1>1, <2>1, <2>4, Totals
  <2>6. Exchange(m.src) <= EndTotal(m.src)
    BY <1>1, <2>1, <2>3, ExchangeBound
  <2>7. /\ t \in PE /\ Done(t) <= Sent(m.src, m.to)
        /\ EndTotal(t) = EndTotal(m.src) /\ EndTotal(t) \in Nat
    BY <1>1, <2>1, Counts, Totals
  <2>8. ~InLaunch(t) => Done(t) = EndTotal(t)
    BY <1>1, <2>7, Totals, <2>1
  <2>9. Exchange(m.src) \in Int
    BY <1>1, <2>1 DEF IInv, TypeOK, Exchange
  <2>10. QED
    BY <2>5, <2>6, <2>7, <2>8, <2>9 DEF Done
<1>2. IInv => HostOwnsHalo
  BY <1>1 DEF HostOwnsHalo, InLaunch
<1>3. QED
  BY <1>2, Inductive, PTL

(* Outside its launch a PE's counters hold exactly its signal total.       *)
THEOREM BaseIsSignalTotalHolds == Spec => []BaseIsSignalTotal
<1>1. ASSUME IInv, NEW p \in PE, host[p] \notin {"body", "kernel"}, NEW h \in Side
      PROVE  sig[p][h] = base[p] /\ pending[p][h] = 0
  <2>1. /\ Neighbour(p, h) \in PE /\ Opp(h) \in Side
        /\ Opp(Opp(h)) = h /\ Neighbour(Neighbour(p, h), Opp(h)) = p
    BY RingNeighbours
  <2>2. /\ Done(p) <= sig[p][h]
        /\ sig[p][h] + pending[p][h] = Sent(Neighbour(p, h), Opp(h))
        /\ {sig[p][h], pending[p][h]} \subseteq Nat
    BY <1>1, <2>1, Counts
  <2>3. /\ Sent(Neighbour(p, h), Opp(h)) <= EndTotal(p)
        /\ base[p] = EndTotal(p) /\ Done(p) = EndTotal(p) /\ EndTotal(p) \in Nat
    BY <1>1, <2>1, Totals DEF InLaunch
  <2>4. QED
    BY <2>2, <2>3
<1>2. ASSUME IInv, NEW p \in PE, NEW q \in PE,
             host[p] \notin {"body", "kernel"}, host[q] \notin {"body", "kernel"}
      PROVE  base[q] = base[p]
  BY <1>2 DEF IInv, SameLaunch, EndTotal, InLaunch
<1>3. IInv => BaseIsSignalTotal
  BY <1>1, <1>2 DEF BaseIsSignalTotal
<1>4. QED
  BY <1>3, Inductive, PTL

(* At most two signals are ever in flight to one counter.                  *)
THEOREM SignalsOutstandingHolds == Spec => []SignalsOutstanding
<1>1. ASSUME IInv, NEW p \in PE, NEW h \in Side
      PROVE  pending[p][h] <= 2
  <2> DEFINE q == Neighbour(p, h)
  <2>1. q \in PE /\ Opp(h) \in Side /\ Opp(Opp(h)) = h /\ Neighbour(q, Opp(h)) = p
    BY RingNeighbours
  <2>2. /\ Done(p) <= sig[p][h] /\ sig[p][h] + pending[p][h] = Sent(q, Opp(h))
        /\ Sent(q, Opp(h)) \in {Done(q), Done(q) + 1}
        /\ {sig[p][h], pending[p][h], Done(q), Done(p)} \subseteq Nat
    BY <1>1, <2>1, Counts
  <2>3. /\ Done(q) <= sig[q][Opp(h)] /\ sig[q][Opp(h)] + pending[q][Opp(h)] = Sent(p, h)
        /\ Sent(p, h) \in {Done(p), Done(p) + 1}
        /\ {sig[q][Opp(h)], pending[q][Opp(h)]} \subseteq Nat
    BY <1>1, Counts
  <2>4. QED
    BY <2>2, <2>3
<1>2. IInv => SignalsOutstanding
  BY <1>1 DEF SignalsOutstanding
<1>3. QED
  BY <1>2, Inductive, PTL

(* What the abstract ring promises of its rounds: no PE gets more than one *)
(* exchange ahead of a neighbour, or signals one more than twice before it *)
(* has been waited for.                                                    *)
THEOREM NeighbourSkewHolds == Spec => [](Ring!NeighbourSkew /\ Ring!PostsUnconsumed)
<1>1. Ring!PE = PE /\ Ring!Side = Side
  BY DEF Ring!PE, PE, Ring!Side, Side
<1>2. ASSUME IInv, NEW p \in PE, NEW s \in Side, NEW t, t = Neighbour(p, s)
      PROVE  t \in PE /\ Done(t) - Done(p) \in {-1, 0, 1} /\ Sent(p, s) - Done(t) <= 2
  <2>1. t \in PE /\ Opp(s) \in Side /\ Opp(Opp(s)) = s /\ Neighbour(t, Opp(s)) = p
    BY <1>2, RingNeighbours
  <2>2. /\ Done(t) <= sig[t][Opp(s)] /\ sig[t][Opp(s)] + pending[t][Opp(s)] = Sent(p, s)
        /\ Sent(p, s) \in {Done(p), Done(p) + 1}
        /\ {sig[t][Opp(s)], pending[t][Opp(s)], Done(p), Done(t)} \subseteq Nat
    BY <1>2, Counts
  <2>3. /\ Done(p) <= sig[p][s] /\ sig[p][s] + pending[p][s] = Sent(t, Opp(s))
        /\ Sent(t, Opp(s)) \in {Done(t), Done(t) + 1}
        /\ {sig[p][s], pending[p][s]} \subseteq Nat
    BY <1>2, <2>1, Counts
  <2>4. Done(t) <= Done(p) + 1 /\ Sent(p, s) <= Done(p) + 1
    BY <2>2, SMT
  <2>5. Done(p) <= Done(t) + 1
    BY <2>2, <2>3, SMT
  <2> QED
    BY <2>1, <2>2, <2>4, <2>5, SMT
<1>3. \A p \in PE, s \in Side : Ring!Neighbour(p, s) = Neighbour(p, s)
  BY DEF Ring!Neighbour, Neighbour
<1>4. IInv => Ring!NeighbourSkew /\ Ring!PostsUnconsumed
  BY <1>1, <1>2, <1>3 DEF Ring!NeighbourSkew, Ring!PostsUnconsumed
<1> QED
  BY <1>4, Inductive, PTL

(* A correct exchange is never reported invalid: every validation finds    *)
(* both halos written, so every combined verdict is TRUE.                  *)
THEOREM NeverInvalidHolds == Spec => []NeverInvalid
<1>1. Init => NeverInvalid
  BY DEF Init, NeverInvalid
<1>2. IInv /\ NeverInvalid /\ [Next]_vars => NeverInvalid'
  <2> SUFFICES ASSUME IInv, NeverInvalid, [Next]_vars
               PROVE  NeverInvalid'
    OBVIOUS
  <2>1. CASE UNCHANGED <<ok, all_ok>>
    BY <2>1 DEF NeverInvalid
  <2>2. ASSUME NEW p \in PE, Validate(p)
        PROVE  NeverInvalid'
    <3>1. base[p] \in Nat /\ base[p] > 0
      BY <2>2 DEF Validate, IInv, HostStage, TypeOK
    <3>2. \A s \in Side, b \in Active : recv[p][s][b] # Poison
      BY <2>2, <3>1, HaloHolds DEF Validate, Poison
    <3>3. ok' = [ok EXCEPT ![p] = TRUE] /\ UNCHANGED all_ok
      <4>1. ok[p] /\ (\A s \in Side : \A b \in Active : recv[p][s][b] # Poison)
        BY <3>2 DEF NeverInvalid
      <4>2. (ok[p] /\ (\A s \in Side : \A b \in Active : recv[p][s][b] # Poison)) = TRUE
        BY <4>1
      <4>3. QED
        BY <2>2, <4>2, Zenon DEF Validate
    <3>4. ok \in [PE -> BOOLEAN]
      BY DEF IInv, TypeOK
    <3>5. \A q \in PE : ok'[q] = IF q = p THEN TRUE ELSE ok[q]
      BY <3>3, <3>4, Zenon
    <3>6. QED
      BY <3>3, <3>5 DEF NeverInvalid
  <2>3. CASE Verdict
    BY <2>3 DEF Verdict, NeverInvalid
  <2>4. CASE Barrier
    BY <2>4 DEF Barrier, NeverInvalid
  <2>5. ASSUME NEW p \in PE, PoisonHalos(p) \/ Launch(p) \/ FinishKernel(p)
        PROVE  NeverInvalid'
    BY <2>1, <2>5 DEF PoisonHalos, Launch, FinishKernel, hostVars
  <2>6. CASE UNCHANGED <<host, hostVars>>
    BY <2>1, <2>6 DEF hostVars
  <2>7. QED
    BY <2>2, <2>3, <2>4, <2>5, <2>6, StepKinds
<1>3. QED
  BY <1>1, <1>2, Inductive, PTL DEF Spec

-----------------------------------------------------------------------------
(* The refinement of the abstract ring.                                    *)

(* The exchange implements the abstract ring: signals are its posts, the   *)
(* second wait of an iteration completes a round, and everything else      *)
(* stutters.                                                               *)
THEOREM ImplementsRingHolds == Spec => ImplementsRing
<1> DEFINE posted == [p \in PE |-> [s \in Side |-> Sent(p, s)]]
           done == [p \in PE |-> Done(p)]
<1>1. /\ Ring!PE = PE /\ Ring!Side = Side
      /\ \A s \in Side : Ring!Opp(s) = Opp(s)
      /\ \A p \in PE, s \in Side : Ring!Neighbour(p, s) = Neighbour(p, s)
  BY DEF Ring!PE, PE, Ring!Side, Side, Ring!Opp, Opp, Ring!Neighbour, Neighbour
<1>2. Init => Ring!Init
  <2> SUFFICES ASSUME Init
               PROVE  Ring!Init
    OBVIOUS
  <2>1. \A p \in PE : Done(p) = 0 /\ \A s \in Side : Sent(p, s) = 0
    BY GridShape DEF Init, Done, Sent
  <2>2. QED
    BY <1>1, <2>1 DEF Ring!Init
<1>3. IInv /\ [Next]_vars => [Ring!Next]_(Ring!ringVars)
  <2> SUFFICES ASSUME IInv, [Next]_vars
               PROVE  Ring!Next \/ (posted' = posted /\ done' = done)
    BY DEF Ring!ringVars
  <2>0. \A p \in PE : Done(p) \in Nat /\ \A s \in Side : Sent(p, s) \in Nat
    BY Counts DEF Side
  <2>1. RingMoves
    BY SignalsStep
  <2>2. CASE RingStays
    BY <2>2 DEF RingStays
  <2>3. ASSUME NEW p \in PE, NEW d \in Side, RingPosts(p, d)
        PROVE  Ring!Next
    <3>1. Done(p) \in Nat
      BY Counts
    <3>2. posted' = [posted EXCEPT ![p][d] = @ + 1]
      <4>1. ASSUME NEW q \in PE
            PROVE  [s \in Side |-> Sent(q, s)'] = [posted EXCEPT ![p][d] = @ + 1][q]
        <5>1. CASE q = p
          <6>1. [s \in Side |-> Sent(q, s)'] = [[s \in Side |-> Sent(p, s)] EXCEPT ![d] = @ + 1]
            <7>1. \A s \in Side : Sent(q, s)' = IF s = d THEN Sent(p, d) + 1 ELSE Sent(p, s)
              BY <2>0, <2>3, <5>1 DEF RingPosts
            <7>2. QED
              BY <7>1
          <6>2. QED
            BY <5>1, <6>1
        <5>2. CASE q # p
          BY <2>0, <2>3, <5>2 DEF RingPosts
        <5>3. QED
          BY <5>1, <5>2
      <4>2. QED
        BY <4>1
    <3>3. done' = done
      BY <2>3 DEF RingPosts
    <3>4. Ring!Post(p, d)
      BY <2>3, <3>1, <3>2, <3>3 DEF Ring!Post, RingPosts
    <3>5. QED
      BY <1>1, <3>4 DEF Ring!Next
  <2>4. ASSUME NEW p \in PE, RingCompletes(p)
        PROVE  Ring!Next
    <3>1. done' = [done EXCEPT ![p] = @ + 1] /\ posted' = posted
      <4>1. \A q \in PE : Done(q)' = IF q = p THEN Done(p) + 1 ELSE Done(q)
        BY <2>0, <2>4 DEF RingCompletes
      <4>2. posted' = posted
        BY <2>4 DEF RingCompletes
      <4>3. done' = [done EXCEPT ![p] = @ + 1]
        BY <4>1
      <4>4. QED
        BY <4>2, <4>3
    <3>2. ASSUME NEW s \in Side
          PROVE  posted[Neighbour(p, s)][Opp(s)] > done[p]
      <4>1. /\ Neighbour(p, s) \in PE /\ Opp(s) \in Side
            /\ Opp(Opp(s)) = s /\ Neighbour(Neighbour(p, s), Opp(s)) = p
        BY RingNeighbours
      <4>2. /\ sig[p][s] + pending[p][s] = Sent(Neighbour(p, s), Opp(s))
            /\ {sig[p][s], pending[p][s], Done(p)} \subseteq Nat
        BY <4>1, Counts
      <4>3. QED
        BY <2>4, <4>1, <4>2 DEF RingCompletes
    <3>3. Ring!Complete(p)
      BY <1>1, <2>4, <3>1, <3>2 DEF Ring!Complete, RingCompletes
    <3>4. QED
      BY <1>1, <3>3 DEF Ring!Next
  <2>5. QED
    BY <2>1, <2>2, <2>3, <2>4 DEF RingMoves
<1>4. QED
  BY <1>2, <1>3, Inductive, PTL DEF Spec, ImplementsRing, Ring!Spec

-----------------------------------------------------------------------------
(* Nobody is left waiting.                                                 *)

(* What the steps of a kernel, of a host, of all together and of the       *)
(* network wait for.                                                       *)
KernelCanGoOn(p) ==
  \/ \E b \in Block :
       \/ pc[p][b] = "put"
       \/ pc[p][b] = "quiet" /\ \A m \in puts : ~(m.src = p /\ m.blk = b)
  \/ pc[p][0] \in {"signalRight", "signalLeft"}
  \/ pc[p][0] = "waitLeft" /\ sig[p]["left"] >= Threshold(p)
  \/ pc[p][0] = "waitRight" /\ sig[p]["right"] >= Threshold(p)
  \/ \A b \in Block : pc[p][b] = "sync1"
  \/ GridReady2(p) /\ it[p] <= Count(bench[p], batch[p])
HostCanGoOn(p) == host[p] \in {"before", "body", "after"}
AllCanGoOn ==
  \/ \A p \in PE : host[p] = "verdict"
  \/ \A p \in PE : host[p] \in {"aligned", "closing"}
NetworkCanGoOn == puts # {} \/ \E p \in PE, s \in Side : pending[p][s] > 0

(* Until all PEs have left, one of these can always go on.                 *)
NobodyStuck ==
  (\E p \in PE : host[p] # "exit") =>
    (\E p \in PE : KernelCanGoOn(p) \/ HostCanGoOn(p)) \/ AllCanGoOn \/ NetworkCanGoOn

(* A set of naturals that is not empty has a least.                        *)
LEMMA Least ==
  ASSUME NEW S, S \subseteq Nat, S # {}
  PROVE  \E m \in S : \A k \in S : m <= k
<1>1. PICK m \in S : \A k \in S : <<k, m>> \notin OpToRel(<, Nat)
  BY NatLessThanWellFounded, WFMin
<1>2. \A k \in S : ~(k < m)
  BY <1>1 DEF OpToRel
<1>3. QED
  BY <1>2, SMT

(* A kernel that cannot go on waits for a signal of the exchange it is in. *)
LEMMA KernelWaits ==
  ASSUME IInv, NEW p \in PE, host[p] = "kernel", ~KernelCanGoOn(p), puts = {}
  PROVE  \E s \in Side : /\ pc[p][0] \in {"waitLeft", "waitRight"}
                         /\ ~(sig[p][s] >= Exchange(p))
<1>1. /\ pc[p] \in [Block -> BlockPC] /\ 0 \in Block
      /\ \A b \in Block : pc[p][b] # "idle"
      /\ it[p] <= Count(bench[p], batch[p])
  BY GridShape, BatchShape DEF IInv, TypeOK, HostStage
<1>2. \A b \in Block : pc[p][b] # "put" /\ pc[p][b] # "quiet"
  BY DEF KernelCanGoOn
<1>3. /\ \A b \in Block : pc[p][b] \in BeforeSync1 <=> pc[p][0] \in BeforeSync1
      /\ \A b \in Block : b # 0 => pc[p][b] \in BeforeSync1 \cup {"idle", "sync2"}
  BY DEF IInv, GridStage
<1>4. pc[p][0] # "sync1"
  BY <1>2, <1>3 DEF KernelCanGoOn, BeforeSync1
<1>5. pc[p][0] # "sync2"
  <2> SUFFICES ASSUME pc[p][0] = "sync2"
               PROVE  FALSE
    OBVIOUS
  <2>1. \A b \in Block : pc[p][b] = "sync2"
    BY <1>1, <1>3 DEF BeforeSync1
  <2>2. QED
    BY <1>1, <2>1 DEF KernelCanGoOn, GridReady2
<1>6. pc[p][0] \in {"waitLeft", "waitRight"}
  BY <1>1, <1>2, <1>4, <1>5 DEF BlockPC, KernelCanGoOn
<1>7. QED
  BY <1>6 DEF KernelCanGoOn, Threshold, Exchange, Side

(* No wait of a kernel is circular: of the kernels that wait, the one in   *)
(* the earliest exchange has been signalled by both neighbours.            *)
LEMMA KernelsGoOn ==
  ASSUME IInv, NEW r \in PE, host[r] = "kernel", ~NetworkCanGoOn,
         \A p \in PE : ~KernelCanGoOn(p) /\ ~HostCanGoOn(p)
  PROVE  FALSE
<1> DEFINE Kernels == {p \in PE : host[p] = "kernel"}
           Exchanges == {Exchange(p) : p \in Kernels}
<1>1. \A p \in Kernels : Exchange(p) \in Nat /\ Exchange(p) <= EndTotal(p)
  BY ExchangeBound
<1>2. Exchanges \subseteq Nat /\ Exchanges # {}
  BY <1>1
<1>3. PICK x \in Exchanges : \A y \in Exchanges : x <= y
  <2> HIDE DEF Exchanges
  <2>1. QED
    BY <1>2, Least
<1>4. PICK p \in Kernels : x = Exchange(p) /\ \A q \in Kernels : Exchange(p) <= Exchange(q)
  BY <1>3
<1>5. puts = {} /\ \A q \in PE, s \in Side : pending[q][s] = 0 /\ sig[q][s] \in Nat
  BY DEF NetworkCanGoOn, IInv, TypeOK
<1>6. PICK s \in Side : ~(sig[p][s] >= Exchange(p))
  BY <1>4, <1>5, KernelWaits
<1> DEFINE q == Neighbour(p, s)
<1>7. /\ q \in PE /\ Opp(s) \in Side
      /\ sig[p][s] = Sent(q, Opp(s))
  BY <1>4, <1>5, RingNeighbours DEF IInv, SignalsAddUp
<1>8. /\ EndTotal(q) = EndTotal(p) /\ EndTotal(p) \in Nat
      /\ ~InLaunch(q) => Sent(q, Opp(s)) = EndTotal(q)
  BY <1>4, <1>7, Totals
<1> HIDE DEF q
<1>9. CASE host[q] = "kernel"
  <2>1. pc[q][0] \in {"waitLeft", "waitRight"}
    BY <1>5, <1>7, <1>9, KernelWaits
  <2>2. base[q] \in Nat /\ it[q] \in Nat \ {0}
    BY <1>7, <1>9, BatchShape DEF IInv, TypeOK, HostStage
  <2>3. Sent(q, Opp(s)) = Exchange(q)
    BY <2>1, <2>2 DEF Sent, Exchange
  <2>4. q \in Kernels
    BY <1>7, <1>9
  <2>5. QED
    BY <1>1, <1>4, <1>6, <1>7, <2>3, <2>4, SMT
<1>10. CASE host[q] # "kernel"
  <2>1. ~InLaunch(q)
    BY <1>7, <1>10 DEF InLaunch, HostCanGoOn
  <2>2. QED
    BY <1>1, <1>4, <1>6, <1>7, <1>8, <2>1, SMT
<1>11. QED
  BY <1>9, <1>10

(* The exchange cannot come to a standstill, for any number of PEs, blocks *)
(* and batches, however late the network delivers: no signal wait, no grid *)
(* synchronisation and no barrier waits for something that has been missed *)
(* or will never come.                                                     *)
THEOREM NobodyStuckHolds == Spec => []NobodyStuck
<1>1. IInv => NobodyStuck
  <2> SUFFICES ASSUME IInv, NEW r \in PE, host[r] # "exit", ~NetworkCanGoOn, ~AllCanGoOn,
                      \A p \in PE : ~KernelCanGoOn(p) /\ ~HostCanGoOn(p)
               PROVE  FALSE
    BY DEF NobodyStuck
  <2>1. \A p \in PE : host[p] \in {"aligned", "verdict", "closing", "exit"}
    <3>1. \A p \in PE : host[p] # "kernel"
      BY KernelsGoOn
    <3>2. QED
      BY <3>1 DEF HostCanGoOn, IInv, TypeOK, HostPC
  <2>2. /\ \A p, q \in PE : host[p] \in {"closing", "exit"} => host[q] = host[p]
        /\ \A p, q \in PE : LaunchesBegun(p) = LaunchesBegun(q) /\ bench[p] = bench[q]
    BY DEF IInv, SameLaunch
  <2>3. \A p \in PE : host[p] \in {"aligned", "verdict"}
    <3>1. host[r] # "closing"
      BY <2>2 DEF AllCanGoOn
    <3>2. QED
      BY <2>1, <2>2, <3>1
  <2>4. PICK p \in PE, q \in PE : host[p] = "aligned" /\ host[q] = "verdict"
    BY <2>3 DEF AllCanGoOn
  <2>5. /\ batch[p] <= Samples(bench[p]) /\ batch[q] = Samples(bench[q])
        /\ batch[p] \in Nat /\ batch[q] \in Nat /\ Samples(bench[p]) \in Nat
    BY <2>4, BatchShape DEF IInv, HostStage, TypeOK
  <2>6. batch[p] = batch[q] + 1 /\ bench[p] = bench[q]
    BY <2>2, <2>4 DEF LaunchesBegun
  <2>7. QED
    BY <2>5, <2>6, SMT
<1>2. QED
  BY <1>1, Inductive, PTL

=============================================================================
