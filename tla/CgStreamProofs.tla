---------------------------- MODULE CgStreamProofs ----------------------------
(***************************************************************************)
(* That every rank of the two-sided cg_step computes with the columns of   *)
(* its step, validates the last one and times one step per sample, for     *)
(* every number of ranks, every sweep of grid sides and every number of    *)
(* steps, although the host runs ahead of the device.                      *)
(***************************************************************************)
EXTENDS CgStream, TLAPS

-----------------------------------------------------------------------------
(* The inductive invariant.                                                *)

(* The steps of the sides before that of p, and its step within its side.  *)
Base(p) == (side[p] - 1) * StepsPerSide
InSide(p) == step[p] - Base(p)

(* Phases are counted over the whole sweep: how many a host has issued,    *)
(* and which one an operation belongs to.                                  *)
Issued(p) ==
  CASE pc[p] \in {"init", "aligned"} -> 4 * (step[p] - 1)
    [] pc[p] = "issue" -> 4 * (step[p] - 1) + (phase[p] - 1)
    [] pc[p] = "sync" -> 4 * (step[p] - 1) + phase[p]
    [] OTHER -> 4 * step[p]

Nth(op) == 4 * (op.step - 1) + op.phase

(* The phase a device is in or waits for, and which of the four it is of   *)
(* the first step that is not reduced.                                     *)
Reached(p) == IF queue[p] = <<>> THEN Issued(p) + 1 ELSE Nth(Head(queue[p]))
Done == result[0][0]
Stage(p) == Reached(p) - 4 * Done

(* Which collective operation of its side a host will come to next.        *)
Epoch(p) ==
  CASE pc[p] \in {"init", "aligned"} -> 0
    [] pc[p] \in {"issue", "sync", "stats"} -> IF InSide(p) <= StepsPerPass THEN 1 ELSE 3
    [] pc[p] = "phaseBarrier" -> 2
    [] pc[p] = "verdict" -> 4
    [] OTHER -> 5

(* The hosts stand between the same two collective operations.             *)
Together ==
  \A p, q \in PE : side[p] = side[q] /\ Epoch(p) = Epoch(q)

(* Outside the loops no operation is queued and the loops are at an end.   *)
Places ==
  \A p \in PE :
    /\ InSide(p) \in 1 .. StepsPerSide
    /\ pc[p] \in {"init", "aligned"} => InSide(p) = 1
    /\ pc[p] = "stats" => InSide(p) \in {StepsPerPass, StepsPerSide}
    /\ pc[p] = "phaseBarrier" => phasePass /\ InSide(p) = StepsPerPass
    /\ pc[p] \in {"verdict", "exit"} => InSide(p) = StepsPerSide
    /\ pc[p] = "sync" => Syncs(p)
    /\ pc[p] \notin {"issue", "sync"} => phase[p] = 1 /\ queue[p] = <<>>

(* A stream holds the last operations that were issued, in order.          *)
InOrder(p) ==
  \A i \in 1 .. Len(queue[p]) :
    /\ Nth(queue[p][i]) = Issued(p) - Len(queue[p]) + i
    /\ queue[p][i].moves = IF queue[p][i].phase = 2 THEN HaloGroup(p)[1] ELSE {}

(* MPI's two shifts are one phase.                                         *)
InPhase(p) ==
  queue[p] # <<>> =>
    /\ pc[p] = "sync"
    /\ \A i \in 1 .. Len(queue[p]) : queue[p][i].step = step[p] /\ queue[p][i].phase = phase[p]
    /\ phase[p] # 2 => Len(queue[p]) = 1 /\ queue[p][1].moves = {}
    /\ phase[p] = 2 => /\ Len(queue[p]) \in {1, 2}
                       /\ queue[p][Len(queue[p])].moves = HaloShifts(p)[2]
                       /\ Len(queue[p]) = 2 => queue[p][1].moves = HaloShifts(p)[1]

Streams == \A p \in PE : IF backend = "mpi" THEN InPhase(p) ELSE InOrder(p)

(* The headline loop has one step on the stream.                           *)
Drained ==
  \A p \in PE :
    pc[p] \in {"issue", "sync"} /\ InSide(p) <= StepsPerPass =>
      \A i \in 1 .. Len(queue[p]) : queue[p][i].step = step[p]

(* The reductions keep the devices in the same step.                       *)
InStep ==
  /\ \A p, q \in PE : result[p][q] = Done
  /\ \A p \in PE : Stage(p) \in 1 .. 4

(* The column from d is there; MPI's first shift brings the one from the   *)
(* east.                                                                   *)
Received(p, d) ==
  \/ Stage(p) > 2
  \/ /\ HeadIs(p, "halo")
     /\ \/ <<"in", d>> \in moved[p]
        \/ backend = "mpi" /\ Len(queue[p]) = 1 /\ d = "east"

(* What a rank has packed, and what it has received, is of the step it is  *)
(* in; outside the grid there is nothing.                                  *)
Columns(p) ==
  /\ Stage(p) > 1 => send[p] = Boundary(p, side[p], Done + 1)
  /\ \A d \in Dir :
       /\ HasNeighbour(p, d) /\ Received(p, d) =>
            recv[p][d] = ExpectedGhosts(p, side[p], Done + 1)[d]
       /\ ~HasNeighbour(p, d) /\ pc[p] # "init" => recv[p][d] = Zero
  /\ IF HeadIs(p, "halo") THEN moved[p] \subseteq Head(queue[p]).moves ELSE moved[p] = {}

(* What it has computed with is of that step, or of the one before.        *)
Computed(p) ==
  /\ Stage(p) = 4 => partial[p] = Done + 1 /\ ghost[p] = ExpectedGhosts(p, side[p], Done + 1)
  /\ Stage(p) < 4 /\ Base(p) < Done => ghost[p] = ExpectedGhosts(p, side[p], Done)

Buffers == \A p \in PE : Columns(p) /\ Computed(p)

IInv == TypeOK /\ Together /\ Places /\ Streams /\ Drained /\ InStep /\ Buffers

-----------------------------------------------------------------------------
(* The grid.                                                               *)

LEMMA Constants ==
  /\ N \in Nat \ {0} /\ Len(Sides) \in Nat \ {0} /\ Sides \in Seq(Nat \ {0})
  /\ \A i \in 1 .. Len(Sides) : Sides[i] \in Nat \ {0} /\ Sides[i] >= N
  /\ Warmup \in Nat /\ Iterations \in Nat \ {0} /\ 0 \in PE
<1>1. N \in Nat \ {0} /\ Sides \in Seq(Nat \ {0}) /\ Sides # <<>>
  BY GridAssumption
<1>2. Len(Sides) \in Nat \ {0}
  BY <1>1
<1>3. \A i \in 1 .. Len(Sides) : Sides[i] \in Nat \ {0}
  BY <1>1
<1>4. 0 \in PE
  BY <1>1 DEF PE
<1> QED
  BY <1>1, <1>2, <1>3, <1>4, GridCoversRanks, CgStreamAssumption

(* Every slab is an interval of columns, it holds one at least, and that   *)
(* of the next rank starts where it ends.                                  *)
LEMMA Slabs ==
  ASSUME NEW i \in 1 .. Len(Sides), NEW p \in PE
  PROVE  /\ LocalOffset(Sides[i], p, N) \in Int /\ LocalCount(Sides[i], p, N) \in Int
         /\ LocalCount(Sides[i], p, N) > 0
         /\ LocalOffset(Sides[i], p + 1, N) = LocalOffset(Sides[i], p, N) + LocalCount(Sides[i], p, N)
<1> DEFINE t == Sides[i]
           a == t \div N
           r == t % N
<1>1. t \in Nat /\ N \in Nat \ {0} /\ t >= N /\ p \in 0 .. N - 1
  BY Constants DEF PE
<1> HIDE DEF t
<1>2. a \in Nat /\ r \in 0 .. N - 1 /\ t = N * a + r
  BY <1>1, SMT
<1>3. (p + 1) * a = p * a + a /\ p * a \in Int /\ (p + 1) * a \in Int
  <2>1. p \in Int /\ a \in Int
    BY <1>1, <1>2, SMT
  <2> HIDE DEF a, r
  <2>2. p * a \in Int /\ (p + 1) * a \in Int
    BY <2>1, SMT
  <2> QED
    BY <2>1, <2>2, SMT
<1>4. a > 0
  <2>1. a = 0 => N * a = 0
    BY <1>1, SMT
  <2> HIDE DEF a, r
  <2> QED
    BY <1>1, <1>2, <2>1, SMT
<1> DEFINE b == p * a
           c == (p + 1) * a
<1>5. b \in Int /\ c = b + a
  BY <1>3
<1> HIDE DEF a, r, b, c
<1>6. /\ b + (IF p < r THEN p ELSE r) \in Int
      /\ a + (IF p < r THEN 1 ELSE 0) \in Int /\ a + (IF p < r THEN 1 ELSE 0) > 0
      /\ c + (IF p + 1 < r THEN p + 1 ELSE r) =
           b + (IF p < r THEN p ELSE r) + (a + (IF p < r THEN 1 ELSE 0))
  BY <1>1, <1>2, <1>4, <1>5, SMT
<1> QED
  BY <1>6 DEF a, b, c, r, t, LocalOffset, LocalCount

LEMMA Facings ==
  ASSUME NEW p \in PE, NEW d \in Dir, HasNeighbour(p, d)
  PROVE  /\ Neighbour(p, d) \in PE /\ Neighbour(p, d) # p /\ Opposite(d) \in Dir
         /\ HasNeighbour(Neighbour(p, d), Opposite(d))
         /\ Neighbour(Neighbour(p, d), Opposite(d)) = p
         /\ Opposite(Opposite(d)) = d /\ Opposite(d) # d
BY Constants, SMT DEF PE, Dir, HasNeighbour, Neighbour, Opposite

LEMMA ColumnTypes ==
  ASSUME NEW i \in 1 .. Len(Sides), NEW p \in PE, NEW s \in Nat
  PROVE  /\ Boundary(p, i, s) \in [Dir -> Column]
         /\ ExpectedGhosts(p, i, s) \in [Dir -> Column]
         /\ Zero \in Column /\ Garbage \in Column
<1>1. \A d \in Dir : Edge(p, i, d) \in Int
  BY Slabs, SMT DEF Edge
<1>2. Zero \in Column /\ Garbage \in Column
  BY SMT DEF Zero, Garbage, Column
<1>3. \A d \in Dir : Edge(p, i, d) + (IF d = "west" THEN -1 ELSE 1) \in Int
  BY <1>1, SMT
<1>4. \A x \in Int : [index |-> x, step |-> s] \in Column
  BY DEF Column
<1> QED
  BY <1>1, <1>2, <1>3, <1>4 DEF Boundary, ExpectedGhosts

(* What a rank sends is what its neighbour expects.                        *)
LEMMA BoundariesFace ==
  ASSUME NEW i \in 1 .. Len(Sides), NEW p \in PE, NEW d \in Dir, HasNeighbour(p, d), NEW s \in Nat
  PROVE  Boundary(p, i, s)[d] = ExpectedGhosts(Neighbour(p, d), i, s)[Opposite(d)]
<1> DEFINE q == Neighbour(p, d)
<1>1. /\ q \in PE /\ Opposite(d) \in Dir /\ HasNeighbour(q, Opposite(d))
  BY Facings
<1>2. Edge(p, i, d) = Edge(q, i, Opposite(d)) + (IF Opposite(d) = "west" THEN -1 ELSE 1)
  <2>1. CASE d = "west"
    <3>1. q = p - 1 /\ q + 1 = p /\ Opposite(d) = "east"
      BY <1>1, <2>1, Constants, SMT DEF PE, Neighbour, Opposite
    <3>2. /\ LocalOffset(Sides[i], q + 1, N) = LocalOffset(Sides[i], q, N) + LocalCount(Sides[i], q, N)
          /\ LocalOffset(Sides[i], q, N) \in Int /\ LocalCount(Sides[i], q, N) \in Int
      BY <1>1, Slabs
    <3> HIDE DEF q
    <3>3. LocalOffset(Sides[i], p, N) = LocalOffset(Sides[i], q, N) + LocalCount(Sides[i], q, N)
      BY <3>1, <3>2
    <3> QED
      BY <2>1, <3>1, <3>2, <3>3, SMT DEF Edge
  <2>2. CASE d = "east"
    <3>1. q = p + 1 /\ Opposite(d) = "west"
      BY <2>2 DEF Neighbour, Opposite
    <3>2. /\ LocalOffset(Sides[i], p + 1, N) = LocalOffset(Sides[i], p, N) + LocalCount(Sides[i], p, N)
          /\ LocalOffset(Sides[i], p, N) \in Int /\ LocalCount(Sides[i], p, N) \in Int
          /\ LocalOffset(Sides[i], q, N) \in Int
      BY <1>1, Slabs
    <3> HIDE DEF q
    <3>3. LocalOffset(Sides[i], q, N) = LocalOffset(Sides[i], p, N) + LocalCount(Sides[i], p, N)
      BY <3>1, <3>2
    <3> QED
      BY <2>2, <3>1, <3>2, <3>3, SMT DEF Edge
  <2> QED
    BY <2>1, <2>2 DEF Dir
<1> HIDE DEF q
<1> QED
  BY <1>1, <1>2 DEF Boundary, ExpectedGhosts, q

-----------------------------------------------------------------------------
(* The steps of a side.                                                    *)

LEMMA Remainder ==
  ASSUME NEW m \in Nat \ {0}, NEW k \in Nat, NEW x \in 0 .. m - 1
  PROVE  (k * m + x) % m = x
<1> DEFINE t == k * m + x
           a == t \div m
           r == t % m
<1>1. t \in Nat /\ k * m \in Nat
  BY SMT
<1>2. a \in Int /\ r \in 0 .. m - 1 /\ t = m * a + r
  <2> HIDE DEF t
  <2> QED
    BY <1>1, SMT
<1> HIDE DEF a, r
<1>3. ~(a < k)
  <2> SUFFICES ASSUME a < k PROVE FALSE
    OBVIOUS
  <2>1. m * (a + 1) <= m * k
    BY <1>2, SMT
  <2>2. m * (a + 1) = m * a + m /\ m * k = k * m
    BY <1>2, SMT
  <2> QED
    BY <1>1, <1>2, <2>1, <2>2, SMT
<1>4. ~(k < a)
  <2> SUFFICES ASSUME k < a PROVE FALSE
    OBVIOUS
  <2>1. m * (k + 1) <= m * a
    BY <1>2, SMT
  <2>2. m * (k + 1) = k * m + m
    BY <1>2, SMT
  <2> QED
    BY <1>1, <1>2, <2>1, <2>2, SMT
<1>5. a = k
  BY <1>2, <1>3, <1>4, SMT
<1>6. m * a = k * m
  BY <1>5, SMT
<1>7. r = x
  BY <1>1, <1>2, <1>6, SMT
<1> QED
  BY <1>7 DEF r

LEMMA PerPass ==
  ASSUME TypeOK
  PROVE  /\ StepsPerPass \in Nat \ {0} /\ StepsPerSide \in Nat \ {0}
         /\ StepsPerSide = IF phasePass THEN 2 * StepsPerPass ELSE StepsPerPass
         /\ Warmup < StepsPerPass
BY Constants, SMT DEF TypeOK, StepsPerPass, StepsPerSide

LEMMA OfSide ==
  ASSUME TypeOK, NEW k \in Nat, NEW n \in 1 .. StepsPerSide
  PROVE  LET s == k * StepsPerSide + n
         IN  /\ StepOfSide(s) = n
             /\ LastOfSide(s) <=> n = StepsPerSide
             /\ LastOfPass(s) <=> n \in {StepsPerPass, StepsPerSide}
<1> DEFINE P == StepsPerPass
           S == StepsPerSide
           s == k * S + n
<1>1. /\ P \in Nat \ {0} /\ S \in Nat \ {0} /\ n \in 1 .. S
      /\ S = P \/ S = 2 * P
  BY PerPass
<1>2. StepOfSide(s) = ((s - 1) % S) + 1 /\ (LastOfSide(s) <=> s % S = 0) /\ (LastOfPass(s) <=> s % P = 0)
  BY DEF StepOfSide, LastOfSide, LastOfPass
<1> HIDE DEF P, S
<1>3. k * S \in Nat /\ s - 1 = k * S + (n - 1) /\ n - 1 \in 0 .. S - 1
  BY <1>1, SMT
<1>4. (s - 1) % S = n - 1
  <2> DEFINE x == n - 1
  <2>1. x \in 0 .. S - 1 /\ S \in Nat \ {0} /\ k \in Nat
    BY <1>1, <1>3
  <2> HIDE DEF x
  <2>2. (k * S + x) % S = x
    BY <2>1, Remainder
  <2> QED
    BY <1>3, <2>2 DEF x
<1>5. s % S = 0 <=> n = S
  <2>1. CASE n = S
    <3>1. s = (k + 1) * S + 0 /\ k + 1 \in Nat /\ 0 \in 0 .. S - 1
      BY <1>1, <2>1, SMT
    <3> HIDE DEF s
    <3>2. ((k + 1) * S + 0) % S = 0
      BY <1>1, <3>1, Remainder
    <3> QED
      BY <2>1, <3>1, <3>2
  <2>2. CASE n # S
    <3>1. n \in 0 .. S - 1 /\ n # 0
      BY <1>1, <2>2, SMT
    <3> QED
      BY <1>1, <2>2, <3>1, Remainder
  <2> QED
    BY <2>1, <2>2
<1>6. s % P = 0 <=> n \in {P, S}
  <2>1. CASE S = P
    BY <1>5, <2>1
  <2>2. CASE S = 2 * P
    <3>1. k * S = (2 * k) * P /\ 2 * k \in Nat /\ (2 * k) * P \in Nat
      BY <1>1, <2>2, SMT
    <3>2. CASE n < P
      <4>1. n \in 0 .. P - 1 /\ n # 0 /\ n # P /\ n # S
        BY <1>1, <2>2, <3>2, SMT
      <4>2. ((2 * k) * P + n) % P = n
        BY <1>1, <3>1, <4>1, Remainder
      <4> QED
        BY <3>1, <4>1, <4>2
    <3>3. CASE P <= n /\ n < 2 * P
      <4>1. n - P \in 0 .. P - 1 /\ 2 * k + 1 \in Nat /\ (n - P = 0 <=> n = P) /\ n # S
        BY <1>1, <2>2, <3>3, SMT
      <4>2. ((2 * k + 1) * P + (n - P)) % P = n - P
        BY <1>1, <4>1, Remainder
      <4>3. (2 * k + 1) * P = (2 * k) * P + P
        BY <1>1, SMT
      <4>4. s = (2 * k + 1) * P + (n - P)
        BY <1>1, <3>1, <4>3, SMT
      <4> QED
        BY <4>1, <4>2, <4>4
    <3>4. CASE n = 2 * P
      <4>1. 0 \in 0 .. P - 1 /\ 2 * k + 2 \in Nat
        BY <1>1, SMT
      <4>2. ((2 * k + 2) * P + 0) % P = 0
        BY <1>1, <4>1, Remainder
      <4>3. (2 * k + 2) * P = (2 * k) * P + 2 * P
        BY <1>1, SMT
      <4>4. s = (2 * k + 2) * P + 0
        BY <1>1, <3>1, <3>4, <4>3, SMT
      <4> QED
        BY <2>2, <3>4, <4>2, <4>4
    <3> QED
      BY <1>1, <2>2, <3>2, <3>3, <3>4, SMT
  <2> QED
    BY <1>1, <2>1, <2>2
<1> QED
  BY <1>2, <1>3, <1>4, <1>5, <1>6 DEF P, S

LEMMA Types ==
  ASSUME TypeOK
  PROVE  /\ backend \in {"nccl", "oneccl", "mpi"} /\ phasePass \in BOOLEAN
         /\ pc \in [PE -> PC] /\ side \in [PE -> 1 .. Len(Sides)] /\ phase \in [PE -> 1 .. 4]
         /\ step \in [PE -> 1 .. StepsPerSide * Len(Sides)] /\ step \in [PE -> Nat \ {0}]
         /\ queue \in [PE -> Seq(Op)] /\ moved \in [PE -> SUBSET Move]
         /\ send \in [PE -> [Dir -> Column]] /\ recv \in [PE -> [Dir -> Column]]
         /\ ghost \in [PE -> [Dir -> Column]]
         /\ partial \in [PE -> Nat] /\ result \in [PE -> [PE -> Nat]] /\ Done \in Nat
<1>1. StepsPerSide * Len(Sides) \in Nat
  BY Constants, PerPass, SMT
<1>2. 1 .. StepsPerSide * Len(Sides) \subseteq Nat \ {0}
  BY <1>1, SMT
<1>3. \A f \in [PE -> 1 .. StepsPerSide * Len(Sides)] : f \in [PE -> Nat \ {0}]
  BY <1>2
<1>4. result \in [PE -> [PE -> Nat]] /\ 0 \in PE
  BY Constants DEF TypeOK
<1> QED
  BY <1>3, <1>4 DEF TypeOK, Done

(* Where a host is in its side.                                            *)
LEMMA Here ==
  ASSUME TypeOK, Places, NEW p \in PE
  PROVE  /\ Base(p) \in Nat /\ step[p] \in Nat \ {0} /\ phase[p] \in 1 .. 4
         /\ InSide(p) \in 1 .. StepsPerSide
         /\ step[p] = Base(p) + InSide(p)
         /\ StepOfSide(step[p]) = InSide(p)
         /\ LastOfSide(step[p]) <=> InSide(p) = StepsPerSide
         /\ LastOfPass(step[p]) <=> InSide(p) \in {StepsPerPass, StepsPerSide}
         /\ Pass(step[p]) = "headline" <=> InSide(p) <= StepsPerPass
         /\ LastOfPass(step[p]) => Pass(step[p]) # "phaseWarmup"
<1>1. /\ side[p] - 1 \in Nat /\ StepsPerSide \in Nat \ {0} /\ InSide(p) \in 1 .. StepsPerSide
      /\ step[p] \in Nat \ {0} /\ phase[p] \in 1 .. 4
  <2>1. side[p] \in 1 .. Len(Sides) /\ Len(Sides) \in Nat /\ step[p] \in Nat \ {0} /\ phase[p] \in 1 .. 4
    BY Types, Constants
  <2>2. side[p] - 1 \in Nat
    BY <2>1, SMT
  <2> QED
    BY <2>1, <2>2, PerPass DEF Places
<1>2. Base(p) \in Nat
  <2>1. \A k \in Nat : k * StepsPerSide \in Nat
    BY <1>1, SMT
  <2> QED
    BY <1>1, <2>1 DEF Base
<1>3. step[p] = Base(p) + InSide(p)
  <2>1. step[p] = Base(p) + (step[p] - Base(p))
    BY <1>1, <1>2, SMT
  <2> QED
    BY <2>1 DEF InSide
<1> DEFINE k == side[p] - 1
<1>4. LET s == k * StepsPerSide + InSide(p)
      IN  /\ StepOfSide(s) = InSide(p)
          /\ LastOfSide(s) <=> InSide(p) = StepsPerSide
          /\ LastOfPass(s) <=> InSide(p) \in {StepsPerPass, StepsPerSide}
  <2> HIDE DEF k
  <2>1. k \in Nat
    BY <1>1 DEF k
  <2> QED
    BY <1>1, <2>1, OfSide
<1>5. step[p] = k * StepsPerSide + InSide(p)
  BY <1>3 DEF Base
<1> HIDE DEF k
<1>6. /\ StepOfSide(step[p]) = InSide(p)
      /\ LastOfSide(step[p]) <=> InSide(p) = StepsPerSide
      /\ LastOfPass(step[p]) <=> InSide(p) \in {StepsPerPass, StepsPerSide}
  BY <1>4, <1>5
<1>7. Pass(step[p]) = "headline" <=> InSide(p) <= StepsPerPass
  BY <1>6 DEF Pass
<1>8. LastOfPass(step[p]) => Pass(step[p]) # "phaseWarmup"
  <2>1. InSide(p) = StepsPerSide => InSide(p) <= StepsPerPass \/ InSide(p) > StepsPerPass + Warmup
    BY PerPass, Constants, SMT DEF StepsPerPass
  <2>2. InSide(p) = StepsPerPass => InSide(p) <= StepsPerPass
    BY <1>1, PerPass, SMT
  <2> QED
    BY <1>1, <1>6, <2>1, <2>2, PerPass, Constants, SMT DEF Pass
<1> QED
  BY <1>1, <1>2, <1>3, <1>6, <1>7, <1>8

-----------------------------------------------------------------------------
(* The operations of a phase.                                              *)

LEMMA Halos ==
  ASSUME NEW p \in PE
  PROVE  /\ Len(HaloGroup(p)) = 1 /\ DOMAIN HaloGroup(p) = {1}
         /\ HaloGroup(p)[1] \subseteq Move
         /\ Len(HaloShifts(p)) = 2 /\ DOMAIN HaloShifts(p) = {1, 2}
         /\ HaloShifts(p)[1] \subseteq Move /\ HaloShifts(p)[2] \subseteq Move
         /\ \A d \in Dir : HasNeighbour(p, d) => <<"in", d>> \in HaloGroup(p)[1]
         /\ HasNeighbour(p, "east") => <<"in", "east">> \in HaloShifts(p)[1]
         /\ HasNeighbour(p, "west") => <<"in", "west">> \in HaloShifts(p)[2]
<1> DEFINE g == {m \in Move : HasNeighbour(p, m[2])}
           w == {m \in {<<"out", "west">>, <<"in", "east">>} : HasNeighbour(p, m[2])}
           e == {m \in {<<"out", "east">>, <<"in", "west">>} : HasNeighbour(p, m[2])}
<1>1. HaloGroup(p) = <<g>>
  BY DEF HaloGroup
<1>2. HaloShifts(p) = <<w, e>>
  BY DEF HaloShifts, Opposite
<1>3. g \subseteq Move /\ w \subseteq Move /\ e \subseteq Move
  BY DEF Move, Dir
<1>4. \A d \in Dir : HasNeighbour(p, d) => <<"in", d>> \in g
  BY DEF Move
<1>5. HasNeighbour(p, "east") => <<"in", "east">> \in w
  OBVIOUS
<1>6. HasNeighbour(p, "west") => <<"in", "west">> \in e
  OBVIOUS
<1> HIDE DEF g, w, e
<1>7. /\ Len(HaloGroup(p)) = 1 /\ DOMAIN HaloGroup(p) = {1} /\ HaloGroup(p)[1] = g
      /\ Len(HaloShifts(p)) = 2 /\ DOMAIN HaloShifts(p) = {1, 2}
      /\ HaloShifts(p)[1] = w /\ HaloShifts(p)[2] = e
  BY <1>1, <1>2
<1> QED
  BY <1>3, <1>4, <1>5, <1>6, <1>7

LEMMA OpsOf ==
  ASSUME TypeOK, NEW p \in PE
  PROVE  /\ Ops(p) \in Seq(Op) /\ Len(Ops(p)) \in {1, 2}
         /\ \A i \in 1 .. Len(Ops(p)) : /\ Ops(p)[i] \in Op
                                        /\ Ops(p)[i].phase = phase[p] /\ Ops(p)[i].step = step[p]
         /\ phase[p] # 2 => Len(Ops(p)) = 1 /\ Ops(p)[1].moves = {}
         /\ phase[p] = 2 /\ backend # "mpi" =>
              Len(Ops(p)) = 1 /\ Ops(p)[1].moves = HaloGroup(p)[1]
         /\ phase[p] = 2 /\ backend = "mpi" =>
              /\ Len(Ops(p)) = 2 /\ Ops(p)[1].moves = HaloShifts(p)[1]
              /\ Ops(p)[2].moves = HaloShifts(p)[2]
<1> DEFINE op(m) == [phase |-> phase[p], step |-> step[p], moves |-> m]
<1>1. phase[p] \in 1 .. 4 /\ step[p] \in Nat
  BY Types
<1>2. Phases[phase[p]] = "halo" <=> phase[p] = 2
  BY <1>1 DEF Phases
<1>3. \A m \in SUBSET Move : op(m) \in Op /\ op(m).phase = phase[p] /\ op(m).step = step[p]
                             /\ op(m).moves = m
  BY <1>1 DEF Op
<1>4. CASE phase[p] # 2
  <2>1. Ops(p) = <<op({})>>
    BY <1>2, <1>4 DEF Ops
  <2>2. op({}) \in Op /\ op({}).phase = phase[p] /\ op({}).step = step[p] /\ op({}).moves = {}
    BY <1>3
  <2> HIDE DEF op
  <2>3. Ops(p) \in Seq(Op) /\ Len(Ops(p)) = 1 /\ Ops(p)[1] = op({}) /\ \A i \in 1 .. Len(Ops(p)) : i = 1
    BY <2>1, <2>2
  <2> QED
    BY <1>4, <2>2, <2>3
<1>5. CASE phase[p] = 2 /\ backend # "mpi"
  <2> DEFINE h == HaloGroup(p)
  <2>1. Ops(p) = [i \in DOMAIN h |-> op(h[i])]
    BY <1>2, <1>5 DEF Ops
  <2>2. DOMAIN h = {1} /\ h[1] \in SUBSET Move
    BY Halos
  <2>3. op(h[1]) \in Op /\ op(h[1]).phase = phase[p] /\ op(h[1]).step = step[p] /\ op(h[1]).moves = h[1]
    BY <1>3, <2>2
  <2> HIDE DEF h, op
  <2>4. Ops(p) = [i \in 1 .. 1 |-> op(h[i])]
    BY <2>1, <2>2
  <2>5. Ops(p) \in Seq(Op) /\ Len(Ops(p)) = 1 /\ Ops(p)[1] = op(h[1]) /\ \A i \in 1 .. Len(Ops(p)) : i = 1
    <3>1. \A i \in 1 .. 1 : i = 1
      BY SMT
    <3>2. \A i \in 1 .. 1 : op(h[i]) \in Op
      BY <2>3, <3>1
    <3>3. Ops(p) \in Seq(Op) /\ Len(Ops(p)) = 1
      BY <2>4, <3>2
    <3> QED
      BY <2>4, <3>1, <3>3
  <2> QED
    BY <1>5, <2>3, <2>5 DEF h
<1>6. CASE phase[p] = 2 /\ backend = "mpi"
  <2> DEFINE h == HaloShifts(p)
  <2>1. Ops(p) = [i \in DOMAIN h |-> op(h[i])]
    BY <1>2, <1>6 DEF Ops
  <2>2. DOMAIN h = {1, 2} /\ h[1] \in SUBSET Move /\ h[2] \in SUBSET Move
    BY Halos
  <2>3. /\ op(h[1]) \in Op /\ op(h[1]).phase = phase[p] /\ op(h[1]).step = step[p] /\ op(h[1]).moves = h[1]
        /\ op(h[2]) \in Op /\ op(h[2]).phase = phase[p] /\ op(h[2]).step = step[p] /\ op(h[2]).moves = h[2]
    BY <1>3, <2>2
  <2> HIDE DEF h, op
  <2>4. 1 .. 2 = {1, 2} /\ \A i \in 1 .. 2 : i = 1 \/ i = 2
    BY SMT
  <2>5. Ops(p) = [i \in 1 .. 2 |-> op(h[i])]
    BY <2>1, <2>2, <2>4
  <2>6. \A i \in 1 .. 2 : op(h[i]) \in Op
    BY <2>3, <2>4
  <2>7. Ops(p) \in Seq(Op) /\ Len(Ops(p)) = 2
    BY <2>5, <2>6
  <2>8. Ops(p)[1] = op(h[1]) /\ Ops(p)[2] = op(h[2])
    BY <2>4, <2>5
  <2> QED
    BY <1>6, <2>3, <2>4, <2>7, <2>8 DEF h
<1> QED
  BY <1>4, <1>5, <1>6

-----------------------------------------------------------------------------
(* The streams.                                                            *)

LEMMA IssuedType ==
  ASSUME TypeOK, NEW p \in PE
  PROVE  Issued(p) \in Nat
<1>1. phase[p] \in 1 .. 4 /\ step[p] \in Nat \ {0}
  BY Types
<1>2. /\ 4 * (step[p] - 1) \in Nat /\ 4 * (step[p] - 1) + (phase[p] - 1) \in Nat
      /\ 4 * (step[p] - 1) + phase[p] \in Nat /\ 4 * step[p] \in Nat
  BY <1>1, SMT
<1> QED
  BY <1>2 DEF Issued

(* The operation at the head of a stream belongs to the step that is not   *)
(* reduced yet.                                                            *)
LEMMA AtHead ==
  ASSUME TypeOK, Places, InStep, NEW p \in PE
  PROVE  /\ Stage(p) \in 1 .. 4
         /\ queue[p] # <<>> =>
              /\ pc[p] \in {"issue", "sync"}
              /\ Len(queue[p]) \in Nat \ {0} /\ queue[p] \in Seq(Op)
              /\ Head(queue[p]) = queue[p][1] /\ Head(queue[p]) \in Op
              /\ Head(queue[p]).step = Done + 1 /\ Head(queue[p]).phase = Stage(p)
         /\ HeadIs(p, "pack") <=> queue[p] # <<>> /\ Stage(p) = 1
         /\ HeadIs(p, "halo") <=> queue[p] # <<>> /\ Stage(p) = 2
         /\ HeadIs(p, "compute") <=> queue[p] # <<>> /\ Stage(p) = 3
         /\ HeadIs(p, "reduce") <=> queue[p] # <<>> /\ Stage(p) = 4
<1>1. Stage(p) \in 1 .. 4 /\ Done \in Nat
  BY Types DEF InStep
<1>2. ASSUME queue[p] # <<>>
      PROVE  /\ pc[p] \in {"issue", "sync"}
             /\ Len(queue[p]) \in Nat \ {0} /\ queue[p] \in Seq(Op)
             /\ Head(queue[p]) = queue[p][1] /\ Head(queue[p]) \in Op
             /\ Head(queue[p]).step = Done + 1 /\ Head(queue[p]).phase = Stage(p)
  <2>1. pc[p] \in {"issue", "sync"}
    BY <1>2 DEF Places
  <2>2. queue[p] \in Seq(Op)
    BY Types
  <2>3. Len(queue[p]) \in Nat \ {0} /\ Head(queue[p]) = queue[p][1] /\ Head(queue[p]) \in Op
    BY <1>2, <2>2
  <2> DEFINE h == Head(queue[p])
  <2>4. h.phase \in 1 .. 4 /\ h.step \in Nat
    BY <2>3 DEF Op
  <2>5. Stage(p) = (4 * (h.step - 1) + h.phase) - 4 * Done
    BY <1>2 DEF Stage, Reached, Nth
  <2> HIDE DEF h
  <2>6. h.step = Done + 1 /\ h.phase = Stage(p)
    BY <1>1, <2>4, <2>5, SMT
  <2> QED
    BY <2>1, <2>2, <2>3, <2>6 DEF h
<1>3. \A n \in 1 .. 4 : /\ Phases[n] = "pack" <=> n = 1
                        /\ Phases[n] = "halo" <=> n = 2
                        /\ Phases[n] = "compute" <=> n = 3
                        /\ Phases[n] = "reduce" <=> n = 4
  BY DEF Phases
<1> QED
  BY <1>1, <1>2, <1>3 DEF HeadIs

HostsStand ==
  /\ backend' = backend /\ phasePass' = phasePass
  /\ pc' = pc /\ side' = side /\ step' = step /\ phase' = phase

(* Operations at the heads of streams are over.                            *)
LEMMA Popping ==
  ASSUME TypeOK, Together, Places, Streams, Drained, HostsStand,
         NEW S \in SUBSET PE, \A p \in S : queue[p] # <<>>,
         \A p \in PE : queue'[p] = IF p \in S THEN Tail(queue[p]) ELSE queue[p]
  PROVE  /\ Together' /\ Places' /\ Streams' /\ Drained'
         /\ \A p \in PE : queue'[p] \in Seq(Op) /\ Base(p)' = Base(p)
         /\ \A p \in S : queue'[p] = <<>> <=> Len(queue[p]) = 1
         /\ \A p \in S : backend = "mpi" /\ Len(queue[p]) = 2 =>
              Reached(p)' = Reached(p) /\ Len(queue'[p]) = 1
         /\ \A p \in S : ~(backend = "mpi" /\ Len(queue[p]) = 2) => Reached(p)' = Reached(p) + 1
         /\ \A p \in PE \ S : Reached(p)' = Reached(p)
<1>1. \A p \in PE : /\ Base(p)' = Base(p) /\ InSide(p)' = InSide(p) /\ Issued(p)' = Issued(p)
                    /\ Epoch(p)' = Epoch(p) /\ Syncs(p)' = Syncs(p)
  BY DEF HostsStand, Base, InSide, Issued, Epoch, Syncs, StepsPerSide, StepsPerPass, Pass, StepOfSide
<1>2. StepsPerSide' = StepsPerSide /\ StepsPerPass' = StepsPerPass
  BY DEF HostsStand, StepsPerSide, StepsPerPass
<1>3. Together'
  BY <1>1 DEF Together, HostsStand
<1>4. ASSUME NEW p \in S
      PROVE  /\ queue[p] \in Seq(Op) /\ queue'[p] = Tail(queue[p]) /\ queue'[p] \in Seq(Op)
             /\ Len(queue[p]) \in Nat \ {0} /\ Len(queue'[p]) = Len(queue[p]) - 1
             /\ \A i \in 1 .. Len(queue'[p]) : queue'[p][i] = queue[p][i + 1] /\ i + 1 \in 1 .. Len(queue[p])
             /\ queue'[p] = <<>> <=> Len(queue[p]) = 1
             /\ queue'[p] # <<>> => Head(queue'[p]) = queue[p][2] /\ 2 \in 1 .. Len(queue[p])
             /\ Head(queue[p]) = queue[p][1] /\ 1 \in 1 .. Len(queue[p])
  <2>1. queue[p] \in Seq(Op) /\ queue'[p] = Tail(queue[p]) /\ queue[p] # <<>>
    BY <1>4, Types
  <2> DEFINE s == queue[p]
  <2>2. s \in Seq(Op) /\ s # <<>> /\ queue'[p] = Tail(s)
    BY <2>1
  <2> HIDE DEF s
  <2>3. /\ Len(s) \in Nat \ {0} /\ Tail(s) \in Seq(Op) /\ Len(Tail(s)) = Len(s) - 1
        /\ Head(s) = s[1]
    BY <2>2
  <2>4. \A i \in 1 .. Len(Tail(s)) : Tail(s)[i] = s[i + 1] /\ i + 1 \in 1 .. Len(s)
    BY <2>2, <2>3
  <2>5. Tail(s) = <<>> <=> Len(s) = 1
    <3>1. \A t \in Seq(Op) : t = <<>> <=> Len(t) = 0
      OBVIOUS
    <3>2. Tail(s) = <<>> <=> Len(Tail(s)) = 0
      BY <2>3, <3>1
    <3> QED
      BY <2>3, <3>2
  <2>6. Tail(s) # <<>> => Head(Tail(s)) = s[2] /\ 2 \in 1 .. Len(s)
    BY <2>2, <2>3, <2>4, <2>5
  <2>7. 1 \in 1 .. Len(s)
    BY <2>3
  <2> QED
    BY <2>2, <2>3, <2>4, <2>5, <2>6, <2>7 DEF s
<1>5. \A p \in PE \ S : queue'[p] = queue[p] /\ queue[p] \in Seq(Op)
  BY Types
<1>6. Places'
  <2>1. \A p \in PE : pc[p] \notin {"issue", "sync"} => queue'[p] = <<>>
    BY <1>5 DEF Places
  <2>2. /\ pc' = pc /\ phase' = phase /\ phasePass' = phasePass
    BY DEF HostsStand
  <2> QED
    BY <1>1, <1>2, <2>1, <2>2 DEF Places
<1>7. Drained'
  <2>1. ASSUME NEW p \in PE, pc[p] \in {"issue", "sync"}, InSide(p) <= StepsPerPass
        PROVE  \A i \in 1 .. Len(queue'[p]) : queue'[p][i].step = step[p]
    <3>1. CASE p \in S
      BY <1>4, <2>1, <3>1 DEF Drained
    <3>2. CASE p \notin S
      BY <1>5, <2>1, <3>2 DEF Drained
    <3> QED
      BY <3>1, <3>2
  <2>2. pc' = pc /\ step' = step
    BY DEF HostsStand
  <2> QED
    BY <1>1, <1>2, <2>1, <2>2 DEF Drained
<1>8. \A p \in PE \ S : Reached(p)' = Reached(p)
  BY <1>1, <1>5 DEF Reached, Nth
<1>9. ASSUME NEW p \in S
      PROVE  /\ IF backend' = "mpi" THEN InPhase(p)' ELSE InOrder(p)'
             /\ backend = "mpi" /\ Len(queue[p]) = 2 =>
                  Reached(p)' = Reached(p) /\ Len(queue'[p]) = 1
             /\ ~(backend = "mpi" /\ Len(queue[p]) = 2) => Reached(p)' = Reached(p) + 1
  <2>1. CASE backend # "mpi"
    <3>1. InOrder(p) /\ backend' # "mpi"
      BY <1>9, <2>1 DEF Streams, HostsStand
    <3>2. \A i \in 1 .. Len(queue'[p]) :
            /\ Nth(queue'[p][i]) = Issued(p) - Len(queue'[p]) + i
            /\ queue'[p][i].moves = IF queue'[p][i].phase = 2 THEN HaloGroup(p)[1] ELSE {}
      <4> SUFFICES ASSUME NEW i \in 1 .. Len(queue'[p])
                   PROVE  /\ Nth(queue'[p][i]) = Issued(p) - Len(queue'[p]) + i
                          /\ queue'[p][i].moves = IF queue'[p][i].phase = 2 THEN HaloGroup(p)[1] ELSE {}
        OBVIOUS
      <4>1. queue'[p][i] = queue[p][i + 1] /\ i + 1 \in 1 .. Len(queue[p])
        BY <1>9, <1>4
      <4>2. /\ Nth(queue[p][i + 1]) = Issued(p) - Len(queue[p]) + (i + 1)
            /\ queue[p][i + 1].moves = IF queue[p][i + 1].phase = 2 THEN HaloGroup(p)[1] ELSE {}
        BY <3>1, <4>1 DEF InOrder
      <4>3. Issued(p) - Len(queue[p]) + (i + 1) = Issued(p) - Len(queue'[p]) + i
        <5> DEFINE n == Issued(p)
                   l == Len(queue[p])
                   m == Len(queue'[p])
        <5>1. n \in Int /\ l \in Int /\ m = l - 1 /\ i \in Int
          BY <1>4, <1>9, IssuedType
        <5> HIDE DEF n, l, m
        <5>2. n - l + (i + 1) = n - m + i
          BY <5>1, SMT
        <5> QED
          BY <5>2 DEF n, l, m
      <4> QED
        BY <4>1, <4>2, <4>3
    <3>3. InOrder(p)'
      BY <1>1, <1>9, <3>2 DEF InOrder, Nth, HaloGroup
    <3>4. Reached(p) = Issued(p) - Len(queue[p]) + 1
      BY <1>4, <1>9, <3>1 DEF Reached, InOrder
    <3>5. Reached(p)' = Issued(p) - Len(queue'[p]) + 1
      <4>1. CASE queue'[p] = <<>>
        <5>1. Len(queue'[p]) = 0 /\ Issued(p) \in Nat
          BY <1>4, <1>9, <4>1, IssuedType
        <5> QED
          BY <1>1, <1>9, <4>1, <5>1, SMT DEF Reached
      <4>2. CASE queue'[p] # <<>>
        <5>1. Head(queue'[p]) = queue'[p][1] /\ 1 \in 1 .. Len(queue'[p])
          BY <1>4, <1>9, <4>2
        <5>2. Nth(queue'[p][1]) = Issued(p) - Len(queue'[p]) + 1
          BY <3>2, <5>1
        <5> QED
          BY <4>2, <5>1, <5>2 DEF Reached, Nth
      <4> QED
        BY <4>1, <4>2
    <3>6. Reached(p)' = Reached(p) + 1
      BY <1>4, <1>9, <3>4, <3>5, IssuedType, SMT
    <3> QED
      BY <2>1, <3>1, <3>3, <3>6
  <2>2. CASE backend = "mpi"
    <3>1. InPhase(p) /\ backend' = "mpi" /\ queue[p] # <<>> /\ step' = step /\ phase' = phase /\ pc' = pc
      BY <1>9, <2>2 DEF Streams, HostsStand
    <3>2. /\ pc[p] = "sync"
          /\ \A i \in 1 .. Len(queue[p]) : queue[p][i].step = step[p] /\ queue[p][i].phase = phase[p]
          /\ phase[p] # 2 => Len(queue[p]) = 1 /\ queue[p][1].moves = {}
          /\ phase[p] = 2 => /\ Len(queue[p]) \in {1, 2}
                             /\ queue[p][Len(queue[p])].moves = HaloShifts(p)[2]
                             /\ Len(queue[p]) = 2 => queue[p][1].moves = HaloShifts(p)[1]
      BY <3>1 DEF InPhase
    <3>3. Reached(p) = Issued(p) /\ Issued(p) \in Nat /\ Issued(p) = 4 * (step[p] - 1) + phase[p]
      BY <1>4, <1>9, <3>1, <3>2, IssuedType DEF Reached, Nth, Issued
    <3>4. CASE Len(queue[p]) = 1
      <4>1. queue'[p] = <<>>
        BY <1>4, <1>9, <3>4
      <4>2. InPhase(p)'
        BY <4>1 DEF InPhase
      <4>3. Reached(p)' = Issued(p) + 1
        BY <1>1, <1>9, <4>1 DEF Reached
      <4> QED
        BY <2>2, <3>1, <3>3, <3>4, <4>2, <4>3
    <3>5. CASE Len(queue[p]) = 2
      <4>1. phase[p] = 2 /\ 2 \in 1 .. Len(queue[p])
        BY <3>2, <3>5
      <4>2. Len(queue'[p]) = 1 /\ queue'[p][1] = queue[p][2] /\ queue'[p] # <<>> /\ Head(queue'[p]) = queue[p][2]
        <5>1. Len(queue'[p]) = 1 /\ queue'[p] # <<>> /\ 1 \in 1 .. Len(queue'[p])
          <6>1. Len(queue'[p]) = Len(queue[p]) - 1 /\ (queue'[p] = <<>> <=> Len(queue[p]) = 1)
            BY <1>4, <1>9
          <6> QED
            BY <3>5, <6>1
        <5>2. queue'[p][1] = queue[p][1 + 1]
          BY <1>4, <1>9, <5>1
        <5> QED
          BY <1>4, <1>9, <5>1, <5>2
      <4>3. queue[p][2].moves = HaloShifts(p)[2] /\ queue[p][2].step = step[p] /\ queue[p][2].phase = phase[p]
        BY <3>2, <3>5, <4>1
      <4>4. \A i \in 1 .. 1 : i = 1
        BY SMT
      <4>5. InPhase(p)'
        BY <3>1, <3>2, <4>1, <4>2, <4>3, <4>4 DEF InPhase, HaloShifts, Opposite
      <4>6. Reached(p)' = 4 * (step[p] - 1) + phase[p]
        BY <4>2, <4>3 DEF Reached, Nth
      <4> QED
        BY <2>2, <3>1, <3>3, <3>5, <4>2, <4>5, <4>6
    <3> QED
      BY <3>2, <3>4, <3>5
  <2> QED
    BY <2>1, <2>2
<1>10. Streams'
  <2>1. \A p \in PE \ S : IF backend' = "mpi" THEN InPhase(p)' ELSE InOrder(p)'
    <3>1. \A p \in PE \ S : InPhase(p)' <=> InPhase(p)
      BY <1>5 DEF InPhase, HostsStand, HaloShifts, Opposite
    <3>2. \A p \in PE \ S : InOrder(p)' <=> InOrder(p)
      BY <1>1, <1>5 DEF InOrder, Nth, HaloGroup
    <3> QED
      BY <3>1, <3>2 DEF Streams, HostsStand
  <2> QED
    BY <1>9, <2>1 DEF Streams
<1>11. \A p \in PE : queue'[p] \in Seq(Op)
  BY <1>4, <1>5
<1>12. \A p \in S : queue'[p] = <<>> <=> Len(queue[p]) = 1
  BY <1>4
<1> QED
  BY <1>1, <1>3, <1>6, <1>7, <1>8, <1>9, <1>10, <1>11, <1>12

-----------------------------------------------------------------------------
(* The device.                                                             *)

(* What a rank has in its buffers stays as it is when nothing of it moves. *)
LEMMA RankStill ==
  ASSUME HostsStand, Done' = Done, NEW q \in PE, queue'[q] = queue[q], moved'[q] = moved[q],
         send'[q] = send[q], recv'[q] = recv[q], ghost'[q] = ghost[q], partial'[q] = partial[q]
  PROVE  /\ Stage(q)' = Stage(q)
         /\ Columns(q) => Columns(q)'
         /\ Computed(q) => Computed(q)'
<1>1. Stage(q)' = Stage(q) /\ Base(q)' = Base(q)
  BY DEF HostsStand, Stage, Reached, Issued, Nth, Base, StepsPerSide, StepsPerPass
<1>2. \A h : HeadIs(q, h)' <=> HeadIs(q, h)
  BY DEF HeadIs
<1>3. \A d : Received(q, d)' <=> Received(q, d)
  BY <1>1, <1>2 DEF Received, HostsStand
<1>4. side'[q] = side[q] /\ pc'[q] = pc[q]
  BY DEF HostsStand
<1> QED
  BY <1>1, <1>2, <1>3, <1>4 DEF Columns, Computed

(* The kernels and the reduction are one operation, also with MPI.         *)
LEMMA OneUnlessHalo ==
  ASSUME TypeOK, Places, Streams, InStep, NEW p \in PE, queue[p] # <<>>
  PROVE  /\ Stage(p) # 2 => ~(backend = "mpi" /\ Len(queue[p]) = 2)
         /\ Stage(p) # 2 /\ backend = "mpi" => Len(queue[p]) = 1
         /\ Stage(p) = 2 /\ backend # "mpi" => Head(queue[p]).moves = HaloGroup(p)[1]
         /\ Stage(p) = 2 /\ backend = "mpi" =>
              \/ Len(queue[p]) = 1 /\ Head(queue[p]).moves = HaloShifts(p)[2]
              \/ Len(queue[p]) = 2 /\ Head(queue[p]).moves = HaloShifts(p)[1]
<1>1. /\ Head(queue[p]) = queue[p][1] /\ Head(queue[p]).phase = Stage(p) /\ Len(queue[p]) \in Nat \ {0}
  BY AtHead
<1>2. 1 \in 1 .. Len(queue[p])
  BY <1>1, SMT
<1>3. CASE backend = "mpi"
  <2>1. InPhase(p)
    BY <1>3 DEF Streams
  <2>2. /\ \A i \in 1 .. Len(queue[p]) : queue[p][i].phase = phase[p]
        /\ phase[p] # 2 => Len(queue[p]) = 1
        /\ phase[p] = 2 => /\ Len(queue[p]) \in {1, 2}
                           /\ queue[p][Len(queue[p])].moves = HaloShifts(p)[2]
                           /\ Len(queue[p]) = 2 => queue[p][1].moves = HaloShifts(p)[1]
    BY <2>1 DEF InPhase
  <2>3. phase[p] = Stage(p)
    BY <1>1, <1>2, <2>2
  <2>4. CASE Stage(p) # 2
    BY <2>2, <2>3, <2>4
  <2>5. CASE Stage(p) = 2 /\ Len(queue[p]) = 1
    BY <1>1, <1>3, <2>2, <2>3, <2>5
  <2>6. CASE Stage(p) = 2 /\ Len(queue[p]) = 2
    BY <1>1, <1>3, <2>2, <2>3, <2>6
  <2> QED
    BY <2>2, <2>3, <2>4, <2>5, <2>6
<1>4. CASE backend # "mpi"
  <2>1. InOrder(p)
    BY <1>4 DEF Streams
  <2> QED
    BY <1>1, <1>2, <1>4, <2>1 DEF InOrder
<1> QED
  BY <1>3, <1>4

(* No other device comes to another phase.                                 *)
OthersStay(p) == \A q \in PE \ {p} : Stage(q)' = Stage(q)

LEMMA PackStep ==
  ASSUME IInv, NEW p \in PE, Pack(p)
  PROVE  IInv' /\ Stage(p) = 1 /\ Stage(p)' = 2 /\ OthersStay(p)
<1>1. /\ TypeOK /\ Together /\ Places /\ Streams /\ Drained /\ InStep /\ Buffers
      /\ Columns(p) /\ Computed(p)
  BY DEF IInv, Buffers
<1>2. /\ queue[p] # <<>> /\ Stage(p) = 1 /\ Head(queue[p]).step = Done + 1
      /\ ~HeadIs(p, "halo") /\ Done \in Nat
  BY <1>1, AtHead, Types DEF Pack
<1>3. side[p] \in 1 .. Len(Sides) /\ OwnsColumns(p, side[p])
  BY <1>1, Types, Slabs DEF OwnsColumns
<1>4. /\ HostsStand /\ queue' = [queue EXCEPT ![p] = Tail(queue[p])]
      /\ send' = [send EXCEPT ![p] = Boundary(p, side[p], Done + 1)]
      /\ moved' = moved /\ recv' = recv /\ ghost' = ghost /\ partial' = partial /\ result' = result
  BY <1>2, <1>3 DEF Pack, Pop, HostsStand, run
<1>5. Done' = Done
  BY <1>4 DEF Done
<1>6. \A q \in PE : queue'[q] = IF q \in {p} THEN Tail(queue[q]) ELSE queue[q]
  BY <1>1, <1>4, Types
<1>7. /\ Together' /\ Places' /\ Streams' /\ Drained'
      /\ \A q \in PE : queue'[q] \in Seq(Op) /\ Base(q)' = Base(q)
      /\ Reached(p)' = Reached(p) + 1 /\ (queue'[p] = <<>> <=> Len(queue[p]) = 1)
      /\ \A q \in PE \ {p} : Reached(q)' = Reached(q)
  <2> DEFINE S == {p}
  <2>1. S \in SUBSET PE /\ \A q \in S : queue[q] # <<>>
    BY <1>2
  <2>2. \A q \in PE : queue'[q] = IF q \in S THEN Tail(queue[q]) ELSE queue[q]
    BY <1>6
  <2>3. p \in S /\ PE \ S = PE \ {p}
    OBVIOUS
  <2>4. ~(backend = "mpi" /\ Len(queue[p]) = 2)
    BY <1>1, <1>2, OneUnlessHalo
  <2> HIDE DEF S
  <2>5. /\ Together' /\ Places' /\ Streams' /\ Drained'
        /\ \A q \in PE : queue'[q] \in Seq(Op) /\ Base(q)' = Base(q)
        /\ \A q \in S : ~(backend = "mpi" /\ Len(queue[q]) = 2) => Reached(q)' = Reached(q) + 1
        /\ \A q \in S : queue'[q] = <<>> <=> Len(queue[q]) = 1
        /\ \A q \in PE \ S : Reached(q)' = Reached(q)
    BY <1>1, <1>4, <2>1, <2>2, Popping
  <2> QED
    BY <2>3, <2>4, <2>5
<1>8. TypeOK'
  <2>1. queue' \in [PE -> Seq(Op)]
    BY <1>1, <1>4, <1>7, Types
  <2>2. send' \in [PE -> [Dir -> Column]]
    BY <1>1, <1>2, <1>3, <1>4, ColumnTypes, Types
  <2>3. StepsPerSide' = StepsPerSide
    BY <1>4 DEF HostsStand, StepsPerSide, StepsPerPass
  <2> QED
    BY <1>1, <1>4, <2>1, <2>2, <2>3 DEF TypeOK, HostsStand
<1>9. Stage(p)' = 2 /\ \A q \in PE \ {p} : Stage(q)' = Stage(q)
  <2>1. Stage(p)' = (Reached(p) + 1) - 4 * Done /\ Reached(p) - 4 * Done = 1
    BY <1>2, <1>5, <1>7 DEF Stage
  <2>2. Reached(p) \in Int
    BY <1>1, <1>2, AtHead DEF Reached, Nth, Op
  <2> QED
    BY <1>2, <1>5, <1>7, <2>1, <2>2, SMT DEF Stage
<1>10. InStep'
  BY <1>1, <1>4, <1>5, <1>9 DEF InStep
<1>11. Columns(p)'
  <2>1. send'[p] = Boundary(p, side[p], Done + 1)
    BY <1>1, <1>4, Types
  <2>2. moved'[p] = {}
    BY <1>1, <1>2, <1>4 DEF Columns
  <2>3. \A d \in Dir : ~Received(p, d)'
    <3>1. HeadIs(p, "halo")' => ~(backend = "mpi" /\ Len(queue'[p]) = 1)
      <4>1. backend = "mpi" => queue'[p] = <<>>
        <5>1. backend = "mpi" => Len(queue[p]) = 1
          BY <1>1, <1>2, OneUnlessHalo
        <5> QED
          BY <1>7, <5>1
      <4> QED
        BY <4>1 DEF HeadIs
    <3> QED
      BY <1>4, <1>9, <2>2, <3>1 DEF Received, HostsStand
  <2> QED
    BY <1>1, <1>4, <1>5, <2>1, <2>2, <2>3 DEF Columns, HostsStand
<1>12. Computed(p)'
  BY <1>1, <1>2, <1>4, <1>5, <1>7, <1>9 DEF Computed, HostsStand
<1>13. \A q \in PE \ {p} : Columns(q)' /\ Computed(q)'
  <2>1. \A q \in PE \ {p} : queue'[q] = queue[q] /\ send'[q] = send[q] /\ Columns(q) /\ Computed(q)
    BY <1>1, <1>4, <1>6, Types DEF Buffers
  <2> QED
    BY <1>4, <1>5, <2>1, RankStill
<1> QED
  BY <1>7, <1>8, <1>10, <1>11, <1>12, <1>13, <1>2, <1>9 DEF IInv, Buffers, OthersStay

LEMMA ComputeStep ==
  ASSUME IInv, NEW p \in PE, Compute(p)
  PROVE  IInv' /\ Stage(p) = 3 /\ Stage(p)' = 4 /\ OthersStay(p)
<1>1. /\ TypeOK /\ Together /\ Places /\ Streams /\ Drained /\ InStep /\ Buffers
      /\ Columns(p) /\ Computed(p)
  BY DEF IInv, Buffers
<1>2. /\ queue[p] # <<>> /\ Stage(p) = 3 /\ Head(queue[p]).step = Done + 1
      /\ ~HeadIs(p, "halo") /\ Done \in Nat /\ pc[p] \in {"issue", "sync"}
  BY <1>1, AtHead, Types DEF Compute
<1>3. side[p] \in 1 .. Len(Sides) /\ OwnsColumns(p, side[p])
  BY <1>1, Types, Slabs DEF OwnsColumns
<1>4. /\ HostsStand /\ queue' = [queue EXCEPT ![p] = Tail(queue[p])]
      /\ ghost' = [ghost EXCEPT ![p] = recv[p]]
      /\ partial' = [partial EXCEPT ![p] = Done + 1]
      /\ moved' = moved /\ recv' = recv /\ send' = send /\ result' = result
  BY <1>2, <1>3 DEF Compute, Pop, HostsStand, run
<1>5. Done' = Done
  BY <1>4 DEF Done
<1>6. \A q \in PE : queue'[q] = IF q \in {p} THEN Tail(queue[q]) ELSE queue[q]
  BY <1>1, <1>4, Types
<1>7. /\ Together' /\ Places' /\ Streams' /\ Drained'
      /\ \A q \in PE : queue'[q] \in Seq(Op) /\ Base(q)' = Base(q)
      /\ Reached(p)' = Reached(p) + 1
      /\ \A q \in PE \ {p} : Reached(q)' = Reached(q)
  <2> DEFINE S == {p}
  <2>1. S \in SUBSET PE /\ \A q \in S : queue[q] # <<>>
    BY <1>2
  <2>2. \A q \in PE : queue'[q] = IF q \in S THEN Tail(queue[q]) ELSE queue[q]
    BY <1>6
  <2>3. p \in S /\ PE \ S = PE \ {p}
    OBVIOUS
  <2>4. ~(backend = "mpi" /\ Len(queue[p]) = 2)
    BY <1>1, <1>2, OneUnlessHalo
  <2> HIDE DEF S
  <2>5. /\ Together' /\ Places' /\ Streams' /\ Drained'
        /\ \A q \in PE : queue'[q] \in Seq(Op) /\ Base(q)' = Base(q)
        /\ \A q \in S : ~(backend = "mpi" /\ Len(queue[q]) = 2) => Reached(q)' = Reached(q) + 1
        /\ \A q \in PE \ S : Reached(q)' = Reached(q)
    BY <1>1, <1>4, <2>1, <2>2, Popping
  <2> QED
    BY <2>3, <2>4, <2>5
<1>8. TypeOK'
  <2>1. queue' \in [PE -> Seq(Op)]
    BY <1>1, <1>4, <1>7, Types
  <2>2. ghost' \in [PE -> [Dir -> Column]]
    BY <1>1, <1>4, Types
  <2>3. partial' \in [PE -> Nat]
    BY <1>1, <1>2, <1>4, Types
  <2>4. StepsPerSide' = StepsPerSide
    BY <1>4 DEF HostsStand, StepsPerSide, StepsPerPass
  <2> QED
    BY <1>1, <1>4, <2>1, <2>2, <2>3, <2>4 DEF TypeOK, HostsStand
<1>9. Stage(p)' = 4 /\ \A q \in PE \ {p} : Stage(q)' = Stage(q)
  <2>1. Stage(p)' = (Reached(p) + 1) - 4 * Done /\ Reached(p) - 4 * Done = 3
    BY <1>2, <1>5, <1>7 DEF Stage
  <2>2. Reached(p) \in Int
    BY <1>1, <1>2, AtHead DEF Reached, Nth, Op
  <2> QED
    BY <1>2, <1>5, <1>7, <2>1, <2>2, SMT DEF Stage
<1>10. InStep'
  BY <1>1, <1>4, <1>5, <1>9 DEF InStep
<1>11. Columns(p)'
  <2>1. moved'[p] = {}
    BY <1>1, <1>2, <1>4 DEF Columns
  <2>2. \A d \in Dir : Received(p, d)
    BY <1>2 DEF Received
  <2>3. send[p] = Boundary(p, side[p], Done + 1)
    BY <1>1, <1>2 DEF Columns
  <2> QED
    BY <1>1, <1>4, <1>5, <2>1, <2>2, <2>3 DEF Columns, HostsStand
<1>12. Computed(p)'
  <2>1. recv[p] = ExpectedGhosts(p, side[p], Done + 1)
    <3>1. recv[p] \in [Dir -> Column] /\ ExpectedGhosts(p, side[p], Done + 1) \in [Dir -> Column]
      BY <1>1, <1>2, <1>3, Types, ColumnTypes
    <3>2. ASSUME NEW d \in Dir
          PROVE  recv[p][d] = ExpectedGhosts(p, side[p], Done + 1)[d]
      <4>1. CASE HasNeighbour(p, d)
        BY <1>1, <1>2, <4>1 DEF Columns, Received
      <4>2. CASE ~HasNeighbour(p, d)
        BY <1>1, <1>2, <4>2 DEF Columns, ExpectedGhosts
      <4> QED
        BY <4>1, <4>2
    <3> QED
      BY <3>1, <3>2
  <2>2. ghost'[p] = recv[p] /\ partial'[p] = Done + 1
    BY <1>1, <1>4, Types
  <2> QED
    BY <1>4, <1>5, <1>9, <2>1, <2>2 DEF Computed, HostsStand
<1>13. \A q \in PE \ {p} : Columns(q)' /\ Computed(q)'
  <2>1. \A q \in PE \ {p} : /\ queue'[q] = queue[q] /\ ghost'[q] = ghost[q] /\ partial'[q] = partial[q]
                            /\ Columns(q) /\ Computed(q)
    BY <1>1, <1>4, <1>6, Types DEF Buffers
  <2> QED
    BY <1>4, <1>5, <2>1, RankStill
<1> QED
  BY <1>7, <1>8, <1>10, <1>11, <1>12, <1>13, <1>2, <1>9 DEF IInv, Buffers, OthersStay

LEMMA EndHaloStep ==
  ASSUME IInv, NEW p \in PE, EndHalo(p)
  PROVE  /\ IInv' /\ Stage(p) = 2 /\ OthersStay(p)
         /\ Stage(p)' = IF backend = "mpi" /\ Len(queue[p]) = 2 THEN 2 ELSE 3
         /\ backend = "mpi" /\ Len(queue[p]) = 2 => Len(queue'[p]) = 1
<1>1. /\ TypeOK /\ Together /\ Places /\ Streams /\ Drained /\ InStep /\ Buffers
      /\ Columns(p) /\ Computed(p)
  BY DEF IInv, Buffers
<1>2. /\ queue[p] # <<>> /\ Stage(p) = 2 /\ HeadIs(p, "halo")
      /\ Head(queue[p]).moves = moved[p] /\ Done \in Nat /\ pc[p] \in {"issue", "sync"}
  BY <1>1, AtHead, Types DEF EndHalo
<1>3. /\ HostsStand /\ queue' = [queue EXCEPT ![p] = Tail(queue[p])]
      /\ moved' = [moved EXCEPT ![p] = {}]
      /\ send' = send /\ recv' = recv /\ ghost' = ghost /\ partial' = partial /\ result' = result
  BY DEF EndHalo, Pop, HostsStand, run, data
<1>4. Done' = Done
  BY <1>3 DEF Done
<1>5. \A q \in PE : queue'[q] = IF q \in {p} THEN Tail(queue[q]) ELSE queue[q]
  BY <1>1, <1>3, Types
<1>6. /\ Together' /\ Places' /\ Streams' /\ Drained'
      /\ \A q \in PE : queue'[q] \in Seq(Op) /\ Base(q)' = Base(q)
      /\ backend = "mpi" /\ Len(queue[p]) = 2 => Reached(p)' = Reached(p) /\ Len(queue'[p]) = 1
      /\ ~(backend = "mpi" /\ Len(queue[p]) = 2) => Reached(p)' = Reached(p) + 1
      /\ \A q \in PE \ {p} : Reached(q)' = Reached(q)
  <2> DEFINE S == {p}
  <2>1. S \in SUBSET PE /\ \A q \in S : queue[q] # <<>>
    BY <1>2
  <2>2. \A q \in PE : queue'[q] = IF q \in S THEN Tail(queue[q]) ELSE queue[q]
    BY <1>5
  <2>3. p \in S /\ PE \ S = PE \ {p}
    OBVIOUS
  <2> HIDE DEF S
  <2>4. /\ Together' /\ Places' /\ Streams' /\ Drained'
        /\ \A q \in PE : queue'[q] \in Seq(Op) /\ Base(q)' = Base(q)
        /\ \A q \in S : backend = "mpi" /\ Len(queue[q]) = 2 =>
             Reached(q)' = Reached(q) /\ Len(queue'[q]) = 1
        /\ \A q \in S : ~(backend = "mpi" /\ Len(queue[q]) = 2) => Reached(q)' = Reached(q) + 1
        /\ \A q \in PE \ S : Reached(q)' = Reached(q)
    BY <1>1, <1>3, <2>1, <2>2, Popping
  <2> QED
    BY <2>3, <2>4
<1>7. TypeOK'
  <2>1. queue' \in [PE -> Seq(Op)]
    BY <1>1, <1>3, <1>6, Types
  <2>2. moved' \in [PE -> SUBSET Move]
    BY <1>1, <1>3, Types
  <2>3. StepsPerSide' = StepsPerSide
    BY <1>3 DEF HostsStand, StepsPerSide, StepsPerPass
  <2> QED
    BY <1>1, <1>3, <2>1, <2>2, <2>3 DEF TypeOK, HostsStand
<1>8. moved'[p] = {} /\ \A q \in PE \ {p} : moved'[q] = moved[q]
  BY <1>1, <1>3, Types
<1>9. Reached(p) \in Int /\ Reached(p) - 4 * Done = 2
  BY <1>1, <1>2, AtHead DEF Stage, Reached, Nth, Op
(* Every column that a finished group or shift is for has come.            *)
<1>10. ASSUME NEW d \in Dir, HasNeighbour(p, d),
              ~(backend = "mpi" /\ Len(queue[p]) = 2) \/ d = "east"
       PROVE  recv[p][d] = ExpectedGhosts(p, side[p], Done + 1)[d]
  <2>1. Received(p, d)
    <3>1. CASE backend # "mpi"
      <4>1. <<"in", d>> \in moved[p]
        BY <1>1, <1>2, <1>10, <3>1, OneUnlessHalo, Halos
      <4> QED
        BY <1>2, <4>1 DEF Received
    <3>2. CASE backend = "mpi" /\ Len(queue[p]) = 2
      <4>1. <<"in", "east">> \in moved[p]
        BY <1>1, <1>2, <1>10, <3>2, OneUnlessHalo, Halos
      <4> QED
        BY <1>2, <1>10, <3>2, <4>1 DEF Received
    <3>3. CASE backend = "mpi" /\ Len(queue[p]) # 2
      <4>1. Len(queue[p]) = 1 /\ moved[p] = HaloShifts(p)[2]
        BY <1>1, <1>2, <3>3, OneUnlessHalo
      <4>2. HasNeighbour(p, "west") => <<"in", "west">> \in moved[p]
        BY <4>1, Halos
      <4>3. d = "west" \/ d = "east"
        BY DEF Dir
      <4> QED
        BY <1>2, <1>10, <3>3, <4>1, <4>2, <4>3 DEF Received
    <3> QED
      BY <3>1, <3>2, <3>3
  <2> QED
    BY <1>1, <1>10, <2>1 DEF Columns
<1>11. /\ \A q \in PE \ {p} : Stage(q)' = Stage(q)
       /\ Stage(p)' = IF backend = "mpi" /\ Len(queue[p]) = 2 THEN 2 ELSE 3
  <2>1. Done \in Int
    BY <1>2
  <2>2. Stage(p)' = IF backend = "mpi" /\ Len(queue[p]) = 2
                    THEN Reached(p) - 4 * Done ELSE (Reached(p) + 1) - 4 * Done
    BY <1>4, <1>6 DEF Stage
  <2>3. (Reached(p) + 1) - 4 * Done = 3
    BY <1>9, <2>1, SMT
  <2> QED
    BY <1>4, <1>6, <1>9, <2>2, <2>3 DEF Stage
<1>12. InStep'
  BY <1>1, <1>3, <1>4, <1>11 DEF InStep
<1>13. Columns(p)'
  <2>1. ASSUME NEW d \in Dir, HasNeighbour(p, d), Received(p, d)'
        PROVE  recv[p][d] = ExpectedGhosts(p, side[p], Done + 1)[d]
    <3>1. CASE backend = "mpi" /\ Len(queue[p]) = 2
      <4>1. d = "east"
        BY <1>8, <1>11, <2>1, <3>1 DEF Received
      <4> QED
        BY <1>10, <2>1, <4>1
    <3>2. CASE ~(backend = "mpi" /\ Len(queue[p]) = 2)
      BY <1>10, <2>1, <3>2
    <3> QED
      BY <3>1, <3>2
  <2>2. send[p] = Boundary(p, side[p], Done + 1)
    BY <1>1, <1>2 DEF Columns
  <2> QED
    BY <1>1, <1>3, <1>4, <1>8, <2>1, <2>2 DEF Columns, HostsStand
<1>14. Computed(p)'
  BY <1>1, <1>2, <1>3, <1>4, <1>6, <1>11 DEF Computed, HostsStand
<1>15. \A q \in PE \ {p} : Columns(q)' /\ Computed(q)'
  <2>1. \A q \in PE \ {p} : queue'[q] = queue[q] /\ Columns(q) /\ Computed(q)
    BY <1>1, <1>5 DEF Buffers
  <2> QED
    BY <1>3, <1>4, <1>8, <2>1, RankStill
<1> QED
  BY <1>6, <1>7, <1>12, <1>13, <1>14, <1>15, <1>2, <1>11 DEF IInv, Buffers, OthersStay

LEMMA TransferStep ==
  ASSUME IInv, NEW p \in PE, NEW d \in Dir, Transfer(p, d)
  PROVE  IInv' /\ \A q \in PE : Stage(q)' = Stage(q)
<1> DEFINE q == Neighbour(p, d)
           e == Opposite(d)
<1>1. /\ TypeOK /\ Together /\ Places /\ Streams /\ Drained /\ InStep /\ Buffers
      /\ Columns(p) /\ Computed(p)
  BY DEF IInv, Buffers
<1>2. /\ q \in PE /\ q # p /\ e \in Dir /\ HasNeighbour(p, d) /\ HasNeighbour(q, e)
  BY Facings DEF Transfer
<1>3. /\ HeadIs(p, "halo") /\ <<"out", d>> \in Head(queue[p]).moves
      /\ HeadIs(q, "halo") /\ <<"in", e>> \in Head(queue[q]).moves
      /\ moved' = [moved EXCEPT ![p] = moved[p] \cup {<<"out", d>>},
                                ![q] = moved[q] \cup {<<"in", e>>}]
      /\ recv' = [recv EXCEPT ![q][e] = send[p][d]]
      /\ HostsStand
      /\ queue' = queue /\ send' = send /\ ghost' = ghost /\ partial' = partial /\ result' = result
  BY <1>2 DEF Transfer, HostsStand, run
<1>4. /\ moved'[p] = moved[p] \cup {<<"out", d>>} /\ moved'[q] = moved[q] \cup {<<"in", e>>}
      /\ \A r \in PE \ {p, q} : moved'[r] = moved[r]
      /\ \A r \in PE \ {q} : recv'[r] = recv[r]
      /\ recv'[q][e] = send[p][d]
      /\ \A c \in Dir \ {e} : recv'[q][c] = recv[q][c]
  <2>1. moved \in [PE -> SUBSET Move] /\ recv \in [PE -> [Dir -> Column]]
    BY <1>1, Types
  <2> HIDE DEF q, e
  <2>2. /\ moved'[p] = moved[p] \cup {<<"out", d>>} /\ moved'[q] = moved[q] \cup {<<"in", e>>}
        /\ \A r \in PE \ {p, q} : moved'[r] = moved[r]
    BY <1>2, <1>3, <2>1
  <2>3. /\ \A r \in PE \ {q} : recv'[r] = recv[r]
        /\ recv'[q][e] = send[p][d]
        /\ \A c \in Dir \ {e} : recv'[q][c] = recv[q][c]
    BY <1>2, <1>3, <2>1
  <2> QED
    BY <2>2, <2>3
<1> HIDE DEF q, e
<1>5. Done' = Done /\ Done \in Nat
  BY <1>1, <1>3, Types DEF Done
<1>6. /\ Together' /\ Places' /\ Streams' /\ Drained'
  <2> DEFINE S == {}
  <2>1. S \in SUBSET PE /\ \A r \in S : queue[r] # <<>>
    OBVIOUS
  <2>2. \A r \in PE : queue'[r] = IF r \in S THEN Tail(queue[r]) ELSE queue[r]
    BY <1>3
  <2> HIDE DEF S
  <2> QED
    BY <1>1, <1>3, <2>1, <2>2, Popping
<1>7. TypeOK'
  <2>1. moved' \in [PE -> SUBSET Move]
    <3>1. <<"out", d>> \in Move /\ <<"in", e>> \in Move
      BY <1>2 DEF Move
    <3> QED
      BY <1>1, <1>2, <1>3, <3>1, Types
  <2>2. recv' \in [PE -> [Dir -> Column]]
    <3>1. send[p][d] \in Column
      BY <1>1, Types
    <3> QED
      BY <1>1, <1>2, <1>3, <3>1, Types
  <2>3. StepsPerSide' = StepsPerSide
    BY <1>3 DEF HostsStand, StepsPerSide, StepsPerPass
  <2> QED
    BY <1>1, <1>3, <2>1, <2>2, <2>3 DEF TypeOK, HostsStand
<1>8. \A r \in PE : /\ Stage(r)' = Stage(r) /\ Base(r)' = Base(r)
                    /\ \A h : HeadIs(r, h)' <=> HeadIs(r, h)
  BY <1>3, <1>5 DEF HostsStand, Stage, Reached, Issued, Nth, Base, StepsPerSide, StepsPerPass, HeadIs
<1>9. InStep'
  BY <1>1, <1>3, <1>5, <1>8 DEF InStep
<1>10. send[p][d] = ExpectedGhosts(q, side[q], Done + 1)[e]
  <2>1. Stage(p) = 2 /\ side[p] = side[q] /\ side[p] \in 1 .. Len(Sides)
    BY <1>1, <1>2, <1>3, AtHead, Types DEF Together
  <2>2. send[p] = Boundary(p, side[p], Done + 1)
    BY <1>1, <2>1 DEF Columns
  <2>3. Done + 1 \in Nat
    BY <1>5
  <2> QED
    BY <1>2, <2>1, <2>2, <2>3, BoundariesFace DEF q, e
<1>11. Columns(p)'
  <2>1. \A c \in Dir : Received(p, c)' => Received(p, c)
    BY <1>3, <1>4, <1>8 DEF Received, HostsStand
  <2>2. recv'[p] = recv[p]
    BY <1>2, <1>4
  <2>3. moved'[p] \subseteq Head(queue[p]).moves
    BY <1>1, <1>3, <1>4 DEF Columns
  <2> QED
    BY <1>1, <1>3, <1>5, <1>8, <2>1, <2>2, <2>3 DEF Columns, HostsStand
<1>12. Columns(q)'
  <2>0. Columns(q)
    BY <1>1, <1>2 DEF Buffers
  <2>1. \A c \in Dir \ {e} : Received(q, c)' => Received(q, c)
    BY <1>3, <1>4, <1>8, <1>2 DEF Received, HostsStand
  <2>2. moved'[q] \subseteq Head(queue[q]).moves
    BY <1>3, <1>4, <2>0 DEF Columns
  <2>3. \A c \in Dir : HasNeighbour(q, c) /\ Received(q, c)' =>
          recv'[q][c] = ExpectedGhosts(q, side[q], Done + 1)[c]
    BY <1>4, <1>10, <2>0, <2>1 DEF Columns
  <2>4. \A c \in Dir : ~HasNeighbour(q, c) /\ pc[q] # "init" => recv'[q][c] = Zero
    BY <1>2, <1>4, <2>0 DEF Columns
  <2> QED
    BY <1>2, <1>3, <1>5, <1>8, <2>0, <2>2, <2>3, <2>4 DEF Columns, HostsStand
<1>13. \A r \in {p, q} : Computed(r)'
  <2>1. \A r \in {p, q} : Computed(r) /\ r \in PE
    BY <1>1, <1>2 DEF Buffers
  <2> QED
    BY <1>3, <1>5, <1>8, <2>1 DEF Computed, HostsStand
<1>14. \A r \in PE \ {p, q} : Columns(r)' /\ Computed(r)'
  <2>1. \A r \in PE \ {p, q} : Columns(r) /\ Computed(r) /\ recv'[r] = recv[r] /\ moved'[r] = moved[r]
    BY <1>1, <1>4 DEF Buffers
  <2> QED
    BY <1>3, <1>5, <2>1, RankStill
<1> QED
  BY <1>6, <1>7, <1>9, <1>11, <1>12, <1>13, <1>14, <1>8 DEF IInv, Buffers

LEMMA ReduceStep == ASSUME IInv, Reduce PROVE IInv' /\ \A p \in PE : Stage(p)' = 1
<1>1. /\ TypeOK /\ Together /\ Places /\ Streams /\ Drained /\ InStep /\ Buffers /\ 0 \in PE
  BY Constants DEF IInv
<1>2. \A p \in PE : /\ queue[p] # <<>> /\ Stage(p) = 4 /\ ~HeadIs(p, "halo")
                    /\ Columns(p) /\ Computed(p)
  BY <1>1, AtHead DEF Reduce, Buffers
<1>3. Done \in Nat
  BY <1>1, Types
<1>4. /\ HostsStand /\ queue' = [p \in PE |-> Tail(queue[p])] /\ result' = [p \in PE |-> partial]
      /\ moved' = moved /\ send' = send /\ recv' = recv /\ ghost' = ghost /\ partial' = partial
  BY DEF Reduce, HostsStand, run
<1>5. \A p \in PE : partial[p] = Done + 1
  BY <1>2 DEF Computed
<1>6. Done' = Done + 1 /\ \A p, q \in PE : result'[p][q] = Done + 1
  BY <1>1, <1>4, <1>5 DEF Done
<1>7. /\ Together' /\ Places' /\ Streams' /\ Drained'
      /\ \A p \in PE : /\ queue'[p] \in Seq(Op) /\ Base(p)' = Base(p) /\ Reached(p)' = Reached(p) + 1
                       /\ backend = "mpi" => queue'[p] = <<>>
  <2> DEFINE S == PE
  <2>1. S \in SUBSET PE /\ \A p \in S : queue[p] # <<>>
    BY <1>2
  <2>2. \A p \in PE : queue'[p] = IF p \in S THEN Tail(queue[p]) ELSE queue[p]
    BY <1>4
  <2>3. \A p \in PE : /\ ~(backend = "mpi" /\ Len(queue[p]) = 2)
                      /\ backend = "mpi" => Len(queue[p]) = 1
    BY <1>1, <1>2, OneUnlessHalo
  <2>4. \A p \in PE : p \in S
    OBVIOUS
  <2> HIDE DEF S
  <2>5. /\ Together' /\ Places' /\ Streams' /\ Drained'
        /\ \A p \in PE : queue'[p] \in Seq(Op) /\ Base(p)' = Base(p)
        /\ \A p \in S : queue'[p] = <<>> <=> Len(queue[p]) = 1
        /\ \A p \in S : ~(backend = "mpi" /\ Len(queue[p]) = 2) => Reached(p)' = Reached(p) + 1
    BY <1>1, <1>4, <2>1, <2>2, Popping
  <2> QED
    BY <2>3, <2>4, <2>5
<1>8. TypeOK'
  <2>1. queue' \in [PE -> Seq(Op)]
    BY <1>4, <1>7
  <2>2. result' \in [PE -> [PE -> Nat]]
    BY <1>1, <1>4, Types
  <2>3. StepsPerSide' = StepsPerSide
    BY <1>4 DEF HostsStand, StepsPerSide, StepsPerPass
  <2> QED
    BY <1>1, <1>4, <2>1, <2>2, <2>3 DEF TypeOK, HostsStand
<1>9. \A p \in PE : Stage(p)' = 1
  <2> SUFFICES ASSUME NEW p \in PE
               PROVE  Stage(p)' = 1
    OBVIOUS
  <2>1. Stage(p)' = (Reached(p) + 1) - 4 * (Done + 1) /\ Reached(p) - 4 * Done = 4
    BY <1>2, <1>6, <1>7 DEF Stage
  <2>2. Reached(p) \in Int
    BY <1>1, <1>2, AtHead DEF Reached, Nth, Op
  <2> QED
    BY <1>3, <2>1, <2>2, SMT
<1>10. InStep'
  BY <1>6, <1>9 DEF InStep
<1>11. ASSUME NEW p \in PE
       PROVE  Columns(p)' /\ Computed(p)'
  <2>1. moved'[p] = {} /\ recv'[p] = recv[p] /\ ghost'[p] = ghost[p]
    BY <1>2, <1>4 DEF Columns
  <2>2. \A d \in Dir : ~Received(p, d)'
    <3>1. HeadIs(p, "halo")' => backend # "mpi"
      BY <1>7 DEF HeadIs
    <3> QED
      BY <1>4, <1>9, <2>1, <3>1 DEF Received, HostsStand
  <2>3. Columns(p)'
    BY <1>2, <1>4, <1>9, <2>1, <2>2 DEF Columns, HostsStand
  <2>4. ghost[p] = ExpectedGhosts(p, side[p], Done + 1)
    BY <1>2 DEF Computed
  <2>5. Computed(p)'
    BY <1>4, <1>6, <1>9, <2>1, <2>4 DEF Computed, HostsStand
  <2> QED
    BY <2>3, <2>5
<1> QED
  BY <1>7, <1>8, <1>10, <1>11, <1>9 DEF IInv, Buffers

-----------------------------------------------------------------------------
(* The host.                                                               *)

LEMMA InitSideStep ==
  ASSUME IInv, NEW p \in PE, InitSide(p)
  PROVE  IInv' /\ \A q \in PE : Stage(q)' = Stage(q)
<1> DEFINE Z == [d \in Dir |-> Zero]
<1>1. /\ TypeOK /\ Together /\ Places /\ Streams /\ Drained /\ InStep /\ Buffers
      /\ Columns(p) /\ Computed(p) /\ Done \in Nat
  BY Types DEF IInv, Buffers
<1>2. /\ pc[p] = "init" /\ queue[p] = <<>>
      /\ pc' = [pc EXCEPT ![p] = "aligned"]
      /\ recv' = [recv EXCEPT ![p] = Z] /\ ghost' = [ghost EXCEPT ![p] = Z]
      /\ backend' = backend /\ phasePass' = phasePass /\ side' = side /\ step' = step /\ phase' = phase
      /\ queue' = queue /\ moved' = moved /\ send' = send /\ partial' = partial /\ result' = result
  BY DEF InitSide, run
<1>3. Z \in [Dir -> Column]
  BY <1>1, ColumnTypes, Types DEF Zero, Column
<1> HIDE DEF Z
<1>4. /\ pc'[p] = "aligned" /\ recv'[p] = Z /\ ghost'[p] = Z
      /\ \A q \in PE \ {p} : pc'[q] = pc[q] /\ recv'[q] = recv[q] /\ ghost'[q] = ghost[q]
  BY <1>1, <1>2, Types
<1>5. StepsPerSide' = StepsPerSide /\ StepsPerPass' = StepsPerPass /\ Done' = Done
  BY <1>2 DEF StepsPerSide, StepsPerPass, Done
<1>6. TypeOK'
  <2>1. recv' \in [PE -> [Dir -> Column]] /\ ghost' \in [PE -> [Dir -> Column]] /\ pc' \in [PE -> PC]
    BY <1>1, <1>2, <1>3, Types DEF PC
  <2> QED
    BY <1>1, <1>2, <1>5, <2>1 DEF TypeOK
<1>7. \A q \in PE : /\ Base(q)' = Base(q) /\ InSide(q)' = InSide(q)
                    /\ Issued(q)' = Issued(q) /\ Epoch(q)' = Epoch(q)
  <2>1. \A q \in PE : Base(q)' = Base(q) /\ InSide(q)' = InSide(q)
    BY <1>2, <1>5 DEF Base, InSide
  <2>2. Issued(p)' = Issued(p) /\ Epoch(p)' = Epoch(p)
    BY <1>2, <1>4 DEF Issued, Epoch
  <2>3. \A q \in PE \ {p} : Issued(q)' = Issued(q) /\ Epoch(q)' = Epoch(q)
    BY <1>2, <1>4, <1>5, <2>1 DEF Issued, Epoch
  <2> QED
    BY <2>1, <2>2, <2>3
<1>8. \A q \in PE : /\ Reached(q)' = Reached(q) /\ Stage(q)' = Stage(q)
                    /\ \A h : HeadIs(q, h)' <=> HeadIs(q, h)
  BY <1>2, <1>5, <1>7 DEF Reached, Stage, Nth, HeadIs
<1>9. Together'
  BY <1>1, <1>2, <1>7 DEF Together
<1>10. Places'
  <2>1. \A q \in PE : Syncs(q)' = Syncs(q)
    BY <1>2, <1>5 DEF Syncs, Pass, StepOfSide
  <2>2. ASSUME NEW q \in PE
        PROVE  /\ pc'[q] = pc[q] \/ (q = p /\ pc[q] = "init" /\ pc'[q] = "aligned")
    BY <1>2, <1>4
  <2> QED
    BY <1>1, <1>2, <1>5, <1>7, <2>1, <2>2 DEF Places
<1>11. Streams'
  <2>1. \A q \in PE : InOrder(q) => InOrder(q)'
    BY <1>2, <1>7 DEF InOrder, Nth
  <2>2. \A q \in PE : InPhase(q) => InPhase(q)'
    BY <1>2, <1>4 DEF InPhase
  <2> QED
    BY <1>1, <1>2, <2>1, <2>2 DEF Streams
<1>12. Drained'
  BY <1>1, <1>2, <1>4, <1>5, <1>7 DEF Drained
<1>13. InStep'
  BY <1>1, <1>2, <1>5, <1>8 DEF InStep
<1>14. Stage(p) = 1 /\ Done = Base(p)
  <2>1. InSide(p) = 1 /\ step[p] = Base(p) + InSide(p) /\ Base(p) \in Nat
    BY <1>1, <1>2, Here DEF Places
  <2>2. Issued(p) = 4 * (step[p] - 1)
    BY <1>2 DEF Issued
  <2>3. Stage(p) = (4 * (step[p] - 1) + 1) - 4 * Done
    BY <1>2, <2>2 DEF Stage, Reached
  <2>4. Stage(p) \in 1 .. 4
    BY <1>1 DEF InStep
  <2>5. step[p] - 1 = Base(p)
    BY <2>1, SMT
  <2>6. Stage(p) = (4 * Base(p) + 1) - 4 * Done
    BY <2>3, <2>5
  <2>7. Base(p) \in Nat /\ Done \in Nat
    BY <1>1, <2>1
  <2> HIDE DEF Base, Stage, Done
  <2> QED
    BY <2>4, <2>6, <2>7, SMT
<1>15. Columns(p)' /\ Computed(p)'
  <2>1. ~HeadIs(p, "halo")
    BY <1>2 DEF HeadIs
  <2>2. \A d \in Dir : ~Received(p, d)' /\ Z[d] = Zero
    BY <1>8, <1>14, <2>1 DEF Received, Z
  <2>3. Columns(p)'
    BY <1>1, <1>2, <1>4, <1>8, <1>14, <2>1, <2>2 DEF Columns
  <2>4. Computed(p)'
    BY <1>1, <1>5, <1>7, <1>8, <1>14, SMT DEF Computed
  <2> QED
    BY <2>3, <2>4
<1>16. ASSUME NEW q \in PE, q # p
       PROVE  Columns(q)' /\ Computed(q)'
  <2>1. Columns(q) /\ Computed(q) /\ pc'[q] = pc[q] /\ recv'[q] = recv[q] /\ ghost'[q] = ghost[q]
    BY <1>1, <1>4, <1>16 DEF Buffers
  <2>2. \A d \in Dir : Received(q, d)' <=> Received(q, d)
    BY <1>2, <1>8 DEF Received
  <2> QED
    BY <1>2, <1>5, <1>7, <1>8, <2>1, <2>2 DEF Columns, Computed
<1> QED
  BY <1>6, <1>9, <1>10, <1>11, <1>12, <1>13, <1>15, <1>16, <1>8 DEF IInv, Buffers

(* The next phase of the side, wherever the pass ends.                     *)
LEMMA Advancing ==
  ASSUME TypeOK, Places, NEW p \in PE, pc[p] \in {"issue", "sync"}, Advance(p),
         backend' = backend, phasePass' = phasePass, side' = side
  PROVE  /\ \A q \in PE \ {p} : pc'[q] = pc[q] /\ step'[q] = step[q] /\ phase'[q] = phase[q]
         /\ pc' \in [PE -> PC] /\ phase' \in [PE -> 1 .. 4]
         /\ step' \in [PE -> 1 .. StepsPerSide * Len(Sides)]
         /\ pc'[p] \in {"issue", "stats"} /\ phase'[p] \in 1 .. 4 /\ step'[p] \in Nat \ {0}
         /\ pc'[p] = "stats" => phase'[p] = 1 /\ InSide(p)' \in {StepsPerPass, StepsPerSide}
         /\ InSide(p)' \in 1 .. StepsPerSide
         /\ Issued(p)' = 4 * (step[p] - 1) + phase[p]
         /\ Epoch(p)' = Epoch(p)
         /\ InSide(p)' <= StepsPerPass => InSide(p) <= StepsPerPass
         /\ step'[p] = step[p] \/ phase[p] = 4
         /\ pc'[p] = "issue" => step'[p] = step[p] \/ step'[p] = step[p] + 1
         /\ \A q \in PE : Base(q)' = Base(q)
<1>1. /\ pc \in [PE -> PC] /\ step \in [PE -> Nat \ {0}] /\ phase \in [PE -> 1 .. 4]
      /\ step \in [PE -> 1 .. StepsPerSide * Len(Sides)]
      /\ StepsPerPass \in Nat \ {0} /\ StepsPerSide \in Nat \ {0}
      /\ StepsPerSide = StepsPerPass \/ StepsPerSide = 2 * StepsPerPass
  BY Types, PerPass
<1>2. StepsPerSide' = StepsPerSide /\ StepsPerPass' = StepsPerPass /\ \A q \in PE : Base(q)' = Base(q)
  BY DEF StepsPerSide, StepsPerPass, Base
<1>3. /\ Base(p) \in Nat /\ InSide(p) \in 1 .. StepsPerSide /\ step[p] = Base(p) + InSide(p)
      /\ phase[p] \in 1 .. 4 /\ step[p] \in Nat \ {0}
      /\ LastOfPass(step[p]) <=> InSide(p) \in {StepsPerPass, StepsPerSide}
      /\ LastOfPass(step[p]) => Pass(step[p]) # "phaseWarmup"
  BY Here
<1>4. phase' = [phase EXCEPT ![p] = IF phase[p] = 4 THEN 1 ELSE phase[p] + 1]
  BY DEF Advance
<1>5. phase' \in [PE -> 1 .. 4] /\ phase'[p] = (IF phase[p] = 4 THEN 1 ELSE phase[p] + 1)
      /\ \A q \in PE \ {p} : phase'[q] = phase[q]
  <2>1. (IF phase[p] = 4 THEN 1 ELSE phase[p] + 1) \in 1 .. 4
    BY <1>3, SMT
  <2> QED
    BY <1>1, <1>4, <2>1
<1>6. InSide(p)' = step'[p] - Base(p)
  BY <1>2 DEF InSide
<1>7. CASE phase[p] = 4 /\ LastOfPass(step[p])
  <2>1. pc' = [pc EXCEPT ![p] = "stats"] /\ step' = step
    BY <1>3, <1>7 DEF Advance
  <2>2. pc'[p] = "stats" /\ pc' \in [PE -> PC] /\ \A q \in PE \ {p} : pc'[q] = pc[q]
    BY <1>1, <2>1 DEF PC
  <2>3. InSide(p)' = InSide(p)
    BY <1>6, <2>1 DEF InSide
  <2>4. Issued(p)' = 4 * step[p]
    BY <2>1, <2>2 DEF Issued
  <2>5. 4 * step[p] = 4 * (step[p] - 1) + phase[p]
    BY <1>3, <1>7, SMT
  <2>6. Epoch(p)' = Epoch(p)
    BY <1>2, <2>2, <2>3 DEF Epoch
  <2> QED
    BY <1>1, <1>2, <1>3, <1>5, <1>7, <2>1, <2>2, <2>3, <2>4, <2>5, <2>6
<1>8. CASE phase[p] = 4 /\ ~LastOfPass(step[p])
  <2>1. pc' = [pc EXCEPT ![p] = "issue"] /\ step' = [step EXCEPT ![p] = step[p] + 1]
    BY <1>8 DEF Advance
  <2>2. pc'[p] = "issue" /\ pc' \in [PE -> PC] /\ \A q \in PE \ {p} : pc'[q] = pc[q]
    BY <1>1, <2>1 DEF PC
  <2>3. step'[p] = step[p] + 1 /\ \A q \in PE \ {p} : step'[q] = step[q]
    BY <1>1, <2>1
  <2>4. InSide(p)' = InSide(p) + 1 /\ InSide(p) # StepsPerPass /\ InSide(p) # StepsPerSide
    BY <1>3, <1>6, <1>8, <2>3, SMT
  <2>5. /\ InSide(p)' \in 1 .. StepsPerSide
        /\ InSide(p)' <= StepsPerPass <=> InSide(p) <= StepsPerPass
    BY <1>1, <1>3, <2>4, SMT
  <2>6. step' \in [PE -> 1 .. StepsPerSide * Len(Sides)]
    <3>1. side[p] \in 1 .. Len(Sides) /\ Len(Sides) \in Nat
      BY Types, Constants
    <3>2. Base(p) + StepsPerSide <= StepsPerSide * Len(Sides)
      <4> DEFINE k == side[p]
                 M == StepsPerSide
                 L == Len(Sides)
      <4>1. k \in Nat /\ L \in Nat /\ k <= L /\ M \in Nat
        BY <1>1, <3>1
      <4> HIDE DEF k, M, L
      <4>2. (k - 1) * M + M = M * k
        BY <4>1, SMT
      <4>3. M * k <= M * L
        BY <4>1, SMT
      <4>4. (k - 1) * M + M <= M * L
        BY <4>2, <4>3
      <4> QED
        BY <4>4 DEF Base, k, M, L
    <3>3. StepsPerSide * Len(Sides) \in Nat
      BY <1>1, <3>1, SMT
    <3> DEFINE b == Base(p)
               t == StepsPerSide * Len(Sides)
    <3>4. b \in Nat /\ t \in Nat /\ b + StepsPerSide <= t
      BY <1>3, <3>2, <3>3
    <3> HIDE DEF b, t
    <3>5. step[p] + 1 \in 1 .. t
      <4>1. step[p] = b + InSide(p)
        BY <1>3 DEF b
      <4>2. InSide(p) + 1 <= StepsPerSide
        BY <1>1, <1>3, <2>4, SMT
      <4> QED
        BY <1>1, <1>3, <3>4, <4>1, <4>2, SMT
    <3> QED
      BY <1>1, <2>1, <3>5 DEF t
  <2>7. Issued(p)' = 4 * ((step[p] + 1) - 1) + (1 - 1)
    BY <1>5, <1>8, <2>2, <2>3 DEF Issued
  <2>8. 4 * ((step[p] + 1) - 1) + (1 - 1) = 4 * (step[p] - 1) + phase[p]
    BY <1>3, <1>8, SMT
  <2>9. Epoch(p)' = Epoch(p)
    BY <1>2, <2>2, <2>5 DEF Epoch
  <2>10. step'[p] \in Nat \ {0}
    BY <1>3, <2>3
  <2> QED
    BY <1>1, <1>2, <1>3, <1>5, <1>8, <2>2, <2>3, <2>5, <2>6, <2>7, <2>8, <2>9, <2>10
<1>9. CASE phase[p] # 4
  <2>1. pc' = [pc EXCEPT ![p] = "issue"] /\ step' = step
    BY <1>9 DEF Advance
  <2>2. pc'[p] = "issue" /\ pc' \in [PE -> PC] /\ \A q \in PE \ {p} : pc'[q] = pc[q]
    BY <1>1, <2>1 DEF PC
  <2>3. InSide(p)' = InSide(p)
    BY <1>6, <2>1 DEF InSide
  <2>4. Issued(p)' = 4 * (step[p] - 1) + ((phase[p] + 1) - 1)
    BY <1>5, <1>9, <2>1, <2>2 DEF Issued
  <2>5. (phase[p] + 1) - 1 = phase[p]
    BY <1>3, SMT
  <2>6. Epoch(p)' = Epoch(p)
    BY <1>2, <2>2, <2>3 DEF Epoch
  <2> QED
    BY <1>1, <1>2, <1>3, <1>5, <1>9, <2>1, <2>2, <2>3, <2>4, <2>5, <2>6
<1> QED
  BY <1>7, <1>8, <1>9

(* A rank whose host and stream stay as they are.                          *)
HostStands(q) ==
  /\ backend' = backend /\ phasePass' = phasePass /\ pc'[q] = pc[q] /\ side'[q] = side[q]
  /\ step'[q] = step[q] /\ phase'[q] = phase[q] /\ queue'[q] = queue[q]

LEMMA HostStill ==
  ASSUME NEW q, HostStands(q)
  PROVE  /\ StepsPerSide' = StepsPerSide /\ StepsPerPass' = StepsPerPass
         /\ Base(q)' = Base(q) /\ InSide(q)' = InSide(q) /\ Issued(q)' = Issued(q)
         /\ Epoch(q)' = Epoch(q) /\ Reached(q)' = Reached(q)
         /\ Syncs(q)' <=> Syncs(q)
         /\ InOrder(q) => InOrder(q)'
         /\ InPhase(q) => InPhase(q)'
         /\ \A h : HeadIs(q, h)' <=> HeadIs(q, h)
<1>1. StepsPerSide' = StepsPerSide /\ StepsPerPass' = StepsPerPass
  BY DEF HostStands, StepsPerSide, StepsPerPass
<1>2. Base(q)' = Base(q) /\ InSide(q)' = InSide(q)
  BY <1>1 DEF HostStands, Base, InSide
<1>3. Issued(q)' = Issued(q) /\ Epoch(q)' = Epoch(q)
  BY <1>1, <1>2 DEF HostStands, Issued, Epoch
<1>4. Reached(q)' = Reached(q)
  BY <1>3 DEF HostStands, Reached, Nth
<1>5. Syncs(q)' <=> Syncs(q)
  BY <1>1 DEF HostStands, Syncs, Pass, StepOfSide
<1>6. InOrder(q) => InOrder(q)'
  BY <1>3 DEF HostStands, InOrder, Nth
<1>7. InPhase(q) => InPhase(q)'
  BY DEF HostStands, InPhase
<1>8. \A h : HeadIs(q, h)' <=> HeadIs(q, h)
  BY DEF HostStands, HeadIs
<1> QED
  BY <1>1, <1>2, <1>3, <1>4, <1>5, <1>6, <1>7, <1>8

LEMMA BuffersStill ==
  ASSUME NEW q \in PE, HostStands(q), Done' = Done, moved' = moved, send' = send, recv' = recv,
         ghost' = ghost, partial' = partial
  PROVE  /\ Stage(q)' = Stage(q)
         /\ Columns(q) => Columns(q)'
         /\ Computed(q) => Computed(q)'
<1>1. Stage(q)' = Stage(q) /\ Base(q)' = Base(q) /\ \A h : HeadIs(q, h)' <=> HeadIs(q, h)
  BY HostStill DEF Stage
<1>2. /\ side'[q] = side[q] /\ pc'[q] = pc[q] /\ queue'[q] = queue[q] /\ backend' = backend
  BY DEF HostStands
<1>3. \A d : Received(q, d)' <=> Received(q, d)
  BY <1>1, <1>2 DEF Received
<1> QED
  BY <1>1, <1>2, <1>3 DEF Columns, Computed

LEMMA SyncStep ==
  ASSUME IInv, NEW p \in PE, Sync(p)
  PROVE  IInv' /\ \A q \in PE : Stage(q)' = Stage(q)
<1>1. /\ TypeOK /\ Together /\ Places /\ Streams /\ Drained /\ InStep /\ Buffers
      /\ Columns(p) /\ Computed(p)
  BY DEF IInv, Buffers
<1>2. /\ pc[p] = "sync" /\ queue[p] = <<>> /\ Advance(p)
      /\ backend' = backend /\ phasePass' = phasePass /\ side' = side /\ queue' = queue
      /\ moved' = moved /\ send' = send /\ recv' = recv /\ ghost' = ghost /\ partial' = partial
      /\ result' = result
  BY DEF Sync, run, data
<1>3. /\ \A q \in PE \ {p} : pc'[q] = pc[q] /\ step'[q] = step[q] /\ phase'[q] = phase[q]
      /\ pc' \in [PE -> PC] /\ phase' \in [PE -> 1 .. 4]
      /\ step' \in [PE -> 1 .. StepsPerSide * Len(Sides)]
      /\ pc'[p] \in {"issue", "stats"}
      /\ pc'[p] = "stats" => phase'[p] = 1 /\ InSide(p)' \in {StepsPerPass, StepsPerSide}
      /\ InSide(p)' \in 1 .. StepsPerSide
      /\ Issued(p)' = 4 * (step[p] - 1) + phase[p]
      /\ Epoch(p)' = Epoch(p)
      /\ \A q \in PE : Base(q)' = Base(q)
  BY <1>1, <1>2, Advancing
<1>4. StepsPerSide' = StepsPerSide /\ StepsPerPass' = StepsPerPass /\ Done' = Done
  BY <1>2 DEF StepsPerSide, StepsPerPass, Done
<1>5. \A q \in PE \ {p} : HostStands(q)
  BY <1>2, <1>3 DEF HostStands
<1>6. TypeOK'
  BY <1>1, <1>2, <1>3, <1>4 DEF TypeOK
<1>7. Issued(p)' = Issued(p)
  BY <1>2, <1>3 DEF Issued
<1>8. Together'
  <2>1. \A q \in PE : Epoch(q)' = Epoch(q)
    BY <1>3, <1>5, HostStill
  <2> QED
    BY <1>1, <1>2, <2>1 DEF Together
<1>9. Places'
  <2>1. \A q \in PE \ {p} : /\ InSide(q)' = InSide(q) /\ pc'[q] = pc[q] /\ phase'[q] = phase[q]
                            /\ Syncs(q)' <=> Syncs(q)
    BY <1>3, <1>5, HostStill
  <2> QED
    BY <1>1, <1>2, <1>3, <1>4, <2>1 DEF Places
<1>10. Streams'
  <2>1. InPhase(p)' /\ InOrder(p)'
    BY <1>2 DEF InPhase, InOrder
  <2>2. \A q \in PE \ {p} : (InPhase(q) => InPhase(q)') /\ (InOrder(q) => InOrder(q)')
    BY <1>5, HostStill
  <2> QED
    BY <1>1, <1>2, <2>1, <2>2 DEF Streams
<1>11. Drained'
  <2>1. \A q \in PE \ {p} : InSide(q)' = InSide(q) /\ pc'[q] = pc[q] /\ step'[q] = step[q]
    BY <1>3, <1>5, HostStill
  <2>2. \A i \in 1 .. Len(queue'[p]) : FALSE
    BY <1>2
  <2> QED
    BY <1>1, <1>2, <1>4, <2>1, <2>2 DEF Drained
<1>12. /\ \A q \in PE \ {p} : Stage(q)' = Stage(q) /\ Columns(q)' /\ Computed(q)'
  BY <1>1, <1>2, <1>4, <1>5, BuffersStill DEF Buffers
<1>13. Stage(p)' = Stage(p)
  BY <1>2, <1>4, <1>7 DEF Stage, Reached
<1>14. InStep'
  BY <1>1, <1>2, <1>4, <1>12, <1>13 DEF InStep
<1>15. Columns(p)' /\ Computed(p)'
  <2>1. ~HeadIs(p, "halo") /\ ~HeadIs(p, "halo")'
    BY <1>2 DEF HeadIs
  <2>2. \A d : Received(p, d)' <=> Received(p, d)
    BY <1>13, <2>1 DEF Received
  <2>3. pc[p] # "init" /\ pc'[p] # "init" /\ Base(p)' = Base(p)
    BY <1>2, <1>3
  <2> QED
    BY <1>1, <1>2, <1>4, <1>13, <2>1, <2>2, <2>3 DEF Columns, Computed
<1> QED
  BY <1>6, <1>8, <1>9, <1>10, <1>11, <1>12, <1>14, <1>15, <1>13 DEF IInv, Buffers

LEMMA IssueStep ==
  ASSUME IInv, NEW p \in PE, Issue(p)
  PROVE  IInv' /\ \A q \in PE : Stage(q)' = Stage(q)
<1> DEFINE s == queue[p]
           t == Ops(p)
<1>1. /\ TypeOK /\ Together /\ Places /\ Streams /\ Drained /\ InStep /\ Buffers
      /\ Columns(p) /\ Computed(p)
  BY DEF IInv, Buffers
<1>2. /\ pc[p] = "issue" /\ queue' = [queue EXCEPT ![p] = s \o t]
      /\ backend' = backend /\ phasePass' = phasePass /\ side' = side
      /\ moved' = moved /\ send' = send /\ recv' = recv /\ ghost' = ghost /\ partial' = partial
      /\ result' = result
  BY DEF Issue, run, data
<1>3. /\ phase[p] \in 1 .. 4 /\ step[p] \in Nat \ {0} /\ InSide(p) \in 1 .. StepsPerSide
      /\ Pass(step[p]) = "headline" <=> InSide(p) <= StepsPerPass
  BY <1>1, Here
<1>4. StepsPerSide' = StepsPerSide /\ StepsPerPass' = StepsPerPass /\ Done' = Done
      /\ \A q \in PE : Base(q)' = Base(q)
  BY <1>2 DEF StepsPerSide, StepsPerPass, Done, Base
(* Where the host goes.                                                    *)
<1>5. /\ \A q \in PE \ {p} : pc'[q] = pc[q] /\ step'[q] = step[q] /\ phase'[q] = phase[q]
      /\ pc' \in [PE -> PC] /\ phase' \in [PE -> 1 .. 4]
      /\ step' \in [PE -> 1 .. StepsPerSide * Len(Sides)]
      /\ pc'[p] \in {"issue", "sync"}
      /\ pc'[p] = "sync" => Syncs(p)' /\ step'[p] = step[p] /\ phase'[p] = phase[p]
      /\ InSide(p)' \in 1 .. StepsPerSide
      /\ Issued(p)' = 4 * (step[p] - 1) + phase[p]
      /\ Epoch(p)' = Epoch(p)
      /\ backend = "mpi" => pc'[p] = "sync"
      /\ InSide(p)' <= StepsPerPass => InSide(p) <= StepsPerPass /\ step'[p] = step[p]
  <2>1. CASE Syncs(p)
    <3>1. pc' = [pc EXCEPT ![p] = "sync"] /\ step' = step /\ phase' = phase
      BY <2>1 DEF Issue
    <3>2. pc'[p] = "sync" /\ pc' \in [PE -> PC] /\ \A q \in PE \ {p} : pc'[q] = pc[q]
      BY <1>1, <3>1, Types DEF PC
    <3>3. Syncs(p)'
      BY <1>2, <1>4, <2>1, <3>1 DEF Syncs, Pass, StepOfSide
    <3>4. InSide(p)' = InSide(p)
      BY <1>4, <3>1 DEF InSide
    <3>5. Issued(p)' = 4 * (step[p] - 1) + phase[p]
      BY <3>1, <3>2 DEF Issued
    <3>6. Epoch(p)' = Epoch(p)
      BY <1>2, <1>4, <3>2, <3>4 DEF Epoch
    <3> QED
      BY <1>1, <1>3, <3>1, <3>2, <3>3, <3>4, <3>5, <3>6, Types
  <2>2. CASE ~Syncs(p)
    <3>1. Advance(p)
      BY <2>2 DEF Issue
    <3>2. /\ \A q \in PE \ {p} : pc'[q] = pc[q] /\ step'[q] = step[q] /\ phase'[q] = phase[q]
          /\ pc' \in [PE -> PC] /\ phase' \in [PE -> 1 .. 4]
          /\ step' \in [PE -> 1 .. StepsPerSide * Len(Sides)]
          /\ pc'[p] \in {"issue", "stats"}
          /\ InSide(p)' \in 1 .. StepsPerSide
          /\ Issued(p)' = 4 * (step[p] - 1) + phase[p]
          /\ Epoch(p)' = Epoch(p)
          /\ InSide(p)' <= StepsPerPass => InSide(p) <= StepsPerPass
          /\ step'[p] = step[p] \/ phase[p] = 4
      BY <1>1, <1>2, <3>1, Advancing
    <3>3. /\ backend = "nccl" /\ ~(Pass(step[p]) = "headline" /\ phase[p] = 4)
          /\ Pass(step[p]) # "phaseTimed"
      BY <2>2 DEF Syncs
    <3>4. pc'[p] = "issue"
      <4>1. ~(phase[p] = 4 /\ LastOfPass(step[p]) /\ Pass(step[p]) # "phaseWarmup")
        BY <3>3 DEF Pass
      <4>2. pc' = [pc EXCEPT ![p] = "issue"]
        BY <3>1, <4>1 DEF Advance
      <4> QED
        BY <1>1, <4>2, Types
    <3>5. InSide(p)' <= StepsPerPass => InSide(p) <= StepsPerPass /\ step'[p] = step[p]
      BY <1>3, <3>2, <3>3
    <3> QED
      BY <3>2, <3>3, <3>4, <3>5
  <2> QED
    BY <2>1, <2>2
<1>6. \A q \in PE \ {p} : queue'[q] = queue[q] /\ HostStands(q)
  BY <1>1, <1>2, <1>5, Types DEF HostStands
(* What the stream of the rank has become.                                 *)
<1>7. /\ s \in Seq(Op) /\ t \in Seq(Op) /\ Len(t) \in {1, 2} /\ queue'[p] = s \o t
      /\ \A i \in 1 .. Len(t) : t[i] \in Op /\ t[i].phase = phase[p] /\ t[i].step = step[p]
      /\ phase[p] # 2 => Len(t) = 1 /\ t[1].moves = {}
      /\ phase[p] = 2 /\ backend # "mpi" => Len(t) = 1 /\ t[1].moves = HaloGroup(p)[1]
      /\ phase[p] = 2 /\ backend = "mpi" =>
           Len(t) = 2 /\ t[1].moves = HaloShifts(p)[1] /\ t[2].moves = HaloShifts(p)[2]
  <2>1. s \in Seq(Op)
    BY <1>1, Types
  <2>2. queue'[p] = s \o t
    BY <1>1, <1>2, Types
  <2> QED
    BY <1>1, <2>1, <2>2, OpsOf
<1> HIDE DEF s, t
<1>8. /\ s \o t \in Seq(Op) /\ Len(s \o t) = Len(s) + Len(t) /\ Len(s) \in Nat /\ s \o t # <<>>
      /\ \A i \in 1 .. Len(s) : (s \o t)[i] = s[i]
      /\ \A i \in 1 .. Len(t) : (s \o t)[Len(s) + i] = t[i]
      /\ s = <<>> => s \o t = t
      /\ Head(s \o t) = (s \o t)[1] /\ (s # <<>> => Head(s) = s[1])
      /\ s # <<>> => 1 \in 1 .. Len(s)
      /\ s = <<>> <=> Len(s) = 0
  <2>1. s \o t \in Seq(Op) /\ Len(s \o t) = Len(s) + Len(t) /\ Len(s) \in Nat
    BY <1>7
  <2>2. s \o t # <<>>
    BY <1>7, <2>1
  <2>3. \A i \in 1 .. Len(s) : (s \o t)[i] = s[i]
    BY <1>7
  <2>4. \A i \in 1 .. Len(t) : (s \o t)[Len(s) + i] = t[i]
    BY <1>7
  <2>5. s = <<>> => s \o t = t
    BY <1>7
  <2>6. Head(s \o t) = (s \o t)[1] /\ (s # <<>> => Head(s) = s[1])
    BY <1>7, <2>1, <2>2
  <2>7. s # <<>> => 1 \in 1 .. Len(s)
    BY <1>7
  <2>8. s = <<>> <=> Len(s) = 0
    BY <1>7
  <2> QED
    BY <2>1, <2>2, <2>3, <2>4, <2>5, <2>6, <2>7, <2>8
<1>9. /\ s # <<>> => Head(s \o t) = Head(s)
      /\ s = <<>> => Head(s \o t) = t[1]
      /\ t[1] \in Op /\ t[1].phase = phase[p] /\ t[1].step = step[p]
  <2>1. 1 \in 1 .. Len(t)
    BY <1>7, SMT
  <2> QED
    BY <1>7, <1>8, <2>1
<1>10. TypeOK'
  <2>1. queue' \in [PE -> Seq(Op)]
    BY <1>1, <1>2, <1>8, Types
  <2> QED
    BY <1>1, <1>2, <1>4, <1>5, <2>1 DEF TypeOK
<1>11. Together'
  <2>1. \A q \in PE : Epoch(q)' = Epoch(q)
    BY <1>5, <1>6, HostStill
  <2> QED
    BY <1>1, <1>2, <2>1 DEF Together
<1>12. Places'
  <2>1. \A q \in PE \ {p} : /\ InSide(q)' = InSide(q) /\ pc'[q] = pc[q] /\ phase'[q] = phase[q]
                            /\ Syncs(q)' <=> Syncs(q)
                            /\ queue'[q] = queue[q]
    BY <1>5, <1>6, HostStill
  <2> QED
    BY <1>1, <1>2, <1>4, <1>5, <2>1 DEF Places
<1>13. Issued(p) = 4 * (step[p] - 1) + (phase[p] - 1) /\ Issued(p)' = Issued(p) + 1 /\ Issued(p) \in Int
  <2> DEFINE k == step[p]
             n == phase[p]
  <2>1. Issued(p) = 4 * (k - 1) + (n - 1)
    BY <1>2 DEF Issued
  <2>2. k \in Nat /\ n \in Nat /\ Issued(p)' = 4 * (k - 1) + n
    BY <1>3, <1>5
  <2> HIDE DEF k, n
  <2>3. 4 * (k - 1) + n = (4 * (k - 1) + (n - 1)) + 1 /\ 4 * (k - 1) + (n - 1) \in Int
    BY <2>2, SMT
  <2> QED
    BY <2>1, <2>2, <2>3 DEF k, n
<1>13a. Nth(t[1]) = Issued(p) + 1
  BY <1>5, <1>9, <1>13 DEF Nth
<1>14. ASSUME backend = "mpi"
       PROVE  Streams' /\ (HeadIs(p, "halo")' => ~(Len(queue'[p]) = 1))
  <2>1. s = <<>>
    BY <1>1, <1>2, <1>14 DEF Streams, InPhase, s
  <2>2. queue'[p] = t /\ pc'[p] = "sync" /\ step'[p] = step[p] /\ phase'[p] = phase[p]
    BY <1>5, <1>7, <1>8, <1>14, <2>1
  <2>3. InPhase(p)'
    <3>1. Len(t) = 1 => t[Len(t)] = t[1]
      OBVIOUS
    <3>2. Len(t) = 2 => t[Len(t)] = t[2]
      OBVIOUS
    <3>3. /\ \A i \in 1 .. Len(t) : t[i].step = step[p] /\ t[i].phase = phase[p]
          /\ phase[p] # 2 => Len(t) = 1 /\ t[1].moves = {}
          /\ phase[p] = 2 => /\ Len(t) \in {1, 2}
                             /\ t[Len(t)].moves = HaloShifts(p)[2]
                             /\ Len(t) = 2 => t[1].moves = HaloShifts(p)[1]
      BY <1>7, <1>14, <3>2
    <3> QED
      BY <2>2, <3>3 DEF InPhase
  <2>4. Streams'
    <3>1. \A q \in PE \ {p} : InPhase(q)'
      BY <1>1, <1>6, <1>14, HostStill DEF Streams
    <3> QED
      BY <1>2, <1>14, <2>3, <3>1 DEF Streams
  <2>5. HeadIs(p, "halo")' => ~(Len(queue'[p]) = 1)
    <3>1. phase[p] # 2 => Phases[t[1].phase] # "halo"
      BY <1>3, <1>9 DEF Phases
    <3>2. Len(t) = 1 => phase[p] # 2
      BY <1>7, <1>14
    <3>3. Head(queue'[p]) = t[1]
      BY <1>7, <1>9, <2>1
    <3> QED
      BY <2>2, <3>1, <3>2, <3>3 DEF HeadIs
  <2> QED
    BY <2>4, <2>5
<1>15. ASSUME backend # "mpi"
       PROVE  Streams'
  <2>1. InOrder(p)'
    <3>1. Len(t) = 1
      BY <1>7, <1>15
    <3>2. t[1].moves = IF t[1].phase = 2 THEN HaloGroup(p)[1] ELSE {}
      BY <1>7, <1>9, <1>15
    <3>3. Nth(t[1]) = Issued(p) + 1
      BY <1>13a
    <3>4. ASSUME NEW i \in 1 .. Len(s \o t)
          PROVE  /\ Nth((s \o t)[i]) = (Issued(p) + 1) - Len(s \o t) + i
                 /\ (s \o t)[i].moves = IF (s \o t)[i].phase = 2 THEN HaloGroup(p)[1] ELSE {}
      <4>1. Len(s \o t) = Len(s) + 1
        BY <1>8, <3>1
      <4>2. i \in 1 .. Len(s) \/ i = Len(s) + 1
        BY <1>8, <3>4, <4>1, SMT
      <4>3. CASE i \in 1 .. Len(s)
        <5>1. /\ Nth(s[i]) = Issued(p) - Len(s) + i
              /\ s[i].moves = IF s[i].phase = 2 THEN HaloGroup(p)[1] ELSE {}
          BY <1>1, <1>15, <4>3 DEF Streams, InOrder, s
        <5>2. Issued(p) - Len(s) + i = (Issued(p) + 1) - (Len(s) + 1) + i
          BY <1>8, <1>13, <4>3, SMT
        <5>3. (s \o t)[i] = s[i]
          BY <1>8, <4>3
        <5> QED
          BY <4>1, <5>1, <5>2, <5>3
      <4>4. CASE i = Len(s) + 1
        <5>1. (s \o t)[i] = t[1]
          BY <1>8, <3>1, <4>4
        <5>2. (Issued(p) + 1) - (Len(s) + 1) + i = Issued(p) + 1
          BY <1>8, <1>13, <4>4, SMT
        <5> QED
          BY <3>2, <3>3, <4>1, <5>1, <5>2
      <4> QED
        BY <4>2, <4>3, <4>4
    <3> QED
      BY <1>7, <1>13, <3>4 DEF InOrder, Nth
  <2>2. Streams'
    <3>1. \A q \in PE \ {p} : InOrder(q)'
      BY <1>1, <1>6, <1>15, HostStill DEF Streams
    <3> QED
      BY <1>2, <1>15, <2>1, <3>1 DEF Streams
  <2> QED
    BY <2>2
<1>16. Drained'
  <2>1. ASSUME InSide(p)' <= StepsPerPass, NEW i \in 1 .. Len(s \o t)
        PROVE  (s \o t)[i].step = step'[p]
    <3>1. InSide(p) <= StepsPerPass /\ step'[p] = step[p]
      BY <1>5, <2>1
    <3>2. i \in 1 .. Len(s) \/ (i - Len(s) \in 1 .. Len(t) /\ Len(s) + (i - Len(s)) = i)
      BY <1>7, <1>8, SMT
    <3>3. CASE i \in 1 .. Len(s)
      <4>1. s[i].step = step[p]
        BY <1>1, <1>2, <3>1, <3>3 DEF Drained, s
      <4> QED
        BY <1>8, <3>1, <3>3, <4>1
    <3>4. CASE i - Len(s) \in 1 .. Len(t) /\ Len(s) + (i - Len(s)) = i
      <4>1. (s \o t)[i] = t[i - Len(s)]
        BY <1>8, <3>4
      <4> QED
        BY <1>7, <3>1, <3>4, <4>1
    <3> QED
      BY <3>2, <3>3, <3>4
  <2>2. \A q \in PE \ {p} : /\ InSide(q)' = InSide(q) /\ pc'[q] = pc[q] /\ step'[q] = step[q]
                            /\ queue'[q] = queue[q]
    BY <1>5, <1>6, HostStill
  <2>3. ASSUME NEW q \in PE, pc'[q] \in {"issue", "sync"}, InSide(q)' <= StepsPerPass,
               NEW i \in 1 .. Len(queue'[q])
        PROVE  queue'[q][i].step = step'[q]
    <3>1. CASE q = p
      <4>1. i \in 1 .. Len(s \o t) /\ InSide(p)' <= StepsPerPass
        BY <1>7, <2>3, <3>1
      <4> QED
        BY <1>7, <2>1, <3>1, <4>1
    <3>2. CASE q # p
      <4>1. /\ pc[q] \in {"issue", "sync"} /\ InSide(q) <= StepsPerPass /\ i \in 1 .. Len(queue[q])
            /\ queue'[q] = queue[q] /\ step'[q] = step[q]
        BY <2>2, <2>3, <3>2
      <4> QED
        BY <1>1, <4>1 DEF Drained
    <3> QED
      BY <3>1, <3>2
  <2> QED
    BY <1>4, <2>3 DEF Drained
<1>17. \A q \in PE \ {p} : Stage(q)' = Stage(q) /\ Columns(q)' /\ Computed(q)'
  BY <1>1, <1>2, <1>4, <1>6, BuffersStill DEF Buffers
<1>18. Stage(p)' = Stage(p)
  <2>1. Reached(p)' = Nth(Head(s \o t))
    BY <1>7, <1>8 DEF Reached, Nth
  <2>2. CASE s = <<>>
    <3>1. Reached(p) = Issued(p) + 1
      BY <2>2 DEF Reached, s
    <3>2. Nth(t[1]) = Issued(p) + 1
      BY <1>13a
    <3> QED
      BY <1>4, <1>9, <2>1, <2>2, <3>1, <3>2 DEF Stage
  <2>3. CASE s # <<>>
    BY <1>4, <1>9, <2>1, <2>3 DEF Stage, Reached, s
  <2> QED
    BY <2>2, <2>3
<1>19. InStep'
  BY <1>1, <1>2, <1>4, <1>17, <1>18 DEF InStep
<1>20. /\ s # <<>> => \A h : HeadIs(p, h)' <=> HeadIs(p, h)
       /\ s = <<>> => ~HeadIs(p, "halo")
  BY <1>7, <1>8, <1>9 DEF HeadIs, s
<1>21. Columns(p)'
  <2>1. IF HeadIs(p, "halo")' THEN moved'[p] \subseteq Head(queue'[p]).moves ELSE moved'[p] = {}
    <3>1. CASE s # <<>>
      <4>1. Head(queue'[p]) = Head(queue[p])
        BY <1>7, <1>9, <3>1 DEF s
      <4> QED
        BY <1>1, <1>2, <1>20, <3>1, <4>1 DEF Columns
    <3>2. CASE s = <<>>
      BY <1>1, <1>2, <1>20, <3>2 DEF Columns
    <3> QED
      BY <3>1, <3>2
  <2>2. ASSUME NEW d \in Dir, Received(p, d)'
        PROVE  Received(p, d)
    <3>1. CASE Stage(p) > 2
      BY <3>1 DEF Received
    <3>2. CASE ~(Stage(p) > 2)
      <4>1. /\ HeadIs(p, "halo")'
            /\ <<"in", d>> \in moved[p] \/ (backend = "mpi" /\ Len(queue'[p]) = 1)
        BY <1>2, <1>18, <2>2, <3>2 DEF Received
      <4>2. backend # "mpi" \/ ~(Len(queue'[p]) = 1)
        BY <1>14, <4>1
      <4>3. <<"in", d>> \in moved[p]
        BY <4>1, <4>2
      <4>4. s # <<>>
        BY <1>1, <1>20, <4>3 DEF Columns
      <4> QED
        BY <1>20, <4>1, <4>3, <4>4 DEF Received
    <3> QED
      BY <3>1, <3>2
  <2>3. pc[p] # "init" /\ pc'[p] # "init"
    BY <1>2, <1>5
  <2> QED
    BY <1>1, <1>2, <1>4, <1>18, <2>1, <2>2, <2>3 DEF Columns
<1>22. Computed(p)'
  BY <1>1, <1>2, <1>4, <1>18 DEF Computed
<1>23. Streams'
  BY <1>14, <1>15
<1> QED
  BY <1>10, <1>11, <1>12, <1>16, <1>17, <1>19, <1>21, <1>22, <1>23, <1>18 DEF IInv, Buffers

-----------------------------------------------------------------------------
(* The collective operations of the hosts.                                 *)

LEMMA StepOfSweep ==
  ASSUME NEW k \in 1 .. Len(Sides), NEW M \in Nat \ {0}, NEW n \in 1 .. M
  PROVE  (k - 1) * M + n \in 1 .. M * Len(Sides) /\ (k - 1) * M \in Nat
<1> DEFINE L == Len(Sides)
           b == (k - 1) * M
<1>1. k \in Nat /\ L \in Nat /\ k <= L /\ 1 <= k
  BY Constants
<1> HIDE DEF L
<1>2. b \in Nat /\ M * L \in Nat
  BY <1>1, SMT
<1>3. b + M = M * k
  BY <1>1, SMT
<1>4. M * k <= M * L
  BY <1>1, SMT
<1> HIDE DEF b
<1>5. b + n \in 1 .. M * L
  BY <1>2, <1>3, <1>4, SMT
<1> QED
  BY <1>2, <1>5 DEF L, b

(* Where a collective operation leaves a host, by where it stood.          *)
EpochAfter(e, k) ==
  CASE e = 0 -> 1
    [] e = 1 -> IF phasePass THEN 2 ELSE 4
    [] e = 2 -> 3
    [] e = 3 -> 4
    [] OTHER -> IF k < Len(Sides) THEN 0 ELSE 5

SideAfter(e, k) == IF e = 4 /\ k < Len(Sides) THEN k + 1 ELSE k

LEMMA CollectiveOf ==
  ASSUME TypeOK, Places, Collective, NEW p \in PE
  PROVE  /\ queue[p] = <<>> /\ phase[p] = 1
         /\ pc'[p] \in PC \ {"sync"} /\ side'[p] \in 1 .. Len(Sides)
         /\ step'[p] \in 1 .. StepsPerSide * Len(Sides)
         /\ InSide(p)' \in 1 .. StepsPerSide
         /\ pc'[p] \in {"init", "aligned"} => InSide(p)' = 1
         /\ pc'[p] # "stats"
         /\ pc'[p] = "phaseBarrier" => phasePass /\ InSide(p)' = StepsPerPass
         /\ pc'[p] \in {"verdict", "exit"} => InSide(p)' = StepsPerSide
         /\ Issued(p)' = Issued(p)
         /\ Epoch(p)' = EpochAfter(Epoch(p), side[p])
         /\ side'[p] = SideAfter(Epoch(p), side[p])
         /\ \/ side'[p] = side[p] /\ pc'[p] # "init"
            \/ pc[p] = "verdict" /\ Base(p)' = step[p] /\ Base(p)' \in Nat
<1> DEFINE L == Len(Sides)
           P == StepsPerPass
           S == StepsPerSide
<1>1. /\ Base(p) \in Nat /\ step[p] \in Nat \ {0} /\ InSide(p) \in 1 .. S
      /\ step[p] = Base(p) + InSide(p) /\ (LastOfSide(step[p]) <=> InSide(p) = S)
      /\ side[p] \in 1 .. L /\ L \in Nat \ {0} /\ P \in Nat \ {0} /\ S \in Nat \ {0}
      /\ S = IF phasePass THEN 2 * P ELSE P
      /\ step[p] \in 1 .. S * L
  BY Here, Types, Constants, PerPass
<1>2. /\ S' = S /\ P' = P /\ phasePass' = phasePass /\ queue' = queue /\ phase' = phase
  BY DEF Collective, run, StepsPerSide, StepsPerPass
<1>3. Base(p)' = (side'[p] - 1) * S /\ InSide(p)' = step'[p] - Base(p)'
  BY <1>2 DEF Base, InSide
<1>4. /\ pc[p] \in AtCollective /\ queue[p] = <<>> /\ phase[p] = 1
      /\ pc[p] = "aligned" => InSide(p) = 1
      /\ pc[p] = "stats" => InSide(p) \in {P, S}
      /\ pc[p] = "phaseBarrier" => phasePass /\ InSide(p) = P
      /\ pc[p] = "verdict" => InSide(p) = S
  BY DEF Collective, Places, AtCollective
<1>5. Base(p) = (side[p] - 1) * S
  BY DEF Base
<1> HIDE DEF L, P, S
<1>6. ASSUME side'[p] = side[p]
      PROVE  /\ Base(p)' = Base(p) /\ InSide(p)' = step'[p] - Base(p)
             /\ step'[p] = step[p] => InSide(p)' = InSide(p)
             /\ step'[p] = step[p] + 1 => InSide(p)' = InSide(p) + 1
             /\ side'[p] \in 1 .. L
  <2>1. Base(p)' = Base(p) /\ InSide(p)' = step'[p] - Base(p)
    BY <1>3, <1>5, <1>6
  <2>2. step[p] - Base(p) = InSide(p) /\ (step[p] + 1) - Base(p) = InSide(p) + 1
    BY <1>1, SMT
  <2> QED
    BY <1>1, <1>6, <2>1, <2>2
<1>7. CASE pc[p] = "aligned"
  <2>1. pc'[p] = "issue" /\ step'[p] = step[p] /\ side'[p] = side[p]
    BY <1>7 DEF Collective
  <2>2. InSide(p)' = 1 /\ 1 \in 1 .. S /\ 1 <= P
    BY <1>1, <1>4, <1>6, <1>7, <2>1, SMT
  <2>3. Issued(p)' = 4 * (step[p] - 1) + (1 - 1) /\ Issued(p) = 4 * (step[p] - 1)
    BY <1>2, <1>4, <1>7, <2>1 DEF Issued
  <2>4. Issued(p)' = Issued(p)
    BY <1>1, <2>3, SMT
  <2>5. Epoch(p) = 0 /\ Epoch(p)' = 1
    BY <1>2, <1>7, <2>1, <2>2 DEF Epoch, P
  <2> QED
    BY <1>1, <1>4, <1>6, <2>1, <2>2, <2>4, <2>5 DEF PC, EpochAfter, SideAfter, S, P, L
<1>8. CASE pc[p] = "stats" /\ InSide(p) = S
  <2>1. pc'[p] = "verdict" /\ step'[p] = step[p] /\ side'[p] = side[p]
    BY <1>1, <1>8 DEF Collective
  <2>2. InSide(p)' = S
    BY <1>6, <1>8, <2>1
  <2>3. Issued(p)' = Issued(p)
    BY <1>8, <2>1 DEF Issued
  <2>4. Epoch(p)' = 4 /\ Epoch(p) = IF S <= P THEN 1 ELSE 3
    BY <1>8, <2>1 DEF Epoch, P
  <2>5. S <= P <=> ~phasePass
    BY <1>1, SMT
  <2>6. EpochAfter(Epoch(p), side[p]) = 4 /\ SideAfter(Epoch(p), side[p]) = side[p]
    BY <2>4, <2>5 DEF EpochAfter, SideAfter
  <2> QED
    BY <1>1, <1>4, <1>6, <2>1, <2>2, <2>3, <2>4, <2>6 DEF PC, S, P, L
<1>9. CASE pc[p] = "stats" /\ InSide(p) # S
  <2>1. pc'[p] = "phaseBarrier" /\ step'[p] = step[p] /\ side'[p] = side[p]
    BY <1>1, <1>9 DEF Collective
  <2>2. InSide(p)' = P /\ InSide(p) = P /\ phasePass /\ P \in 1 .. S
    BY <1>1, <1>4, <1>6, <1>9, <2>1, SMT
  <2>3. Issued(p)' = Issued(p)
    BY <1>9, <2>1 DEF Issued
  <2>4. P <= P
    BY <1>1, SMT
  <2>5. Epoch(p)' = 2 /\ Epoch(p) = 1
    BY <1>9, <2>1, <2>2, <2>4 DEF Epoch, P
  <2>6. EpochAfter(Epoch(p), side[p]) = 2 /\ SideAfter(Epoch(p), side[p]) = side[p]
    BY <2>2, <2>5 DEF EpochAfter, SideAfter
  <2> QED
    BY <1>1, <1>4, <1>6, <2>1, <2>2, <2>3, <2>5, <2>6 DEF PC, S, P, L
<1>10. CASE pc[p] = "phaseBarrier"
  <2>1. pc'[p] = "issue" /\ step'[p] = step[p] + 1 /\ side'[p] = side[p]
    BY <1>10 DEF Collective
  <2>2. InSide(p)' = P + 1 /\ P + 1 \in 1 .. S /\ ~(P + 1 <= P)
    BY <1>1, <1>4, <1>6, <1>10, <2>1, SMT
  <2>3. Issued(p)' = 4 * ((step[p] + 1) - 1) + (1 - 1) /\ Issued(p) = 4 * step[p]
    BY <1>2, <1>4, <1>10, <2>1 DEF Issued
  <2>4. Issued(p)' = Issued(p)
    BY <1>1, <2>3, SMT
  <2>5. Epoch(p) = 2 /\ Epoch(p)' = 3
    BY <1>2, <1>10, <2>1, <2>2 DEF Epoch, P
  <2>6. step'[p] \in 1 .. S * L
    <3>1. step'[p] = (side[p] - 1) * S + (P + 1)
      BY <1>1, <1>4, <1>5, <1>10, <2>1, SMT
    <3> DEFINE n == P + 1
               k == side[p]
    <3>2. n \in 1 .. S /\ k \in 1 .. Len(Sides) /\ S \in Nat \ {0}
      BY <1>1, <2>2 DEF L
    <3> HIDE DEF n, k
    <3>3. (k - 1) * S + n \in 1 .. S * Len(Sides)
      BY <3>2, StepOfSweep
    <3> QED
      BY <3>1, <3>3 DEF n, k, L
  <2>7. EpochAfter(Epoch(p), side[p]) = 3 /\ SideAfter(Epoch(p), side[p]) = side[p]
    BY <2>5 DEF EpochAfter, SideAfter
  <2> QED
    BY <1>1, <1>4, <1>6, <2>1, <2>2, <2>4, <2>5, <2>6, <2>7 DEF PC, S, P, L
<1>11. CASE pc[p] = "verdict" /\ side[p] < L
  <2>1. pc'[p] = "init" /\ step'[p] = step[p] + 1 /\ side'[p] = side[p] + 1
    BY <1>11 DEF Collective, L
  <2>2. Base(p)' = (side[p] + 1 - 1) * S /\ side[p] + 1 \in 1 .. L
    BY <1>1, <1>3, <1>11, <2>1, SMT
  <2>3. Base(p)' = step[p]
    <3>1. (side[p] + 1 - 1) * S = (side[p] - 1) * S + S
      BY <1>1, SMT
    <3> QED
      BY <1>1, <1>4, <1>5, <1>11, <2>2, <3>1
  <2>4. InSide(p)' = 1 /\ 1 \in 1 .. S
    BY <1>1, <1>3, <2>1, <2>3, SMT
  <2>5. Issued(p)' = 4 * ((step[p] + 1) - 1) /\ Issued(p) = 4 * step[p]
    BY <1>11, <2>1 DEF Issued
  <2>6. Issued(p)' = Issued(p)
    BY <1>1, <2>5, SMT
  <2>7. Epoch(p) = 4 /\ Epoch(p)' = 0
    BY <1>11, <2>1 DEF Epoch
  <2>8. step'[p] \in 1 .. S * L
    <3> DEFINE k == side[p] + 1
    <3>1. step'[p] = Base(p)' + 1
      BY <2>1, <2>3
    <3>2. k \in 1 .. Len(Sides) /\ S \in Nat \ {0} /\ 1 \in 1 .. S /\ Base(p)' = (k - 1) * S
      BY <1>1, <2>2, <2>4 DEF L
    <3> HIDE DEF k
    <3>3. (k - 1) * S + 1 \in 1 .. S * Len(Sides)
      BY <3>2, StepOfSweep
    <3> QED
      BY <3>1, <3>2, <3>3 DEF L
  <2>9. EpochAfter(Epoch(p), side[p]) = 0 /\ SideAfter(Epoch(p), side[p]) = side[p] + 1
    BY <1>11, <2>7 DEF EpochAfter, SideAfter, L
  <2> QED
    BY <1>1, <1>4, <1>11, <2>1, <2>2, <2>3, <2>4, <2>6, <2>7, <2>8, <2>9 DEF PC, S, P, L
<1>12. CASE pc[p] = "verdict" /\ ~(side[p] < L)
  <2>1. pc'[p] = "exit" /\ step'[p] = step[p] /\ side'[p] = side[p]
    BY <1>12 DEF Collective, L
  <2>2. InSide(p)' = S
    BY <1>4, <1>6, <1>12, <2>1
  <2>3. Issued(p)' = Issued(p)
    BY <1>12, <2>1 DEF Issued
  <2>4. Epoch(p) = 4 /\ Epoch(p)' = 5
    BY <1>12, <2>1 DEF Epoch
  <2>5. EpochAfter(Epoch(p), side[p]) = 5 /\ SideAfter(Epoch(p), side[p]) = side[p]
    BY <1>12, <2>4 DEF EpochAfter, SideAfter, L
  <2> QED
    BY <1>1, <1>4, <1>6, <1>12, <2>1, <2>2, <2>3, <2>4, <2>5 DEF PC, S, P, L
<1> QED
  BY <1>4, <1>7, <1>8, <1>9, <1>10, <1>11, <1>12 DEF AtCollective

LEMMA CollectiveStep ==
  ASSUME IInv, Collective
  PROVE  IInv' /\ \A q \in PE : Stage(q)' = Stage(q)
<1>1. /\ TypeOK /\ Together /\ Places /\ Streams /\ Drained /\ InStep /\ Buffers
  BY DEF IInv
<1>2. /\ backend' = backend /\ phasePass' = phasePass /\ phase' = phase /\ queue' = queue
      /\ moved' = moved /\ send' = send /\ recv' = recv /\ ghost' = ghost /\ partial' = partial
      /\ result' = result
      /\ pc' = [p \in PE |-> pc'[p]] /\ step' = [p \in PE |-> step'[p]]
      /\ side' = [p \in PE |-> side'[p]]
  <2>1. /\ pc' = [p \in PE |-> pc'[p]] /\ step' = [p \in PE |-> step'[p]]
        /\ side' = [p \in PE |-> side'[p]]
    <3> DEFINE next(p) == CASE pc[p] \in {"aligned", "phaseBarrier"} -> "issue"
                        [] pc[p] = "stats" -> IF LastOfSide(step[p]) THEN "verdict" ELSE "phaseBarrier"
                        [] pc[p] = "verdict" -> IF side[p] < Len(Sides) THEN "init" ELSE "exit"
               starts(p) == \/ pc[p] = "phaseBarrier"
                            \/ pc[p] = "verdict" /\ side[p] < Len(Sides)
               later(p) == IF starts(p) THEN step[p] + 1 ELSE step[p]
               nextSide(p) == IF next(p) = "init" THEN side[p] + 1 ELSE side[p]
    <3>1. /\ pc' = [p \in PE |-> next(p)] /\ step' = [p \in PE |-> later(p)]
          /\ side' = [p \in PE |-> nextSide(p)]
      BY DEF Collective
    <3> HIDE DEF next, later, nextSide
    <3> QED
      BY <3>1
  <2> QED
    BY <2>1 DEF Collective, run, data
<1>3. \A p \in PE :
        /\ queue[p] = <<>> /\ phase[p] = 1
        /\ pc'[p] \in PC \ {"sync"} /\ side'[p] \in 1 .. Len(Sides)
        /\ step'[p] \in 1 .. StepsPerSide * Len(Sides)
        /\ InSide(p)' \in 1 .. StepsPerSide
        /\ pc'[p] \in {"init", "aligned"} => InSide(p)' = 1
        /\ pc'[p] # "stats"
        /\ pc'[p] = "phaseBarrier" => phasePass /\ InSide(p)' = StepsPerPass
        /\ pc'[p] \in {"verdict", "exit"} => InSide(p)' = StepsPerSide
        /\ Issued(p)' = Issued(p)
        /\ Epoch(p)' = EpochAfter(Epoch(p), side[p])
        /\ side'[p] = SideAfter(Epoch(p), side[p])
  BY <1>1, CollectiveOf
<1>4. StepsPerSide' = StepsPerSide /\ StepsPerPass' = StepsPerPass /\ Done' = Done
  BY <1>2 DEF StepsPerSide, StepsPerPass, Done
<1>5. TypeOK'
  <2>1. pc' \in [PE -> PC] /\ side' \in [PE -> 1 .. Len(Sides)]
    BY <1>2, <1>3
  <2>2. step' \in [PE -> 1 .. StepsPerSide * Len(Sides)]
    BY <1>2, <1>3
  <2> QED
    BY <1>1, <1>2, <1>4, <2>1, <2>2 DEF TypeOK
<1>6. Together'
  <2>1. \A p, q \in PE : side[p] = side[q] /\ Epoch(p) = Epoch(q)
    BY <1>1 DEF Together
  <2>2. \A p \in PE : /\ Epoch(p)' = EpochAfter(Epoch(p), side[p])
                      /\ side'[p] = SideAfter(Epoch(p), side[p])
    BY <1>3
  <2>3. \A p, q \in PE : side'[p] = side'[q] /\ Epoch(p)' = Epoch(q)'
    BY <2>1, <2>2, Zenon
  <2> QED
    BY <2>3 DEF Together
<1>7. Places'
  BY <1>2, <1>3, <1>4 DEF Places
<1>8. Streams'
  BY <1>2, <1>3 DEF Streams, InPhase, InOrder
<1>9. Drained'
  BY <1>2, <1>3 DEF Drained
<1>10. \A p \in PE : /\ Stage(p)' = Stage(p) /\ Stage(p) \in 1 .. 4
                     /\ \A h : ~HeadIs(p, h) /\ ~HeadIs(p, h)'
  BY <1>1, <1>2, <1>3, <1>4 DEF Stage, Reached, HeadIs, InStep
<1>11. InStep'
  BY <1>1, <1>2, <1>4, <1>10 DEF InStep
<1>12. ASSUME NEW p \in PE
       PROVE  Columns(p)' /\ Computed(p)'
  <2>1. /\ Columns(p) /\ Computed(p) /\ moved[p] = {}
    BY <1>1, <1>10, <1>12 DEF Buffers, Columns
  <2>2. pc[p] # "init"
    BY <1>12 DEF Collective, AtCollective
  <2>3. /\ \/ side'[p] = side[p] /\ pc'[p] # "init"
           \/ pc[p] = "verdict" /\ Base(p)' = step[p] /\ Base(p)' \in Nat
    BY <1>1, <1>12, CollectiveOf
  <2>4. CASE side'[p] = side[p] /\ pc'[p] # "init"
    <3>1. Base(p)' = Base(p)
      BY <1>4, <2>4 DEF Base
    <3>2. \A d : Received(p, d)' <=> Received(p, d)
      BY <1>10, <1>12 DEF Received
    <3> QED
      BY <1>2, <1>4, <1>10, <1>12, <2>1, <2>2, <2>4, <3>1, <3>2 DEF Columns, Computed
  <2>5. CASE pc[p] = "verdict" /\ Base(p)' = step[p] /\ Base(p)' \in Nat
    <3>1. Stage(p) = 1 /\ step[p] = Done
      <4>1. Stage(p) = (4 * step[p] + 1) - 4 * Done
        BY <1>3, <1>12, <2>5 DEF Stage, Reached, Issued
      <4>2. Stage(p) \in 1 .. 4 /\ step[p] \in Nat /\ Done \in Nat
        BY <1>1, <1>10, <1>12, Types
      <4> DEFINE k == step[p]
                 n == Done
                 m == Stage(p)
      <4>3. m = (4 * k + 1) - 4 * n /\ m \in 1 .. 4 /\ k \in Nat /\ n \in Nat
        BY <4>1, <4>2
      <4> HIDE DEF k, n, m
      <4>4. m = 1 /\ k = n
        BY <4>3, SMT
      <4> QED
        BY <4>4 DEF k, n, m
    <3>2. \A d : ~Received(p, d)'
      BY <1>10, <1>12, <3>1, SMT DEF Received
    <3>3. Columns(p)'
      BY <1>2, <1>10, <1>12, <2>1, <2>2, <3>1, <3>2 DEF Columns
    <3>4. ~(Base(p)' < Done')
      <4>1. Done \in Nat
        BY <1>1, Types
      <4>2. Base(p)' = Done /\ Done' = Done
        BY <1>4, <2>5, <3>1
      <4>3. ~(Done < Done)
        BY <4>1, SMT
      <4> QED
        BY <4>2, <4>3
    <3>5. Computed(p)'
      BY <1>10, <1>12, <3>1, <3>4 DEF Computed
    <3> QED
      BY <3>3, <3>5
  <2> QED
    BY <2>3, <2>4, <2>5
<1> QED
  BY <1>5, <1>6, <1>7, <1>8, <1>9, <1>11, <1>12, <1>10 DEF IInv, Buffers

-----------------------------------------------------------------------------
(* The invariant.                                                          *)

LEMMA InvInit == Init => IInv
<1> SUFFICES ASSUME Init PROVE IInv
  OBVIOUS
<1>1. /\ backend \in {"nccl", "oneccl", "mpi"} /\ phasePass \in BOOLEAN
      /\ \A p \in PE : /\ pc[p] = "init" /\ side[p] = 1 /\ step[p] = 1 /\ phase[p] = 1
                       /\ queue[p] = <<>> /\ moved[p] = {}
      /\ \A p, q \in PE : result[p][q] = 0
  BY DEF Init
<1>2. /\ StepsPerPass \in Nat \ {0} /\ StepsPerSide \in Nat \ {0}
  BY <1>1, Constants, SMT DEF StepsPerPass, StepsPerSide
<1>3. TypeOK
  <2>1. 1 \in 1 .. StepsPerSide * Len(Sides)
    <3>1. 1 \in 1 .. Len(Sides) /\ 1 \in 1 .. StepsPerSide
      BY <1>2, Constants, SMT
    <3>2. (1 - 1) * StepsPerSide + 1 \in 1 .. StepsPerSide * Len(Sides)
      BY <1>2, <3>1, StepOfSweep
    <3>3. (1 - 1) * StepsPerSide = 0
      BY <1>2, SMT
    <3> QED
      BY <3>2, <3>3
  <2>2. 1 \in 1 .. Len(Sides) /\ 1 \in 1 .. 4
    BY Constants, SMT
  <2>3. Garbage \in Column
    BY SMT DEF Garbage, Column
  <2>4. <<>> \in Seq(Op)
    OBVIOUS
  <2>5. /\ send \in [PE -> [Dir -> Column]] /\ recv \in [PE -> [Dir -> Column]]
        /\ ghost \in [PE -> [Dir -> Column]]
    BY <2>3 DEF Init
  <2>6. /\ pc \in [PE -> PC] /\ side \in [PE -> 1 .. Len(Sides)] /\ phase \in [PE -> 1 .. 4]
        /\ step \in [PE -> 1 .. StepsPerSide * Len(Sides)]
    BY <2>1, <2>2 DEF Init, PC
  <2>7. /\ queue \in [PE -> Seq(Op)] /\ moved \in [PE -> SUBSET Move] /\ partial \in [PE -> Nat]
        /\ result \in [PE -> [PE -> Nat]]
    BY <2>4 DEF Init
  <2> QED
    BY <1>1, <2>5, <2>6, <2>7 DEF TypeOK
<1>4. \A p \in PE : Base(p) = 0 /\ InSide(p) = 1 /\ Issued(p) = 0
  <2>1. (1 - 1) * StepsPerSide = 0 /\ 1 - 0 = 1 /\ 4 * (1 - 1) = 0
    BY <1>2, SMT
  <2>2. \A p \in PE : Base(p) = 0
    BY <1>1, <2>1 DEF Base
  <2> QED
    BY <1>1, <2>1, <2>2 DEF InSide, Issued
<1>5. Done = 0
  BY <1>1, Constants DEF Done
<1>6. \A p \in PE : Stage(p) = 1
  <2>1. (0 + 1) - 4 * 0 = 1
    BY SMT
  <2> QED
    BY <1>1, <1>4, <1>5, <2>1 DEF Stage, Reached
<1>7. Together /\ Streams /\ Drained
  BY <1>1 DEF Together, Epoch, Streams, InPhase, InOrder, Drained
<1>8. Places
  <2>1. 1 \in 1 .. StepsPerSide
    BY <1>2, SMT
  <2> QED
    BY <1>1, <1>4, <2>1 DEF Places
<1>9. InStep
  BY <1>1, <1>5, <1>6, SMT DEF InStep
<1>10. Buffers
  <2>1. \A p \in PE : \A h : ~HeadIs(p, h)
    BY <1>1 DEF HeadIs
  <2>2. ~(1 > 1) /\ ~(1 > 2) /\ ~(1 = 4) /\ ~(0 < 0)
    BY SMT
  <2>3. \A p \in PE : \A d : ~Received(p, d)
    BY <1>6, <2>1, <2>2 DEF Received
  <2> QED
    BY <1>1, <1>4, <1>5, <1>6, <2>1, <2>2, <2>3 DEF Buffers, Columns, Computed
<1> QED
  BY <1>3, <1>7, <1>8, <1>9, <1>10 DEF IInv

LEMMA InvStep == IInv /\ [Next]_vars => IInv'
<1> SUFFICES ASSUME IInv, [Next]_vars PROVE IInv'
  OBVIOUS
<1>1. CASE Next
  <2>1. ASSUME NEW p \in PE, HostStep(p)
        PROVE  IInv'
    BY <2>1, InitSideStep, IssueStep, SyncStep DEF HostStep
  <2>2. ASSUME NEW p \in PE, DeviceStep(p)
        PROVE  IInv'
    BY <2>2, PackStep, TransferStep, EndHaloStep, ComputeStep DEF DeviceStep
  <2> QED
    BY <1>1, <2>1, <2>2, ReduceStep, CollectiveStep DEF Next
<1>2. CASE UNCHANGED vars
  <2>1. TypeOK /\ Together /\ Places /\ Streams /\ Drained /\ InStep /\ Buffers
    BY DEF IInv
  <2>2. /\ backend' = backend /\ phasePass' = phasePass /\ pc' = pc /\ side' = side /\ step' = step
        /\ phase' = phase /\ queue' = queue /\ moved' = moved /\ send' = send /\ recv' = recv
        /\ ghost' = ghost /\ partial' = partial /\ result' = result
    BY <1>2 DEF vars, run, data
  <2>3. \A q : HostStands(q)
    BY <2>2 DEF HostStands
  <2>4. StepsPerSide' = StepsPerSide /\ StepsPerPass' = StepsPerPass /\ Done' = Done
    BY <2>2 DEF StepsPerSide, StepsPerPass, Done
  <2>5. \A q : /\ InSide(q)' = InSide(q) /\ Epoch(q)' = Epoch(q) /\ (Syncs(q)' <=> Syncs(q))
               /\ InOrder(q) => InOrder(q)'
               /\ InPhase(q) => InPhase(q)'
    BY <2>3, HostStill
  <2>6. \A q \in PE : Stage(q)' = Stage(q) /\ Columns(q)' /\ Computed(q)'
    BY <2>1, <2>2, <2>3, <2>4, BuffersStill DEF Buffers
  <2>7. TypeOK'
    BY <2>1, <2>2, <2>4 DEF TypeOK
  <2>8. Together' /\ Places'
    BY <2>1, <2>2, <2>4, <2>5 DEF Together, Places
  <2>9. Streams' /\ Drained'
    BY <2>1, <2>2, <2>4, <2>5 DEF Streams, Drained
  <2>10. InStep'
    BY <2>1, <2>2, <2>4, <2>6 DEF InStep
  <2> QED
    BY <2>6, <2>7, <2>8, <2>9, <2>10 DEF IInv, Buffers
<1> QED
  BY <1>1, <1>2

(* Whatever the backend, in either pass and however far a host has run     *)
(* ahead of its device, the operations of a stream, the buffers and the    *)
(* collective operations of the hosts are where IInv says.                 *)
THEOREM Inductive == Spec => []IInv
BY InvInit, InvStep, PTL DEF Spec

(* Every variable has its type: no host leaves the sweep of grid sides,    *)
(* and no step number passes the last step of the sweep.                   *)
THEOREM TypeCorrect == Spec => []TypeOK
<1>1. IInv => TypeOK
  BY DEF IInv
<1> QED
  BY <1>1, Inductive, PTL

-----------------------------------------------------------------------------
(* What the benchmark rests on.                                            *)

(* When a rank has computed a step, and its stream waits for the reduction *)
(* of that step, its ghost columns are the boundaries its neighbours       *)
(* packed in that same step: an exchange never brings those of the step    *)
(* before, nor those of the next one, in either pass.                      *)
THEOREM GhostsOfThisStepHolds == Spec => []GhostsOfThisStep
<1>1. IInv => GhostsOfThisStep
  <2> SUFFICES ASSUME IInv, NEW p \in PE, HeadIs(p, "reduce")
               PROVE  ghost[p] = ExpectedGhosts(p, side[p], Head(queue[p]).step)
    BY DEF GhostsOfThisStep
  <2>1. TypeOK /\ Places /\ InStep /\ Computed(p)
    BY DEF IInv, Buffers
  <2>2. Stage(p) = 4 /\ Head(queue[p]).step = Done + 1
    BY <2>1, AtHead
  <2> QED
    BY <2>1, <2>2 DEF Computed
<1> QED
  BY <1>1, Inductive, PTL

(* When the hosts agree on the verdict of a side, the ghost columns and    *)
(* the global sums they validate are those of the last step they issued,   *)
(* with every rank's share of the sums.                                    *)
THEOREM ValidatesLastStepHolds == Spec => []ValidatesLastStep
<1>1. IInv => ValidatesLastStep
  <2> SUFFICES ASSUME IInv, NEW p \in PE, pc[p] = "verdict"
               PROVE  /\ ghost[p] = ExpectedGhosts(p, side[p], step[p])
                      /\ result[p] = [q \in PE |-> step[p]]
    BY DEF ValidatesLastStep
  <2>1. TypeOK /\ Places /\ InStep /\ Computed(p) /\ Done \in Nat
    BY Types DEF IInv, Buffers
  <2>2. queue[p] = <<>> /\ InSide(p) = StepsPerSide
    BY <2>1 DEF Places
  <2>3. Stage(p) = (4 * step[p] + 1) - 4 * Done
    BY <2>2 DEF Stage, Reached, Issued
  <2>4. /\ Stage(p) \in 1 .. 4 /\ step[p] \in Nat /\ Base(p) \in Nat /\ StepsPerSide \in Nat \ {0}
        /\ step[p] = Base(p) + StepsPerSide
    BY <2>1, <2>2, Here, PerPass DEF InStep
  <2> DEFINE k == step[p]
             n == Done
             m == Stage(p)
             b == Base(p)
  <2>5. /\ m = (4 * k + 1) - 4 * n /\ m \in 1 .. 4 /\ k \in Nat /\ n \in Nat /\ b \in Nat
        /\ k = b + StepsPerSide
    BY <2>1, <2>3, <2>4
  <2> HIDE DEF k, n, m, b
  <2>6. m = 1 /\ k = n /\ m < 4 /\ b < n
    BY <2>4, <2>5, SMT
  <2>7. Stage(p) < 4 /\ Base(p) < Done /\ step[p] = Done
    BY <2>6 DEF k, n, m, b
  <2>8. ghost[p] = ExpectedGhosts(p, side[p], step[p])
    BY <2>1, <2>7 DEF Computed
  <2>9. result[p] = [q \in PE |-> step[p]]
    <3>1. result[p] \in [PE -> Nat] /\ \A q \in PE : result[p][q] = step[p]
      BY <2>1, <2>7, Types DEF InStep
    <3> QED
      BY <3>1
  <2> QED
    BY <2>8, <2>9
<1> QED
  BY <1>1, Inductive, PTL

(* While a host waits inside the timed region of a headline step, its      *)
(* stream holds no operation of another step: what the timer reads is the  *)
(* time of that step alone.                                                *)
THEOREM SampleIsOneStepHolds == Spec => []SampleIsOneStep
<1>1. IInv => SampleIsOneStep
  <2> SUFFICES ASSUME IInv, NEW p \in PE, pc[p] = "sync", Pass(step[p]) = "headline",
                      NEW i \in DOMAIN queue[p]
               PROVE  queue[p][i].step = step[p]
    BY DEF SampleIsOneStep
  <2>1. TypeOK /\ Places /\ Drained
    BY DEF IInv
  <2>2. InSide(p) <= StepsPerPass
    BY <2>1, Here
  <2>3. i \in 1 .. Len(queue[p])
    <3>1. queue[p] \in Seq(Op)
      BY <2>1, Types
    <3> QED
      BY <3>1
  <2> QED
    BY <2>1, <2>2, <2>3 DEF Drained
<1> QED
  BY <1>1, Inductive, PTL

-----------------------------------------------------------------------------
(* No deadlock.                                                            *)

(* A rank has sent its boundary to the neighbour at d in the present step, *)
(* or has received the one from there: MPI's first shift sends to the west *)
(* and receives from the east.                                             *)
SentTo(p, d) ==
  \/ Stage(p) > 2
  \/ Stage(p) = 2 /\ \/ <<"out", d>> \in moved[p]
                     \/ backend = "mpi" /\ Len(queue[p]) = 1 /\ d = "west"

CameFrom(p, d) ==
  \/ Stage(p) > 2
  \/ Stage(p) = 2 /\ \/ <<"in", d>> \in moved[p]
                     \/ backend = "mpi" /\ Len(queue[p]) = 1 /\ d = "east"

(* Both ends of a transfer have it behind them, or neither has.            *)
Paired ==
  \A p \in PE : \A d \in Dir :
    HasNeighbour(p, d) => (SentTo(p, d) <=> CameFrom(Neighbour(p, d), Opposite(d)))

(* The guards of the actions.                                              *)
HostCanGoOn(p) ==
  \/ pc[p] = "issue"
  \/ pc[p] \in {"init", "sync"} /\ queue[p] = <<>>

CanTransfer(p, d) ==
  LET q == Neighbour(p, d)
  IN  /\ HasNeighbour(p, d)
      /\ HeadIs(p, "halo") /\ <<"out", d>> \in Head(queue[p]).moves \ moved[p]
      /\ HeadIs(q, "halo") /\ <<"in", Opposite(d)>> \in Head(queue[q]).moves \ moved[q]

CanEndHalo(p) == HeadIs(p, "halo") /\ Head(queue[p]).moves = moved[p]

DeviceCanGoOn(p) ==
  \/ HeadIs(p, "pack") \/ HeadIs(p, "compute")
  \/ CanEndHalo(p)
  \/ \E d \in Dir : CanTransfer(p, d)

SomeoneCanGoOn ==
  \/ \E p \in PE : HostCanGoOn(p) \/ DeviceCanGoOn(p)
  \/ \A p \in PE : HeadIs(p, "reduce")
  \/ \A p \in PE : pc[p] \in AtCollective

(* Until all programs have exited somebody can go on.                      *)
NobodyStuck == (\E p \in PE : pc[p] # "exit") => SomeoneCanGoOn

LEMMA MovesAre ==
  ASSUME NEW p \in PE
  PROVE  /\ HaloGroup(p)[1] = {m \in Move : HasNeighbour(p, m[2])}
         /\ HaloShifts(p)[1] = {m \in {<<"out", "west">>, <<"in", "east">>} : HasNeighbour(p, m[2])}
         /\ HaloShifts(p)[2] = {m \in {<<"out", "east">>, <<"in", "west">>} : HasNeighbour(p, m[2])}
<1> DEFINE w == {m \in {<<"out", "west">>, <<"in", "east">>} : HasNeighbour(p, m[2])}
           e == {m \in {<<"out", "east">>, <<"in", "west">>} : HasNeighbour(p, m[2])}
           g == {m \in Move : HasNeighbour(p, m[2])}
<1>1. HaloGroup(p) = <<g>> /\ HaloShifts(p) = <<w, e>>
  BY DEF HaloGroup, HaloShifts, Opposite
<1> HIDE DEF w, e, g
<1>2. HaloGroup(p)[1] = g /\ HaloShifts(p)[1] = w /\ HaloShifts(p)[2] = e
  BY <1>1
<1> QED
  BY <1>2 DEF w, e, g

LEMMA PairedKept ==
  ASSUME Paired,
         \A p \in PE : \A d \in Dir : HasNeighbour(p, d) =>
           /\ SentTo(p, d)' <=> SentTo(p, d)
           /\ CameFrom(p, d)' <=> CameFrom(p, d)
  PROVE  Paired'
BY Facings DEF Paired

(* A rank whose stream is in the same place has sent and received what it  *)
(* had.                                                                    *)
LEMMA InPlace ==
  ASSUME NEW q \in PE, backend' = backend, Stage(q)' = Stage(q), moved'[q] = moved[q],
         backend = "mpi" /\ Stage(q) = 2 => (Len(queue'[q]) = 1 <=> Len(queue[q]) = 1)
  PROVE  \A d : (SentTo(q, d)' <=> SentTo(q, d)) /\ (CameFrom(q, d)' <=> CameFrom(q, d))
BY DEF SentTo, CameFrom

LEMMA PairedAfterPop ==
  ASSUME IInv, Paired, NEW p \in PE, Pack(p) \/ Compute(p)
  PROVE  Paired'
<1>1. TypeOK /\ Places /\ Streams /\ InStep /\ Columns(p)
  BY DEF IInv, Buffers
<1>2. /\ backend' = backend /\ moved' = moved /\ queue[p] # <<>>
      /\ queue' = [queue EXCEPT ![p] = Tail(queue[p])]
  BY DEF Pack, Compute, HeadIs, Pop, run
<1>3. /\ OthersStay(p)
      /\ (Stage(p) = 1 /\ Stage(p)' = 2) \/ (Stage(p) = 3 /\ Stage(p)' = 4)
  BY PackStep, ComputeStep
<1>4. moved[p] = {}
  BY <1>1, <1>3, AtHead DEF Columns
<1>5. backend = "mpi" => Len(queue'[p]) = 0
  <2> SUFFICES ASSUME backend = "mpi" PROVE Len(queue'[p]) = 0
    OBVIOUS
  <2>1. Len(queue[p]) = 1 /\ queue[p] \in Seq(Op)
    BY <1>1, <1>2, <1>3, OneUnlessHalo, Types
  <2>2. queue'[p] = Tail(queue[p])
    BY <1>1, <1>2, Types
  <2> QED
    BY <2>1, <2>2
<1>6. ASSUME NEW q \in PE, NEW d \in Dir
      PROVE  (SentTo(q, d)' <=> SentTo(q, d)) /\ (CameFrom(q, d)' <=> CameFrom(q, d))
  <2>1. CASE q = p
    <3>1. CASE Stage(p) = 1 /\ Stage(p)' = 2
      <4>1. ~SentTo(p, d) /\ ~CameFrom(p, d)
        BY <3>1 DEF SentTo, CameFrom
      <4>2. moved'[p] = {} /\ ~(backend' = "mpi" /\ Len(queue'[p]) = 1)
        <5>1. moved'[p] = {} /\ backend' = backend
          BY <1>2, <1>4
        <5>2. Len(queue'[p]) = 1 => backend # "mpi"
          BY <1>5, SMT
        <5> QED
          BY <5>1, <5>2
      <4>3. ~SentTo(p, d)' /\ ~CameFrom(p, d)'
        BY <3>1, <4>2 DEF SentTo, CameFrom
      <4> QED
        BY <2>1, <4>1, <4>3
    <3>2. CASE Stage(p) = 3 /\ Stage(p)' = 4
      BY <2>1, <3>2 DEF SentTo, CameFrom
    <3> QED
      BY <1>3, <3>1, <3>2
  <2>2. CASE q # p
    <3>1. queue'[q] = queue[q]
      BY <1>1, <1>2, <2>2, Types
    <3> QED
      BY <1>2, <1>3, <2>2, <3>1, InPlace DEF OthersStay
  <2> QED
    BY <2>1, <2>2
<1> QED
  BY <1>6, PairedKept

LEMMA PairedAfterHalo ==
  ASSUME IInv, Paired, NEW p \in PE, EndHalo(p)
  PROVE  Paired'
<1>1. TypeOK /\ Places /\ Streams /\ InStep
  BY DEF IInv
<1>2. /\ backend' = backend /\ moved' = [moved EXCEPT ![p] = {}] /\ queue[p] # <<>>
      /\ Head(queue[p]).moves = moved[p] /\ queue' = [queue EXCEPT ![p] = Tail(queue[p])]
  BY DEF EndHalo, HeadIs, Pop, run
<1>3. /\ OthersStay(p) /\ Stage(p) = 2
      /\ Stage(p)' = IF backend = "mpi" /\ Len(queue[p]) = 2 THEN 2 ELSE 3
      /\ backend = "mpi" /\ Len(queue[p]) = 2 => Len(queue'[p]) = 1
  BY EndHaloStep
<1>4. moved'[p] = {} /\ \A q \in PE \ {p} : moved'[q] = moved[q] /\ queue'[q] = queue[q]
  BY <1>1, <1>2, Types
<1>5. ASSUME NEW d \in Dir, HasNeighbour(p, d)
      PROVE  (SentTo(p, d)' <=> SentTo(p, d)) /\ (CameFrom(p, d)' <=> CameFrom(p, d))
  <2>1. d = "west" \/ d = "east"
    BY DEF Dir
  <2>2. CASE backend # "mpi"
    <3>1. <<"out", d>> \in moved[p] /\ <<"in", d>> \in moved[p]
      BY <1>1, <1>2, <1>3, <1>5, <2>2, OneUnlessHalo, MovesAre DEF Move
    <3> QED
      BY <1>3, <2>2, <3>1 DEF SentTo, CameFrom
  <2>3. CASE backend = "mpi" /\ Len(queue[p]) = 2
    <3>1. moved[p] = {m \in {<<"out", "west">>, <<"in", "east">>} : HasNeighbour(p, m[2])}
      BY <1>1, <1>2, <1>3, <2>3, OneUnlessHalo, MovesAre
    <3>2. (<<"out", d>> \in moved[p] <=> d = "west") /\ (<<"in", d>> \in moved[p] <=> d = "east")
      BY <1>5, <2>1, <3>1
    <3> QED
      BY <1>2, <1>3, <1>4, <2>3, <3>2 DEF SentTo, CameFrom
  <2>4. CASE backend = "mpi" /\ Len(queue[p]) # 2
    <3>1. /\ Len(queue[p]) = 1
          /\ moved[p] = {m \in {<<"out", "east">>, <<"in", "west">>} : HasNeighbour(p, m[2])}
      BY <1>1, <1>2, <1>3, <2>4, OneUnlessHalo, MovesAre
    <3>2. (d = "east" => <<"out", d>> \in moved[p]) /\ (d = "west" => <<"in", d>> \in moved[p])
      BY <1>5, <3>1
    <3> QED
      BY <1>3, <2>1, <2>4, <3>1, <3>2 DEF SentTo, CameFrom
  <2> QED
    BY <2>2, <2>3, <2>4
<1>6. \A q \in PE \ {p} : \A d :
        (SentTo(q, d)' <=> SentTo(q, d)) /\ (CameFrom(q, d)' <=> CameFrom(q, d))
  BY <1>2, <1>3, <1>4, InPlace DEF OthersStay
<1> QED
  BY <1>5, <1>6, PairedKept

LEMMA PairedAfterTransfer ==
  ASSUME IInv, Paired, NEW p \in PE, NEW d \in Dir, Transfer(p, d)
  PROVE  Paired'
<1> DEFINE q == Neighbour(p, d)
           e == Opposite(d)
<1>1. TypeOK /\ Places /\ InStep
  BY DEF IInv
<1>2. /\ q \in PE /\ q # p /\ e \in Dir /\ HasNeighbour(p, d)
      /\ Neighbour(q, e) = p /\ Opposite(e) = d
  BY Facings DEF Transfer
<1>3. /\ HeadIs(p, "halo") /\ HeadIs(q, "halo") /\ backend' = backend /\ queue' = queue
      /\ moved' = [moved EXCEPT ![p] = moved[p] \cup {<<"out", d>>},
                                ![q] = moved[q] \cup {<<"in", e>>}]
  BY <1>2 DEF Transfer, run
<1> HIDE DEF q, e
<1>4. /\ moved'[p] = moved[p] \cup {<<"out", d>>} /\ moved'[q] = moved[q] \cup {<<"in", e>>}
      /\ \A r \in PE \ {p, q} : moved'[r] = moved[r]
  BY <1>1, <1>2, <1>3, Types
<1>5. \A r \in PE : Stage(r)' = Stage(r)
  BY TransferStep
<1>6. Stage(p) = 2 /\ Stage(q) = 2
  BY <1>1, <1>2, <1>3, AtHead
<1>7. SentTo(p, d)' /\ CameFrom(q, e)'
  BY <1>2, <1>4, <1>5, <1>6 DEF SentTo, CameFrom
<1>8. ASSUME NEW r \in PE, NEW c \in Dir
      PROVE  /\ ~(r = p /\ c = d) => (SentTo(r, c)' <=> SentTo(r, c))
             /\ ~(r = q /\ c = e) => (CameFrom(r, c)' <=> CameFrom(r, c))
  <2>1. /\ <<"out", c>> \in moved'[r] <=> <<"out", c>> \in moved[r] \/ (r = p /\ c = d)
        /\ <<"in", c>> \in moved'[r] <=> <<"in", c>> \in moved[r] \/ (r = q /\ c = e)
    BY <1>2, <1>4
  <2> QED
    BY <1>3, <1>5, <2>1 DEF SentTo, CameFrom
<1>9. ASSUME NEW r \in PE, NEW c \in Dir, HasNeighbour(r, c)
      PROVE  SentTo(r, c)' <=> CameFrom(Neighbour(r, c), Opposite(c))'
  <2>1. CASE r = p /\ c = d
    BY <1>7, <2>1 DEF q, e
  <2>2. CASE ~(r = p /\ c = d)
    <3>1. /\ Neighbour(r, c) \in PE /\ Opposite(c) \in Dir
          /\ ~(Neighbour(r, c) = q /\ Opposite(c) = e)
      BY <1>2, <1>9, <2>2, Facings
    <3> QED
      BY <1>8, <1>9, <2>2, <3>1 DEF Paired
  <2> QED
    BY <2>1, <2>2
<1> QED
  BY <1>9 DEF Paired

LEMMA PairedAfterIssue ==
  ASSUME IInv, Paired, NEW p \in PE, Issue(p)
  PROVE  Paired'
<1>1. TypeOK /\ Places /\ Streams /\ InStep
  BY DEF IInv
<1>2. /\ backend' = backend /\ moved' = moved /\ pc[p] = "issue"
      /\ queue' = [queue EXCEPT ![p] = queue[p] \o Ops(p)]
  BY DEF Issue, run
<1>3. \A q \in PE : Stage(q)' = Stage(q)
  BY IssueStep
<1>4. ASSUME backend = "mpi", Stage(p) = 2
      PROVE  Len(queue[p]) # 1 /\ Len(queue'[p]) # 1
  <2>1. queue[p] = <<>>
    BY <1>1, <1>2, <1>4 DEF Streams, InPhase
  <2>2. Stage(p) = (4 * (step[p] - 1) + (phase[p] - 1) + 1) - 4 * Done
    BY <1>2, <2>1 DEF Stage, Reached, Issued
  <2>3. step[p] \in Nat /\ phase[p] \in 1 .. 4 /\ Done \in Nat
    BY <1>1, Types
  <2> DEFINE k == step[p]
             f == phase[p]
             n == Done
  <2>4. (4 * (k - 1) + (f - 1) + 1) - 4 * n = 2 /\ k \in Nat /\ f \in 1 .. 4 /\ n \in Nat
    BY <1>4, <2>2, <2>3
  <2> HIDE DEF k, f, n
  <2>5. f = 2
    BY <2>4, SMT
  <2>6. Len(Ops(p)) = 2 /\ Ops(p) \in Seq(Op)
    BY <1>1, <1>4, <2>5, OpsOf DEF f
  <2>7. queue'[p] = <<>> \o Ops(p)
    BY <1>1, <1>2, <2>1, Types
  <2> QED
    BY <2>1, <2>6, <2>7
<1>5. \A q \in PE \ {p} : queue'[q] = queue[q]
  BY <1>1, <1>2, Types
<1>6. ASSUME NEW q \in PE
      PROVE  \A d : (SentTo(q, d)' <=> SentTo(q, d)) /\ (CameFrom(q, d)' <=> CameFrom(q, d))
  <2>1. backend = "mpi" /\ Stage(q) = 2 => (Len(queue'[q]) = 1 <=> Len(queue[q]) = 1)
    BY <1>4, <1>5
  <2> QED
    BY <1>2, <1>3, <2>1, InPlace
<1> QED
  BY <1>6, PairedKept

LEMMA PairedStep == IInv /\ Paired /\ [Next]_vars => Paired'
<1> SUFFICES ASSUME IInv, Paired, [Next]_vars PROVE Paired'
  OBVIOUS
<1>1. ASSUME backend' = backend, queue' = queue, moved' = moved, \A q \in PE : Stage(q)' = Stage(q)
      PROVE  Paired'
  <2>1. \A q \in PE : \A d : /\ SentTo(q, d)' <=> SentTo(q, d)
                             /\ CameFrom(q, d)' <=> CameFrom(q, d)
    BY <1>1, InPlace
  <2> QED
    BY <2>1, PairedKept
<1>2. ASSUME NEW p \in PE, InitSide(p) \/ Sync(p)
      PROVE  Paired'
  <2>1. backend' = backend /\ queue' = queue /\ moved' = moved
    BY <1>2 DEF InitSide, Sync, run
  <2> QED
    BY <1>1, <1>2, <2>1, InitSideStep, SyncStep
<1>3. CASE Collective
  <2>1. backend' = backend /\ queue' = queue /\ moved' = moved
    BY <1>3 DEF Collective, run
  <2> QED
    BY <1>1, <1>3, <2>1, CollectiveStep
<1>4. CASE Reduce
  <2>1. \A p \in PE : Stage(p)' = 1
    BY <1>4, ReduceStep
  <2>2. \A p \in PE : \A d : ~SentTo(p, d)' /\ ~CameFrom(p, d)'
    BY <2>1, SMT DEF SentTo, CameFrom
  <2> QED
    BY <2>2, Facings DEF Paired
<1>5. CASE UNCHANGED vars
  <2>1. backend' = backend /\ queue' = queue /\ moved' = moved /\ \A q \in PE : Stage(q)' = Stage(q)
    BY <1>5 DEF vars, run, data, Stage, Reached, Issued, Nth, Done
  <2> QED
    BY <1>1, <2>1
<1> QED
  BY <1>2, <1>3, <1>4, <1>5, PairedAfterPop, PairedAfterHalo, PairedAfterTransfer, PairedAfterIssue
  DEF Next, HostStep, DeviceStep

LEMMA PairedInit == Init => Paired
<1> SUFFICES ASSUME Init PROVE Paired
  OBVIOUS
<1>1. \A p \in PE : moved[p] = {} /\ Len(queue[p]) = 0 /\ queue[p] = <<>> /\ pc[p] = "init" /\ step[p] = 1
  BY DEF Init
<1>2. Done = 0
  BY Constants DEF Init, Done
<1>3. \A p \in PE : Stage(p) = 1
  BY <1>1, <1>2, SMT DEF Stage, Reached, Issued
<1>4. \A p \in PE : \A d : ~SentTo(p, d) /\ ~CameFrom(p, d)
  BY <1>3, SMT DEF SentTo, CameFrom
<1> QED
  BY <1>4, Facings DEF Paired

(* Where every stream is in its column exchange or at its reduction, the    *)
(* ranks that are in the exchange can go on with it: with one group, both  *)
(* ends of a transfer that is left are in it, and among MPI's shifts those *)
(* that are in the first one can finish it.                                *)
LEMMA MeetsPeer ==
  ASSUME IInv, Paired, \A q \in PE : queue[q] # <<>> /\ Stage(q) \in {2, 4},
         NEW p \in PE, Stage(p) = 2, Head(queue[p]).moves # moved[p],
         \/ backend # "mpi"
         \/ backend = "mpi" /\ Len(queue[p]) = 2
         \/ backend = "mpi" /\ \A q \in PE : Stage(q) = 2 => Len(queue[q]) = 1
  PROVE  \E r \in PE : \E d \in Dir : CanTransfer(r, d)
<1>1. TypeOK /\ Places /\ Streams /\ InStep /\ \A q \in PE : Columns(q)
  BY DEF IInv, Buffers
<1>2. \A q \in PE : /\ HeadIs(q, "halo") <=> Stage(q) = 2
                    /\ Stage(q) = 2 /\ backend # "mpi" => Head(queue[q]).moves = HaloGroup(q)[1]
                    /\ Stage(q) = 2 /\ backend = "mpi" =>
                         \/ Len(queue[q]) = 1 /\ Head(queue[q]).moves = HaloShifts(q)[2]
                         \/ Len(queue[q]) = 2 /\ Head(queue[q]).moves = HaloShifts(q)[1]
  BY <1>1, AtHead, OneUnlessHalo
<1>3. moved[p] \subseteq Head(queue[p]).moves
  BY <1>1, <1>2 DEF Columns
<1>4. PICK m \in Head(queue[p]).moves : m \notin moved[p]
  BY <1>3
<1>5. PICK d \in Dir : HasNeighbour(p, d) /\ (m = <<"out", d>> \/ m = <<"in", d>>)
  BY <1>2, <1>4, MovesAre DEF Move, Dir
<1> DEFINE q == Neighbour(p, d)
           e == Opposite(d)
<1>6. /\ q \in PE /\ q # p /\ e \in Dir /\ HasNeighbour(q, e)
      /\ Neighbour(q, e) = p /\ Opposite(e) = d
      /\ (d = "west" /\ e = "east") \/ (d = "east" /\ e = "west")
  <2>1. (d = "west" /\ e = "east") \/ (d = "east" /\ e = "west")
    BY DEF Opposite, Dir
  <2> QED
    BY <1>5, <2>1, Facings
<1>7. /\ SentTo(p, d) <=> CameFrom(q, e)
      /\ SentTo(q, e) <=> CameFrom(p, d)
  BY <1>5, <1>6 DEF Paired
<1> HIDE DEF q, e
(* The shift the move is of.                                               *)
<1>8. backend = "mpi" =>
        /\ Len(queue[p]) = 2 => m \in {<<"out", "west">>, <<"in", "east">>}
        /\ Len(queue[p]) = 1 => m \in {<<"out", "east">>, <<"in", "west">>}
  BY <1>2, <1>4, MovesAre
<1>9. Stage(q) = 2 \/ Stage(q) = 4
  BY <1>6
<1>10. CASE m = <<"out", d>>
  <2>1. ~SentTo(p, d)
    BY <1>4, <1>8, <1>10 DEF SentTo
  <2>2. ~CameFrom(q, e)
    BY <1>7, <2>1
  <2>3. Stage(q) = 2 /\ <<"in", e>> \notin moved[q] /\ ~(backend = "mpi" /\ Len(queue[q]) = 1 /\ e = "east")
    BY <1>9, <2>2 DEF CameFrom
  <2>4. <<"in", e>> \in Head(queue[q]).moves
    <3>1. CASE backend # "mpi"
      BY <1>2, <1>6, <2>3, <3>1, MovesAre DEF Move
    <3>2. CASE backend = "mpi" /\ Len(queue[p]) = 2
      <4>1. d = "west" /\ e = "east"
        BY <1>6, <1>8, <1>10, <3>2
      <4> QED
        BY <1>2, <1>6, <2>3, <3>2, <4>1, MovesAre
    <3>3. CASE backend = "mpi" /\ Len(queue[p]) # 2
      <4>1. Len(queue[p]) = 1 /\ Len(queue[q]) = 1
        BY <1>2, <1>6, <2>3, <3>3
      <4>2. e = "west"
        BY <1>6, <1>8, <1>10, <3>3, <4>1
      <4> QED
        BY <1>2, <1>6, <2>3, <3>3, <4>1, <4>2, MovesAre
    <3> QED
      BY <3>1, <3>2, <3>3
  <2>5. CanTransfer(p, d)
    BY <1>2, <1>4, <1>5, <1>6, <1>10, <2>3, <2>4 DEF CanTransfer, q, e
  <2> QED
    BY <2>5
<1>11. CASE m = <<"in", d>>
  <2>1. ~CameFrom(p, d)
    BY <1>4, <1>8, <1>11 DEF CameFrom
  <2>2. ~SentTo(q, e)
    BY <1>7, <2>1
  <2>3. Stage(q) = 2 /\ <<"out", e>> \notin moved[q] /\ ~(backend = "mpi" /\ Len(queue[q]) = 1 /\ e = "west")
    BY <1>9, <2>2 DEF SentTo
  <2>4. <<"out", e>> \in Head(queue[q]).moves
    <3>1. CASE backend # "mpi"
      BY <1>2, <1>6, <2>3, <3>1, MovesAre DEF Move
    <3>2. CASE backend = "mpi" /\ Len(queue[p]) = 2
      <4>1. d = "east" /\ e = "west"
        BY <1>6, <1>8, <1>11, <3>2
      <4> QED
        BY <1>2, <1>6, <2>3, <3>2, <4>1, MovesAre
    <3>3. CASE backend = "mpi" /\ Len(queue[p]) # 2
      <4>1. Len(queue[p]) = 1 /\ Len(queue[q]) = 1
        BY <1>2, <1>6, <2>3, <3>3
      <4>2. e = "east"
        BY <1>6, <1>8, <1>11, <3>3, <4>1
      <4> QED
        BY <1>2, <1>6, <2>3, <3>3, <4>1, <4>2, MovesAre
    <3> QED
      BY <3>1, <3>2, <3>3
  <2>5. CanTransfer(q, e)
    BY <1>2, <1>4, <1>6, <1>11, <2>3, <2>4 DEF CanTransfer
  <2> QED
    BY <1>6, <2>5
<1> QED
  BY <1>5, <1>10, <1>11

(* A host that waits at a collective operation has nothing on its stream,  *)
(* and its loops are at an end: then all devices have reduced the last     *)
(* step there is, and no other host waits for its device.                  *)
LEMMA NoneWaitsAlone ==
  ASSUME IInv, NEW p \in PE, pc[p] = "sync", queue[p] # <<>>, NEW q \in PE, pc[q] \in AtCollective
  PROVE  FALSE
<1>1. TypeOK /\ Together /\ Places /\ Streams /\ InStep
  BY DEF IInv
<1>2. Epoch(p) = IF InSide(p) <= StepsPerPass THEN 1 ELSE 3
  BY DEF Epoch
<1>3. Epoch(q) = Epoch(p) /\ side[q] = side[p]
  BY <1>1 DEF Together
<1>4. pc[q] = "stats" /\ Epoch(q) = IF InSide(q) <= StepsPerPass THEN 1 ELSE 3
  BY <1>2, <1>3 DEF Epoch, AtCollective
<1>5. /\ InSide(q) \in {StepsPerPass, StepsPerSide} /\ queue[q] = <<>>
      /\ InSide(p) \in 1 .. StepsPerSide
  BY <1>1, <1>4 DEF Places
<1>6. /\ StepsPerPass \in Nat \ {0} /\ StepsPerSide \in Nat \ {0}
      /\ StepsPerSide = StepsPerPass \/ StepsPerSide = 2 * StepsPerPass
  BY <1>1, PerPass
<1>7. InSide(p) <= InSide(q)
  BY <1>2, <1>3, <1>4, <1>5, <1>6, SMT
<1>8. /\ step[p] = Base(p) + InSide(p) /\ step[q] = Base(q) + InSide(q) /\ Base(q) = Base(p)
      /\ Base(p) \in Nat /\ step[p] \in Nat /\ step[q] \in Nat /\ phase[p] \in 1 .. 4
      /\ Done \in Nat
  BY <1>1, <1>3, Here, Types DEF Base
<1>9. step[p] <= step[q]
  BY <1>5, <1>6, <1>7, <1>8, SMT
<1>10. Stage(q) = (4 * step[q] + 1) - 4 * Done /\ Stage(q) \in 1 .. 4
  BY <1>1, <1>4, <1>5 DEF Stage, Reached, Issued, InStep
<1>11. /\ Stage(p) \in 1 .. 4 /\ Head(queue[p]) = queue[p][1] /\ Head(queue[p]).step = Done + 1
       /\ Head(queue[p]).phase = Stage(p) /\ Len(queue[p]) \in Nat \ {0} /\ 1 \in 1 .. Len(queue[p])
  BY <1>1, AtHead
<1>12. Done + 1 <= step[p]
  <2>1. CASE backend = "mpi"
    BY <1>1, <1>8, <1>11, <2>1, SMT DEF Streams, InPhase
  <2>2. CASE backend # "mpi"
    <3>1. Nth(queue[p][1]) = Issued(p) - Len(queue[p]) + 1 /\ Issued(p) = 4 * (step[p] - 1) + phase[p]
      BY <1>1, <1>11, <2>2 DEF Streams, InOrder, Issued
    <3>2. Nth(queue[p][1]) = 4 * Done + Stage(p)
      <4>1. Nth(queue[p][1]) = 4 * ((Done + 1) - 1) + Stage(p)
        BY <1>11 DEF Nth
      <4>2. \A n \in Nat : (n + 1) - 1 = n
        BY SMT
      <4> QED
        BY <1>8, <4>1, <4>2
    <3> DEFINE k == step[p]
               f == phase[p]
               n == Done
               m == Stage(p)
               l == Len(queue[p])
    <3>3. /\ 4 * n + m = (4 * (k - 1) + f) - l + 1
          /\ k \in Nat /\ f \in 1 .. 4 /\ n \in Nat /\ m \in 1 .. 4 /\ l \in Nat \ {0}
      BY <1>8, <1>11, <3>1, <3>2
    <3> HIDE DEF k, f, n, m, l
    <3>4. n + 1 <= k
      BY <3>3, SMT
    <3> QED
      BY <3>4 DEF k, n
  <2> QED
    BY <2>1, <2>2
<1> DEFINE k == step[p]
           j == step[q]
           n == Done
           m == Stage(q)
<1>13. k \in Nat /\ j \in Nat /\ n \in Nat /\ n + 1 <= k /\ k <= j /\ m = (4 * j + 1) - 4 * n /\ m \in 1 .. 4
  BY <1>8, <1>9, <1>10, <1>12
<1> HIDE DEF k, j, n, m
<1> QED
  BY <1>13, SMT

LEMMA StepsGoOn == IInv /\ Paired => NobodyStuck
<1> SUFFICES ASSUME IInv, Paired, NEW p0 \in PE, pc[p0] # "exit", ~SomeoneCanGoOn
             PROVE  FALSE
  BY DEF NobodyStuck
<1>1. TypeOK /\ Together /\ Places /\ Streams /\ InStep
  BY DEF IInv
<1>2. /\ \A p \in PE : ~HostCanGoOn(p) /\ ~DeviceCanGoOn(p)
      /\ ~(\A p \in PE : HeadIs(p, "reduce")) /\ ~(\A p \in PE : pc[p] \in AtCollective)
  BY DEF SomeoneCanGoOn
<1>3. \A p \in PE : pc[p] # "exit"
  <2>1. \A p \in PE : Epoch(p) = Epoch(p0) /\ pc[p] \in PC
    BY <1>1, Types DEF Together
  <2>2. Epoch(p0) # 5
    BY <2>1 DEF Epoch, PC
  <2>3. \A p \in PE : pc[p] = "exit" => Epoch(p) = 5
    BY DEF Epoch
  <2> QED
    BY <2>1, <2>2, <2>3
<1>4. \A p \in PE : pc[p] \in AtCollective \/ (pc[p] = "sync" /\ queue[p] # <<>>)
  <2>1. \A p \in PE : pc[p] \in PC /\ (pc[p] = "init" => queue[p] = <<>>)
    BY <1>1, Types DEF Places
  <2> QED
    BY <1>2, <1>3, <2>1 DEF HostCanGoOn, PC, AtCollective
<1>5. PICK p1 \in PE : pc[p1] = "sync" /\ queue[p1] # <<>>
  BY <1>2, <1>4
<1>6. \A p \in PE : pc[p] = "sync" /\ queue[p] # <<>>
  BY <1>4, <1>5, NoneWaitsAlone
<1>7. \A p \in PE : queue[p] # <<>> /\ Stage(p) \in {2, 4}
  <2>1. \A p \in PE : Stage(p) \in 1 .. 4 /\ Stage(p) # 1 /\ Stage(p) # 3
    BY <1>1, <1>2, <1>6, AtHead DEF DeviceCanGoOn
  <2>2. \A n \in 1 .. 4 : n # 1 /\ n # 3 => n \in {2, 4}
    BY SMT
  <2> QED
    BY <1>6, <2>1, <2>2
<1>8. PICK p2 \in PE : Stage(p2) = 2
  BY <1>1, <1>2, <1>7, AtHead
<1>9. \A p \in PE : Stage(p) = 2 => Head(queue[p]).moves # moved[p]
  BY <1>1, <1>2, <1>7, AtHead DEF DeviceCanGoOn, CanEndHalo
<1>10. ~(\E r \in PE : \E d \in Dir : CanTransfer(r, d))
  BY <1>2 DEF DeviceCanGoOn
<1>11. CASE backend # "mpi"
  BY <1>7, <1>8, <1>9, <1>10, <1>11, MeetsPeer
<1>12. CASE backend = "mpi"
  <2>1. \A p \in PE : Stage(p) = 2 => Len(queue[p]) # 2
    BY <1>7, <1>9, <1>10, <1>12, MeetsPeer
  <2>2. \A p \in PE : Stage(p) = 2 => Len(queue[p]) = 1
    BY <1>1, <1>7, <1>12, <2>1, OneUnlessHalo
  <2> QED
    BY <1>7, <1>8, <1>9, <1>10, <1>12, <2>2, MeetsPeer
<1> QED
  BY <1>11, <1>12

(* Neither the transfers of a group nor MPI's two shifts leave the ranks   *)
(* waiting for each other in a circle, however far they are apart, and no  *)
(* host waits at a collective operation for one whose device waits for it. *)
THEOREM NobodyStuckHolds == Spec => []NobodyStuck
<1>1. Init => IInv /\ Paired
  BY InvInit, PairedInit
<1>2. IInv /\ Paired /\ [Next]_vars => (IInv /\ Paired)'
  BY InvStep, PairedStep
<1>3. IInv /\ Paired => NobodyStuck
  BY StepsGoOn
<1> QED
  BY <1>1, <1>2, <1>3, PTL DEF Spec

=============================================================================
