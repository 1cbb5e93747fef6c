---------------------------- MODULE CgShmemProofs ----------------------------
(***************************************************************************)
(* The types of CgShmem, and, where RMA leaves no device work behind, that *)
(* every PE computes with the ghost columns of its step, for every number  *)
(* of PEs and every sweep.                                                 *)
(***************************************************************************)
EXTENDS CgShmem, TLAPS

(***************************************************************************)
(* What the programs rely on when they split a grid side or a vector with  *)
(* include/partition.hpp: the slabs tile the items, and the slab of the    *)
(* largest grid side has room for those of the smaller ones.               *)
(***************************************************************************)

(* Division with remainder, in the form the proofs below use it.           *)
LEMMA DivMod ==
  ASSUME NEW total \in Nat, NEW ranks \in Nat \ {0}
  PROVE  /\ total \div ranks \in Nat
         /\ total % ranks \in 0 .. ranks - 1
         /\ total = ranks * (total \div ranks) + (total % ranks)
  BY SMT

(* The slab of the next rank starts where that of a rank ends: no item of  *)
(* local_offset and local_count is owned twice or by nobody.               *)
THEOREM SlabsAdjoin ==
  ASSUME NEW total \in Nat, NEW ranks \in Nat \ {0}, NEW rank \in 0 .. ranks - 1
  PROVE  LocalOffset(total, rank + 1, ranks) =
           LocalOffset(total, rank, ranks) + LocalCount(total, rank, ranks)
<1> DEFINE q == total \div ranks
           r == total % ranks
<1>1. q \in Nat /\ r \in 0 .. ranks - 1
  BY DivMod
<1>2. (rank + 1) * q = rank * q + q
  BY <1>1, SMT
<1> HIDE DEF q, r
<1>3. (rank + 1) * q + (IF rank + 1 < r THEN rank + 1 ELSE r) =
        rank * q + (IF rank < r THEN rank ELSE r) + (q + (IF rank < r THEN 1 ELSE 0))
  <2> DEFINE a == (rank + 1) * q
             b == rank * q
  <2>1. a = b + q /\ b \in Int
    BY <1>1, <1>2, SMT
  <2> HIDE DEF a, b
  <2> QED
    <3>1. a + (IF rank + 1 < r THEN rank + 1 ELSE r) =
            b + (IF rank < r THEN rank ELSE r) + (q + (IF rank < r THEN 1 ELSE 0))
      BY <1>1, <2>1, SMT
    <3> QED
      BY <3>1 DEF a, b
<1> QED
  BY <1>3 DEF q, r, LocalOffset, LocalCount

(* The first slab starts at the first item, and the last one ends with the *)
(* last: with SlabsAdjoin, the slabs tile the items.                       *)
THEOREM SlabsCover ==
  ASSUME NEW total \in Nat, NEW ranks \in Nat \ {0}
  PROVE  /\ LocalOffset(total, 0, ranks) = 0
         /\ LocalOffset(total, ranks - 1, ranks) + LocalCount(total, ranks - 1, ranks) = total
<1> DEFINE q == total \div ranks
           r == total % ranks
<1>1. q \in Nat /\ r \in 0 .. ranks - 1 /\ total = ranks * q + r
  BY DivMod
<1>2. LocalOffset(total, 0, ranks) = 0
  <2>1. 0 * q = 0
    BY <1>1, SMT
  <2> QED
    BY <1>1, <2>1, SMT DEF LocalOffset
<1>3. LocalOffset(total, ranks, ranks) = total
  BY <1>1, SMT DEF LocalOffset
<1>4. LocalOffset(total, (ranks - 1) + 1, ranks) =
        LocalOffset(total, ranks - 1, ranks) + LocalCount(total, ranks - 1, ranks)
  <2>1. ranks - 1 \in 0 .. ranks - 1
    BY SMT
  <2> QED
    BY <2>1, SlabsAdjoin
<1>5. (ranks - 1) + 1 = ranks
  BY SMT
<1> QED
  BY <1>2, <1>3, <1>4, <1>5

(* A rank's slab does not shrink when the grid grows: "the largest side    *)
(* needs the most room", for which the programs allocate once.             *)
THEOREM LargestSideNeedsMost ==
  ASSUME NEW m \in Nat, NEW n \in Nat, m =< n,
         NEW ranks \in Nat \ {0}, NEW rank \in 0 .. ranks - 1
  PROVE  LocalCount(m, rank, ranks) =< LocalCount(n, rank, ranks)
<1> DEFINE a == m \div ranks
           b == n \div ranks
           r == m % ranks
           s == n % ranks
<1>1. /\ a \in Nat /\ r \in 0 .. ranks - 1 /\ m = ranks * a + r
      /\ b \in Nat /\ s \in 0 .. ranks - 1 /\ n = ranks * b + s
  BY DivMod
<1> HIDE DEF a, b, r, s
<1>2. a =< b
  <2>1. SUFFICES ASSUME b + 1 =< a PROVE FALSE
    BY <1>1, SMT
  <2>2. ranks * (b + 1) =< ranks * a
    BY <1>1, <2>1, SMT
  <2>3. ranks * (b + 1) = ranks * b + ranks
    BY <1>1, SMT
  <2> QED
    BY <1>1, <2>2, <2>3, SMT
<1>3. a + (IF rank < r THEN 1 ELSE 0) =< b + (IF rank < s THEN 1 ELSE 0)
  <2>1. CASE a = b
    <3>1. r =< s
      BY <1>1, <2>1, SMT
    <3> QED
      BY <1>1, <2>1, <3>1, SMT
  <2>2. CASE a < b
    BY <1>1, <2>2, SMT
  <2> QED
    BY <1>1, <1>2, <2>1, <2>2, SMT
<1> QED
  BY <1>3 DEF a, b, r, s, LocalCount

(* With a side at least as large as the rank count every rank owns grid    *)
(* columns, which is what the published configurations rely on.            *)
THEOREM EveryRankOwnsColumns ==
  ASSUME NEW columns \in Nat, NEW ranks \in Nat \ {0}, ranks =< columns,
         NEW rank \in 0 .. ranks - 1
  PROVE  LocalCount(columns, rank, ranks) > 0
<1> DEFINE q == columns \div ranks
           r == columns % ranks
<1>1. q \in Nat /\ r \in 0 .. ranks - 1 /\ columns = ranks * q + r
  BY DivMod
<1> HIDE DEF q, r
<1>2. q > 0
  <2>1. q = 0 => ranks * q = 0
    BY <1>1, SMT
  <2> QED
    BY <1>1, <2>1, SMT
<1>3. q + (IF rank < r THEN 1 ELSE 0) > 0
  BY <1>1, <1>2, SMT
<1> QED
  BY <1>3 DEF q, r, LocalCount

-----------------------------------------------------------------------------
(* The CG step.                                                            *)

LEMMA Shape ==
  /\ Steps \in Nat \ {0} /\ Passes \in Nat \ {0} /\ StepsPerSide \in Nat \ {0}
  /\ Len(Sides) \in Nat \ {0}
  /\ Zero \in Column /\ Garbage \in Column
  /\ \A p \in PE, d \in Dir : HasNeighbour(p, d) => Neighbour(p, d) \in PE
<1>1. Steps \in Nat \ {0} /\ Passes \in Nat \ {0}
  BY CgAssumption
<1>2. StepsPerSide \in Nat \ {0}
  BY <1>1, SMT DEF StepsPerSide
<1>3. Len(Sides) \in Nat \ {0}
  BY GridAssumption, SMT
<1>4. Zero \in Column /\ Garbage \in Column
  BY SMT DEF Zero, Garbage, Column
<1>5. \A p \in PE, d \in Dir : HasNeighbour(p, d) => Neighbour(p, d) \in PE
  BY GridAssumption, SMT DEF PE, Dir, HasNeighbour, Neighbour
<1> QED
  BY <1>1, <1>2, <1>3, <1>4, <1>5

(* A boundary column has an index in the grid.                             *)
LEMMA BoundaryType ==
  ASSUME NEW p \in PE, NEW i \in 1 .. Len(Sides), NEW s \in Nat
  PROVE  Boundary(p, i, s) \in [Dir -> Column]
<1>1. Sides[i] \in Nat /\ p \in Nat /\ N \in Nat \ {0}
  BY GridAssumption, SMT DEF PE
<1>2. Sides[i] \div N \in Int /\ Sides[i] % N \in Int
  BY <1>1, SMT
<1>3. LocalOffset(Sides[i], p, N) \in Int /\ LocalCount(Sides[i], p, N) \in Int
  BY <1>1, <1>2, SMT DEF LocalOffset, LocalCount
<1>4. \A d \in Dir : Edge(p, i, d) \in Int
  BY <1>3, SMT DEF Edge
<1> QED
  BY <1>4 DEF Boundary, Column

LEMMA TypeInit == Init => TypeOK /\ StepsOfSide
<1> SUFFICES ASSUME Init
             PROVE  TypeOK /\ StepsOfSide
  OBVIOUS
<1>1. 1 \in 1 .. Len(Sides)
  BY Shape, SMT
<1>2. 1 \in 1 .. StepsPerSide * Len(Sides) /\ 1 <= StepsPerSide * 1
  BY Shape, SMT
<1>3. TypeOK
  BY <1>1, <1>2, Shape DEF Init, TypeOK, PC
<1>4. StepsOfSide
  BY <1>2 DEF Init, StepsOfSide
<1> QED
  BY <1>3, <1>4

(* A PE may go on from a step that is not the last of its side, and from   *)
(* the last one of a side that is not the last of the sweep.  The last     *)
(* step of a side is the last of a pass.                                   *)
LEMMA NextStep ==
  ASSUME TypeOK, StepsOfSide, NEW p \in PE
  PROVE  /\ LastOfSide(p) => LastOfPass(p)
         /\ ~LastOfSide(p) => /\ step[p] + 1 \in 1 .. StepsPerSide * Len(Sides)
                              /\ step[p] + 1 <= StepsPerSide * side[p]
         /\ side[p] < Len(Sides) => /\ side[p] + 1 \in 1 .. Len(Sides)
                                    /\ step[p] + 1 \in 1 .. StepsPerSide * Len(Sides)
                                    /\ step[p] + 1 <= StepsPerSide * (side[p] + 1)
<1> DEFINE m == side[p]
           n == step[p]
           L == Len(Sides)
           S == StepsPerSide
<1>1. /\ m \in Nat \ {0} /\ m <= L /\ n \in Nat \ {0} /\ n <= S * m
      /\ L \in Nat \ {0} /\ S \in Nat \ {0}
      /\ Steps \in Nat \ {0} /\ Passes \in Nat \ {0} /\ S = Steps * Passes
  BY Shape, SMT DEF TypeOK, StepsOfSide, StepsPerSide
<1> HIDE DEF m, n, L, S
<1>2. S * m <= S * L
  BY <1>1, SMT
<1>3. S * (m + 1) = S * m + S
  BY <1>1, SMT
<1>4. n % S # 0 => n + 1 <= S * m
  <2>1. (S * m) % S = 0
    BY <1>1, SMTT(20)
  <2> QED
    BY <1>1, <2>1, SMT
<1>5. m < L => S * m + S <= S * L
  <2>1. m < L => S * (m + 1) <= S * L
    BY <1>1, SMT
  <2> QED
    BY <1>3, <2>1
<1>6. n % S # 0 => n + 1 \in 1 .. S * L /\ n + 1 <= S * m
  BY <1>1, <1>2, <1>4, SMT
<1>7. m < L => /\ m + 1 \in 1 .. L /\ n + 1 \in 1 .. S * L
               /\ n + 1 <= S * (m + 1)
  BY <1>1, <1>3, <1>5, SMT
<1>8. n % S = 0 => n % Steps = 0
  <2> SUFFICES ASSUME n % S = 0
               PROVE  n % Steps = 0
    OBVIOUS
  <2> DEFINE k == n \div S
  <2>1. k \in Nat /\ n = S * k
    BY <1>1, SMT
  <2> HIDE DEF k
  <2> DEFINE j == Passes * k
  <2>2. n = Steps * j /\ j \in Nat
    BY <1>1, <2>1, SMT
  <2> HIDE DEF j
  <2>3. (Steps * j) % Steps = 0
    BY <1>1, <2>2, SMT
  <2> QED
    BY <2>2, <2>3
<1> QED
  BY <1>6, <1>7, <1>8 DEF m, n, L, S, LastOfSide, LastOfPass

LEMMA TypeStep == TypeOK /\ StepsOfSide /\ [Next]_vars => TypeOK' /\ StepsOfSide'
<1> SUFFICES ASSUME TypeOK, StepsOfSide, [Next]_vars
             PROVE  TypeOK' /\ StepsOfSide'
  OBVIOUS
<1>1. CASE UNCHANGED vars
  BY <1>1 DEF TypeOK, StepsOfSide, vars
<1>2. ASSUME NEW p \in PE, InitSide(p)
      PROVE  TypeOK' /\ StepsOfSide'
  BY <1>2, Shape DEF InitSide, Goto, TypeOK, StepsOfSide, PC
<1>3. ASSUME NEW p \in PE, Pack(p)
      PROVE  TypeOK' /\ StepsOfSide'
  <2>1. Boundary(p, side[p], step[p]) \in [Dir -> Column]
    <3>1. side[p] \in 1 .. Len(Sides) /\ step[p] \in Nat
      BY Shape, SMT DEF TypeOK
    <3> QED
      BY <3>1, BoundaryType
  <2>2. send' \in [PE -> [Dir -> Column]]
    BY <1>3, <2>1 DEF Pack, TypeOK
  <2> QED
    BY <1>3, <2>2 DEF Pack, Goto, TypeOK, StepsOfSide, PC
<1>4. ASSUME NEW p \in PE, PutColumns(p)
      PROVE  TypeOK' /\ StepsOfSide'
  <2>1. PICK on \in {"network", "device"} :
          puts' = puts \cup {[src |-> p, to |-> d, col |-> send[p][d], on |-> on] : d \in Facing(p)}
    BY <1>4 DEF PutColumns
  <2>2. \A d \in Facing(p) : [src |-> p, to |-> d, col |-> send[p][d], on |-> on] \in Put
    BY DEF Facing, Put, TypeOK
  <2>3. puts' \subseteq Put
    BY <2>1, <2>2 DEF TypeOK
  <2> QED
    BY <1>4, <2>3 DEF PutColumns, Goto, TypeOK, StepsOfSide, PC
<1>5. ASSUME NEW p \in PE, Quiet(p)
      PROVE  TypeOK' /\ StepsOfSide'
  BY <1>5 DEF Quiet, Goto, TypeOK, StepsOfSide, PC
<1>6. ASSUME NEW p \in PE, Unpack(p)
      PROVE  TypeOK' /\ StepsOfSide'
  <2>1. ghost' \in [PE -> [Dir -> Column]]
    BY <1>6 DEF Unpack, TypeOK
  <2> QED
    BY <1>6, <2>1 DEF Unpack, Goto, TypeOK, StepsOfSide, PC
<1>7. ASSUME NEW p \in PE, Compute(p)
      PROVE  TypeOK' /\ StepsOfSide'
  BY <1>7 DEF Compute, Goto, TypeOK, StepsOfSide, PC
<1>8. CASE Reduce
  <2>1. step' \in [PE -> 1 .. StepsPerSide * Len(Sides)] /\ StepsOfSide'
    BY <1>8, NextStep DEF Reduce, TypeOK, StepsOfSide
  <2>2. pc' \in [PE -> PC]
    BY <1>8 DEF Reduce, PC
  <2> QED
    BY <1>8, <2>1, <2>2 DEF Reduce, TypeOK
<1>9. CASE Barrier
  <2>1. pc' \in [PE -> PC]
    BY <1>9 DEF Barrier, AfterBarrier, PC
  <2>2. \A p \in PE :
          /\ pc'[p] = "init" => pc[p] = "passEnd" /\ side[p] < Len(Sides)
          /\ pc[p] = "passEnd" /\ pc'[p] \notin {"init", "exit"} => ~LastOfSide(p)
    BY <1>9 DEF Barrier, AfterBarrier
  <2>3. /\ side' = [p \in PE |-> IF pc'[p] = "init" THEN side[p] + 1 ELSE side[p]]
        /\ step' = [p \in PE |-> IF pc[p] = "passEnd" /\ pc'[p] # "exit"
                                  THEN step[p] + 1 ELSE step[p]]
    BY <1>9 DEF Barrier
  <2>4. /\ side' \in [PE -> 1 .. Len(Sides)]
        /\ step' \in [PE -> 1 .. StepsPerSide * Len(Sides)]
    BY <2>2, <2>3, NextStep DEF TypeOK
  <2>5. StepsOfSide'
    BY <2>2, <2>3, NextStep DEF TypeOK, StepsOfSide
  <2> QED
    BY <1>9, <2>1, <2>4, <2>5 DEF Barrier, TypeOK
<1>10. ASSUME NEW m \in puts, Deliver(m)
       PROVE  TypeOK' /\ StepsOfSide'
  <2>1. m \in Put
    BY DEF TypeOK
  <2>2. recv' \in [PE -> [Dir -> Column]]
    <3>1. recv \in [PE -> [Dir -> Column]] /\ m.col \in Column
      BY <2>1 DEF TypeOK, Put
    <3>2. recv' = [recv EXCEPT ![Neighbour(m.src, m.to)] =
                     [recv[Neighbour(m.src, m.to)] EXCEPT ![Opposite(m.to)] = m.col]]
      BY <1>10 DEF Deliver
    <3> QED
      BY <3>1, <3>2
  <2> QED
    BY <1>10, <2>2 DEF Deliver, TypeOK, StepsOfSide
<1> QED
  BY <1>1, <1>2, <1>3, <1>4, <1>5, <1>6, <1>7, <1>8, <1>9, <1>10 DEF Next, PEStep

(* Every variable of the one-sided CG step keeps its type: no PE goes on   *)
(* beyond the sides of the sweep or the steps of a side.                   *)
THEOREM TypeCorrect == Spec => []TypeOK
BY TypeInit, TypeStep, PTL DEF Spec

-----------------------------------------------------------------------------
(* The neighbour of a neighbour the other way round is the PE itself: a    *)
(* receive buffer has one writer, and none at the edge of the grid.        *)
LEMMA Facings ==
  ASSUME NEW p \in PE, NEW d \in Dir, HasNeighbour(p, d)
  PROVE  /\ Neighbour(p, d) \in PE /\ Opposite(d) \in Dir
         /\ Opposite(d) \in Facing(Neighbour(p, d))
         /\ Neighbour(Neighbour(p, d), Opposite(d)) = p
         /\ Opposite(Opposite(d)) = d
BY GridAssumption, SMT DEF PE, Dir, HasNeighbour, Neighbour, Opposite, Facing

LEMMA OneWriter ==
  ASSUME NEW p \in PE, NEW d \in Dir, HasNeighbour(p, d),
         NEW q \in PE, NEW e \in Dir, HasNeighbour(q, e),
         Neighbour(p, d) = Neighbour(q, e), Opposite(d) = Opposite(e)
  PROVE  p = q /\ d = e
BY Facings

LEMMA AllHaveColumns == ASSUME TypeOK, NEW p \in PE PROVE HasColumns(p)
<1>1. side[p] \in 1 .. Len(Sides)
  BY DEF TypeOK
<1>2. Sides[side[p]] \in Nat /\ Sides[side[p]] >= N
  BY <1>1, GridAssumption, GridCoversRanks
<1>3. N \in Nat \ {0} /\ p \in 0 .. N - 1
  BY GridAssumption DEF PE
<1> QED
  BY <1>2, <1>3, EveryRankOwnsColumns DEF HasColumns, OwnsColumns

(* A neighbour's boundary that faces p lies next to p's slab.              *)
LEMMA BoundariesFace ==
  ASSUME NEW p \in PE, NEW d \in Dir, HasNeighbour(p, d), NEW i \in 1 .. Len(Sides), NEW s
  PROVE  Boundary(Neighbour(p, d), i, s)[Opposite(d)] = ExpectedGhosts(p, i, s)[d]
<1>1. /\ Sides[i] \in Nat /\ N \in Nat \ {0} /\ p \in 0 .. N - 1
      /\ \A r \in PE : LocalOffset(Sides[i], r, N) \in Int /\ LocalCount(Sides[i], r, N) \in Int
  <2>1. Sides[i] \in Nat /\ N \in Nat \ {0} /\ p \in 0 .. N - 1
    BY GridAssumption, SMT DEF PE
  <2>2. Sides[i] \div N \in Int /\ Sides[i] % N \in Int
    BY <2>1, SMT
  <2> QED
    BY <2>1, <2>2, SMT DEF LocalOffset, LocalCount, PE
<1> DEFINE q == Neighbour(p, d)
<1>2. q \in PE /\ Opposite(d) \in Dir
  BY Facings
<1>3. Edge(q, i, Opposite(d)) = Edge(p, i, d) + (IF d = "west" THEN -1 ELSE 1)
  <2>1. CASE d = "west"
    <3>1. q = p - 1 /\ q \in 0 .. N - 1 /\ q + 1 = p
      BY <1>1, <1>2, <2>1, SMT DEF Neighbour, PE
    <3>2. LocalOffset(Sides[i], p, N) = LocalOffset(Sides[i], q, N) + LocalCount(Sides[i], q, N)
      BY <1>1, <3>1, SlabsAdjoin
    <3> HIDE DEF q
    <3> QED
      BY <1>1, <1>2, <2>1, <3>2, SMT DEF Edge, Opposite
  <2>2. CASE d = "east"
    <3>1. q = p + 1
      BY <2>2 DEF Neighbour
    <3>2. LocalOffset(Sides[i], q, N) = LocalOffset(Sides[i], p, N) + LocalCount(Sides[i], p, N)
      BY <1>1, <3>1, SlabsAdjoin
    <3> HIDE DEF q
    <3> QED
      BY <1>1, <1>2, <2>2, <3>2, SMT DEF Edge, Opposite, PE
  <2> QED
    BY <2>1, <2>2 DEF Dir
<1> QED
  BY <1>2, <1>3 DEF Boundary, ExpectedGhosts

(* Once all have exchanged, a PE's receive buffers hold its neighbours'    *)
(* columns of this step, and zero at the edges.                            *)
LEMMA ReceivedThisStep ==
  ASSUME IInv, NEW p \in PE, pc[p] \in Computing
  PROVE  recv[p] = ExpectedGhosts(p, side[p], step[p])
<1>1. ASSUME NEW d \in Dir
      PROVE  recv[p][d] = ExpectedGhosts(p, side[p], step[p])[d]
  <2>1. CASE HasNeighbour(p, d)
    <3> DEFINE q == Neighbour(p, d)
               e == Opposite(d)
    <3>1. q \in PE /\ e \in Facing(q) /\ Neighbour(q, e) = p /\ Opposite(e) = d
      BY <2>1, Facings
    <3>2. pc[q] \in Computing /\ step[q] = step[p] /\ side[q] = side[p]
      BY <3>1 DEF IInv, Lockstep
    <3>3. recv[p][d] = Boundary(q, side[q], step[q])[e]
      BY <3>1, <3>2 DEF IInv, Arrived, ArrivedAt
    <3>4. Boundary(q, side[q], step[q])[e] = ExpectedGhosts(p, side[p], step[p])[d]
      BY <2>1, <3>2, BoundariesFace DEF IInv, TypeOK
    <3> QED
      BY <3>3, <3>4
  <2>2. CASE ~HasNeighbour(p, d)
    BY <2>2 DEF IInv, OutsideIsZero, Facing, Computing, ExpectedGhosts
  <2> QED
    BY <2>1, <2>2
<1> QED
  BY <1>1 DEF IInv, TypeOK, ExpectedGhosts

LEMMA InvInit == Init => IInv
<1> SUFFICES ASSUME Init
             PROVE  IInv
  OBVIOUS
<1>1. TypeOK /\ StepsOfSide
  BY TypeInit
<1>2. Lockstep /\ Packed /\ PutsOfQuietPEs /\ OutsideIsZero /\ GhostsOfThisStep
  BY DEF Init, Lockstep, Packed, PutsOfQuietPEs, OutsideIsZero, GhostsOfThisStep
<1>3. Arrived
  BY DEF Init, Arrived, ArrivedAt, Facing, Computing
<1> QED
  BY <1>1, <1>2, <1>3 DEF IInv

(* What the steps of one PE between two collectives leave alone.           *)
LEMMA StageKept ==
  ASSUME Lockstep, NEW p \in PE, NEW from, NEW to, Goto(p, from, to),
         pc \in [PE -> PC], UNCHANGED <<side, step>>,
         \A stage \in {Starting, Exchanging, Computing, {"passEnd"}, {"exit"}} :
           from \in stage <=> to \in stage
  PROVE  Lockstep'
<1>1. \A q \in PE : \A stage \in {Starting, Exchanging, Computing, {"passEnd"}, {"exit"}} :
        pc'[q] \in stage <=> pc[q] \in stage
  BY DEF Goto
<1> QED
  BY <1>1 DEF Lockstep

(* Between two collectives all PEs are in the same stage of the same step, *)
(* whatever RMA leaves behind.                                             *)
LEMMA LockstepStep == TypeOK /\ Lockstep /\ [Next]_vars => Lockstep'
<1> SUFFICES ASSUME TypeOK, Lockstep, [Next]_vars PROVE Lockstep'
  OBVIOUS
<1>1. pc \in [PE -> PC]
  BY DEF TypeOK
<1>2. CASE UNCHANGED vars
  BY <1>2 DEF vars, Lockstep
<1>3. ASSUME NEW p \in PE, PEStep(p)
      PROVE  Lockstep'
  <2>1. PICK from, to :
          /\ Goto(p, from, to) /\ UNCHANGED <<side, step>>
          /\ \/ from = "init" /\ to = "aligned"
             \/ from = "pack" /\ to = "put"
             \/ from = "put" /\ to = "quiet"
             \/ from = "quiet" /\ to = "exchanged"
             \/ from = "unpack" /\ to = "compute"
             \/ from = "compute" /\ to = "reduce"
    BY <1>3 DEF PEStep, InitSide, Pack, PutColumns, Quiet, Unpack, Compute
  <2>2. \A stage \in {Starting, Exchanging, Computing, {"passEnd"}, {"exit"}} :
          from \in stage <=> to \in stage
    BY <2>1 DEF Starting, Exchanging, Computing
  <2> QED
    BY <1>1, <2>1, <2>2, StageKept
<1>4. CASE Reduce
  <2>1. \A p, q \in PE : step[p] = step[q] /\ side[p] = side[q] /\ (LastOfPass(p) <=> LastOfPass(q))
    BY DEF Lockstep, LastOfPass
  <2> QED
    BY <1>4, <2>1 DEF Reduce, Lockstep, Starting, Exchanging, Computing
<1>5. CASE Barrier
  <2>1. \A p \in PE : pc[p] \in {"aligned", "exchanged", "passEnd"}
    BY <1>5 DEF Barrier
  <2>2. \A p, q \in PE : pc[p] = pc[q] /\ side[p] = side[q] /\ step[p] = step[q]
    BY <2>1 DEF Lockstep, Starting, Exchanging, Computing
  <2>3. /\ pc' = [p \in PE |-> AfterBarrier(p)]
        /\ side' = [p \in PE |-> IF pc'[p] = "init" THEN side[p] + 1 ELSE side[p]]
        /\ step' = [p \in PE |-> IF pc[p] = "passEnd" /\ pc'[p] # "exit"
                                  THEN step[p] + 1 ELSE step[p]]
    BY <1>5 DEF Barrier
  <2>4. \A p, q \in PE : pc'[p] = pc'[q]
    BY <2>1, <2>2, <2>3 DEF AfterBarrier, LastOfSide
  <2>5. \A p, q \in PE : side'[p] = side'[q] /\ step'[p] = step'[q]
    BY <2>2, <2>3, <2>4
  <2> QED
    BY <2>4, <2>5 DEF Lockstep
<1>6. ASSUME NEW m \in puts, Deliver(m)
      PROVE  Lockstep'
  BY <1>6 DEF Deliver, Lockstep
<1> QED
  BY <1>2, <1>3, <1>4, <1>5, <1>6 DEF Next

LEMMA InvStep ==
  ASSUME ~DeviceWork
  PROVE  IInv /\ [Next]_vars => IInv'
<1> SUFFICES ASSUME IInv, [Next]_vars
             PROVE  IInv'
  OBVIOUS
<1>0. TypeOK /\ TypeOK' /\ StepsOfSide' /\ Lockstep'
  BY TypeStep, LockstepStep DEF IInv
<1> DEFINE Rest == Packed /\ PutsOfQuietPEs /\ Arrived /\ OutsideIsZero /\ GhostsOfThisStep
<1> SUFFICES Rest'
  BY <1>0 DEF IInv
<1>a. /\ Lockstep /\ Packed /\ PutsOfQuietPEs /\ Arrived
      /\ OutsideIsZero /\ GhostsOfThisStep
  BY DEF IInv
<1>b. pc \in [PE -> PC]
  BY <1>0 DEF TypeOK
<1>1. CASE UNCHANGED vars
  <2>1. Packed' /\ PutsOfQuietPEs' /\ OutsideIsZero' /\ GhostsOfThisStep'
    BY <1>1, <1>a DEF vars, Packed, PutsOfQuietPEs, OutsideIsZero, GhostsOfThisStep
  <2>2. Arrived'
    BY <1>1, <1>a DEF vars, Arrived, ArrivedAt
  <2> QED
    BY <2>1, <2>2
<1>2. ASSUME NEW p \in PE, InitSide(p)
      PROVE  Rest'
  <2>1. \A q \in PE : pc[q] \in Starting /\ pc'[q] \in Starting
    BY <1>2, <1>a, <1>b DEF InitSide, Goto, Lockstep, Starting
  <2>2. Packed' /\ PutsOfQuietPEs' /\ GhostsOfThisStep'
    <3>1. puts = {}
      <4>1. \A m \in puts : m.src \in PE /\ pc[m.src] = "quiet"
        BY <1>0, <1>a DEF PutsOfQuietPEs, TypeOK, Put
      <4> QED
        BY <2>1, <4>1 DEF Starting
    <3>2. puts' = {}
      BY <1>2, <3>1 DEF InitSide
    <3> QED
      BY <2>1, <3>2 DEF Packed, PutsOfQuietPEs, GhostsOfThisStep, Starting
  <2>3. Arrived'
    BY <2>1 DEF Arrived, ArrivedAt, Starting, Computing
  <2>4. OutsideIsZero'
    BY <1>0, <1>2, <1>a, <1>b DEF InitSide, Goto, OutsideIsZero, TypeOK, Facing
  <2> QED
    BY <2>2, <2>3, <2>4
<1>3. ASSUME NEW p \in PE, Pack(p)
      PROVE  Rest'
  <2>1. send' = [send EXCEPT ![p] = Boundary(p, side[p], step[p])]
    BY <1>0, <1>3, AllHaveColumns DEF Pack
  <2>2. Packed'
    BY <1>0, <1>3, <1>a, <1>b, <2>1 DEF Pack, Goto, Packed, TypeOK, Boundary
  <2>3. PutsOfQuietPEs' /\ OutsideIsZero' /\ GhostsOfThisStep'
    BY <1>0, <1>3, <1>a, <1>b
    DEF Pack, Goto, PutsOfQuietPEs, OutsideIsZero, GhostsOfThisStep, Boundary, TypeOK, Put
  <2>4. Arrived'
    BY <1>3, <1>a, <1>b DEF Pack, Goto, Arrived, ArrivedAt, Computing, Facing
  <2> QED
    BY <2>2, <2>3, <2>4
<1>4. ASSUME NEW p \in PE, PutColumns(p)
      PROVE  Rest'
  <2> DEFINE new(d) == [src |-> p, to |-> d, col |-> send[p][d], on |-> "network"]
  <2>1. puts' = puts \cup {new(d) : d \in Facing(p)}
    BY <1>4 DEF PutColumns
  <2>2. pc[p] = "put" /\ pc' = [pc EXCEPT ![p] = "quiet"]
    BY <1>4 DEF PutColumns, Goto
  <2>3. send[p] = Boundary(p, side[p], step[p])
    BY <1>a, <2>2 DEF Packed
  <2>4. Packed' /\ OutsideIsZero' /\ GhostsOfThisStep'
    BY <1>4, <1>a, <1>b, <2>2 DEF PutColumns, Packed, OutsideIsZero, GhostsOfThisStep, Boundary
  <2>5. PutsOfQuietPEs'
    <3>1. ASSUME NEW m \in puts'
          PROVE  /\ pc'[m.src] = "quiet" /\ m.on = "network" /\ HasNeighbour(m.src, m.to)
                 /\ m.col = Boundary(m.src, side[m.src], step[m.src])[m.to]
      <4>1. CASE m \in puts
        BY <1>0, <1>a, <1>b, <2>2, <4>1 DEF PutsOfQuietPEs, TypeOK, Put
      <4>2. CASE m \notin puts
        BY <1>b, <2>1, <2>2, <2>3, <4>2 DEF Facing
      <4> QED
        BY <4>1, <4>2
    <3> QED
      BY <1>4, <3>1 DEF PutColumns, PutsOfQuietPEs, Boundary
  <2>6. Arrived'
    <3>1. ASSUME NEW q \in PE, NEW d \in Facing(q)
          PROVE  ArrivedAt(q, d)'
      <4>1. CASE q = p
        <5>1. new(d) \in puts'
          BY <2>1, <4>1
        <5>2. new(d) = [src |-> p, to |-> d, col |-> Boundary(p, side[p], step[p])[d], on |-> "network"]
          BY <2>3
        <5> QED
          BY <1>4, <1>b, <2>2, <4>1, <5>1, <5>2 DEF PutColumns, ArrivedAt, Computing, Boundary
      <4>2. CASE q # p
        <5>1. ArrivedAt(q, d)
          BY <1>a DEF Arrived
        <5> QED
          BY <1>4, <1>b, <2>1, <2>2, <4>2, <5>1 DEF PutColumns, ArrivedAt, Boundary
      <4> QED
        BY <4>1, <4>2
    <3> QED
      BY <3>1 DEF Arrived
  <2> QED
    BY <2>4, <2>5, <2>6
<1>5. ASSUME NEW p \in PE, Quiet(p)
      PROVE  Rest'
  <2>1. pc[p] = "quiet" /\ pc' = [pc EXCEPT ![p] = "exchanged"]
    BY <1>5 DEF Quiet, Goto
  <2>2. \A m \in puts : m.src # p
    BY <1>5, <1>a DEF Quiet, PutsOfQuietPEs
  <2>3. Packed' /\ OutsideIsZero' /\ GhostsOfThisStep'
    BY <1>5, <1>a, <1>b, <2>1 DEF Quiet, Packed, OutsideIsZero, GhostsOfThisStep, Boundary
  <2>4. PutsOfQuietPEs'
    BY <1>0, <1>5, <1>a, <1>b, <2>1, <2>2 DEF Quiet, PutsOfQuietPEs, Boundary, TypeOK, Put
  <2>5. Arrived'
    <3>1. ASSUME NEW q \in PE, NEW d \in Facing(q)
          PROVE  ArrivedAt(q, d)'
      <4>1. ArrivedAt(q, d)
        BY <1>a DEF Arrived
      <4> QED
        BY <1>5, <1>b, <2>1, <2>2, <4>1 DEF Quiet, ArrivedAt, Computing, Boundary
    <3> QED
      BY <3>1 DEF Arrived
  <2> QED
    BY <2>3, <2>4, <2>5
<1>6. ASSUME NEW p \in PE, Unpack(p)
      PROVE  Rest'
  <2>1. ghost' = [ghost EXCEPT ![p] = recv[p]]
    BY <1>0, <1>6, AllHaveColumns DEF Unpack
  <2>2. recv[p] = ExpectedGhosts(p, side[p], step[p])
    BY <1>6, ReceivedThisStep DEF Unpack, Goto, Computing
  <2>3. GhostsOfThisStep'
    <3>1. ASSUME NEW q \in PE, pc'[q] = "compute"
          PROVE  ghost'[q] = ExpectedGhosts(q, side[q], step[q])
      <4>1. q # p => pc[q] = "compute" /\ ghost'[q] = ghost[q]
        BY <1>0, <1>6, <1>b, <2>1, <3>1 DEF Unpack, Goto, TypeOK
      <4>2. ghost'[p] = recv[p]
        BY <1>0, <2>1 DEF TypeOK
      <4> QED
        BY <1>a, <2>2, <4>1, <4>2 DEF GhostsOfThisStep
    <3> QED
      BY <1>6, <3>1 DEF Unpack, GhostsOfThisStep
  <2>4. Packed' /\ PutsOfQuietPEs' /\ OutsideIsZero'
    BY <1>0, <1>6, <1>a, <1>b
    DEF Unpack, Goto, Packed, PutsOfQuietPEs, OutsideIsZero, Boundary, TypeOK, Put
  <2>5. Arrived'
    BY <1>6, <1>a, <1>b DEF Unpack, Goto, Arrived, ArrivedAt, Computing, Facing
  <2> QED
    BY <2>3, <2>4, <2>5
<1>7. ASSUME NEW p \in PE, Compute(p)
      PROVE  Rest'
  <2>1. Packed' /\ PutsOfQuietPEs' /\ OutsideIsZero' /\ GhostsOfThisStep'
    BY <1>0, <1>7, <1>a, <1>b DEF Compute, Goto, Packed, PutsOfQuietPEs, OutsideIsZero,
                              GhostsOfThisStep, Boundary, TypeOK, Put
  <2>2. Arrived'
    BY <1>7, <1>a, <1>b DEF Compute, Goto, Arrived, ArrivedAt, Computing, Facing
  <2> QED
    BY <2>1, <2>2
<1>8. CASE Reduce
  <2>1. puts = {}
    <3>1. \A m \in puts : m.src \in PE /\ pc[m.src] = "quiet"
      BY <1>0, <1>a DEF PutsOfQuietPEs, TypeOK, Put
    <3> QED
      BY <1>8, <3>1 DEF Reduce
  <2>2. \A p \in PE : pc'[p] \in {"passEnd", "pack"} /\ pc[p] = "reduce"
    BY <1>8 DEF Reduce
  <2>3. UNCHANGED <<puts, recv>>
    BY <1>8 DEF Reduce
  <2>4. Packed' /\ PutsOfQuietPEs' /\ OutsideIsZero' /\ GhostsOfThisStep'
    BY <1>a, <2>1, <2>2, <2>3 DEF Packed, PutsOfQuietPEs, OutsideIsZero, GhostsOfThisStep
  <2>5. Arrived'
    BY <2>2 DEF Arrived, ArrivedAt, Computing
  <2> QED
    BY <2>4, <2>5
<1>9. CASE Barrier
  <2>1. \A p \in PE : pc[p] \in {"aligned", "exchanged", "passEnd"}
    BY <1>9 DEF Barrier
  <2>2. puts = {}
    <3>1. \A m \in puts : m.src \in PE /\ pc[m.src] = "quiet"
      BY <1>0, <1>a DEF PutsOfQuietPEs, TypeOK, Put
    <3> QED
      BY <2>1, <3>1
  <2>3. /\ pc' = [p \in PE |-> AfterBarrier(p)]
        /\ side' = [p \in PE |-> IF pc'[p] = "init" THEN side[p] + 1 ELSE side[p]]
        /\ step' = [p \in PE |-> IF pc[p] = "passEnd" /\ pc'[p] # "exit"
                                  THEN step[p] + 1 ELSE step[p]]
        /\ UNCHANGED <<send, recv, ghost, puts>>
    BY <1>9 DEF Barrier
  <2>4. \A p \in PE : pc'[p] \in {"pack", "unpack", "init", "exit"}
    BY <2>1, <2>3 DEF AfterBarrier
  <2>5. Packed' /\ PutsOfQuietPEs' /\ GhostsOfThisStep'
    BY <2>2, <2>3, <2>4 DEF Packed, PutsOfQuietPEs, GhostsOfThisStep
  <2>6. OutsideIsZero'
    BY <1>a, <2>1, <2>3 DEF OutsideIsZero
  <2>7. Arrived'
    <3>1. ASSUME NEW p \in PE, NEW d \in Facing(p)
          PROVE  ArrivedAt(p, d)'
      <4>1. CASE pc'[p] = "unpack"
        <5>1. pc[p] = "exchanged"
          BY <2>1, <2>3, <4>1 DEF AfterBarrier
        <5>2. step'[p] = step[p] /\ side'[p] = side[p]
          BY <2>3, <4>1, <5>1
        <5>3. ArrivedAt(p, d)
          BY <1>a DEF Arrived
        <5> QED
          BY <2>3, <4>1, <5>1, <5>2, <5>3 DEF ArrivedAt, Boundary
      <4>2. CASE pc'[p] # "unpack"
        BY <2>4, <4>2 DEF ArrivedAt, Computing
      <4> QED
        BY <4>1, <4>2
    <3> QED
      BY <3>1 DEF Arrived
  <2> QED
    BY <2>5, <2>6, <2>7
<1>10. ASSUME NEW m \in puts, Deliver(m)
       PROVE  Rest'
  <2>1. /\ m.src \in PE /\ m.to \in Dir /\ m.on = "network" /\ pc[m.src] = "quiet"
        /\ HasNeighbour(m.src, m.to) /\ m.col = Boundary(m.src, side[m.src], step[m.src])[m.to]
        /\ m = [src |-> m.src, to |-> m.to, col |-> m.col, on |-> m.on]
    BY <1>0, <1>a DEF PutsOfQuietPEs, TypeOK, Put
  <2> DEFINE t == Neighbour(m.src, m.to)
             o == Opposite(m.to)
  <2>2. t \in PE /\ o \in Facing(t) /\ o \in Dir
    BY <2>1, Facings
  <2>3. /\ puts' = puts \ {m}
        /\ recv' = [recv EXCEPT ![t] = [recv[t] EXCEPT ![o] = m.col]]
        /\ UNCHANGED <<pc, side, step, send, ghost>>
    BY <1>10 DEF Deliver
  <2>4. recv \in [PE -> [Dir -> Column]]
    BY <1>0 DEF TypeOK
  <2> HIDE DEF t, o
  <2>5. \A q \in PE, e \in Dir : recv'[q][e] = IF q = t /\ e = o THEN m.col ELSE recv[q][e]
    BY <2>2, <2>3, <2>4
  <2>6. Packed' /\ PutsOfQuietPEs' /\ GhostsOfThisStep'
    <3>1. Packed' /\ GhostsOfThisStep'
      BY <1>a, <2>3 DEF Packed, GhostsOfThisStep
    <3>2. PutsOfQuietPEs'
      BY <1>a, <2>3 DEF PutsOfQuietPEs, Boundary
    <3> QED
      BY <3>1, <3>2
  <2>7. OutsideIsZero'
    BY <1>a, <2>2, <2>3, <2>5 DEF OutsideIsZero
  <2>8. Arrived'
    <3>1. ASSUME NEW p \in PE, NEW d \in Facing(p)
          PROVE  ArrivedAt(p, d)'
      <4>1. ArrivedAt(p, d)
        BY <1>a DEF Arrived
      <4>2. /\ d \in Dir /\ HasNeighbour(p, d)
            /\ Neighbour(p, d) \in PE /\ Opposite(d) \in Dir
        BY Facings DEF Facing
      <4>3. CASE Neighbour(p, d) = t /\ Opposite(d) = o
        <5>1. p = m.src /\ d = m.to
          BY <2>1, <4>2, <4>3, OneWriter DEF t, o
        <5>2. recv'[Neighbour(p, d)][Opposite(d)] = Boundary(p, side[p], step[p])[d]
          BY <2>1, <2>5, <4>2, <4>3, <5>1
        <5> QED
          BY <2>3, <5>2 DEF ArrivedAt, Boundary
      <4>4. CASE ~(Neighbour(p, d) = t /\ Opposite(d) = o)
        <5>1. recv'[Neighbour(p, d)][Opposite(d)] = recv[Neighbour(p, d)][Opposite(d)]
          BY <2>5, <4>2, <4>4
        <5>2. m # [src |-> p, to |-> d, col |-> Boundary(p, side[p], step[p])[d], on |-> "network"]
          BY <4>4 DEF t, o
        <5> QED
          BY <2>3, <4>1, <5>1, <5>2 DEF ArrivedAt, Boundary
      <4> QED
        BY <4>3, <4>4
    <3> QED
      BY <3>1 DEF Arrived
  <2> QED
    BY <2>6, <2>7, <2>8
<1> QED
  BY <1>1, <1>2, <1>3, <1>4, <1>5, <1>6, <1>7, <1>8, <1>9, <1>10 DEF Next, PEStep

(* Where RMA leaves no device work, puts, buffers and PEs stay as IInv     *)
(* says, whichever side of the sweep they are at.                          *)
THEOREM Inductive ==
  ASSUME ~DeviceWork
  PROVE  Spec => []IInv
<1>1. Init => IInv
  BY InvInit
<1>2. IInv /\ [Next]_vars => IInv'
  BY InvStep
<1> QED
  BY <1>1, <1>2, PTL DEF Spec

(* Where RMA leaves no device work behind, the stencil of every step reads *)
(* the ghost columns exchanged in that step, however many PEs and sides.   *)
THEOREM GhostsOfThisStepHolds ==
  ASSUME ~DeviceWork
  PROVE  Spec => []GhostsOfThisStep
<1>1. IInv => GhostsOfThisStep
  BY DEF IInv
<1> QED
  BY <1>1, Inductive, PTL

(* ... and from the halo barrier to the next one nobody writes a receive   *)
(* buffer that kernels read or the host clears.                            *)
THEOREM BuffersAtRestHolds ==
  ASSUME ~DeviceWork
  PROVE  Spec => []BuffersAtRest
<1>1. ASSUME IInv
      PROVE  BuffersAtRest
  <2>1. ASSUME NEW m \in puts
        PROVE  pc[Neighbour(m.src, m.to)] \in Exchanging
    <3>1. m.src \in PE /\ m.to \in Dir /\ HasNeighbour(m.src, m.to) /\ pc[m.src] = "quiet"
      BY <1>1 DEF IInv, PutsOfQuietPEs, TypeOK, Put
    <3>2. Neighbour(m.src, m.to) \in PE
      BY <3>1, Facings
    <3> QED
      BY <1>1, <3>1, <3>2 DEF IInv, Lockstep, Exchanging
  <2> QED
    BY <2>1 DEF BuffersAtRest, Exchanging
<1>2. IInv => BuffersAtRest
  BY <1>1
<1> QED
  BY <1>2, Inductive, PTL

-----------------------------------------------------------------------------
(* No deadlock, device work or not.                                        *)

(* The guards of the steps of a PE.                                        *)
CanGoOn(p) ==
  \/ pc[p] \in {"put", "unpack"}
  \/ pc[p] \in {"init", "compute"} /\ DeviceIdle(p)
  \/ pc[p] = "pack" /\ (HasColumns(p) => DeviceIdle(p))
  \/ pc[p] = "quiet" /\ \A m \in puts : ~(m.src = p /\ m.on = "network")

SomeoneCanGoOn ==
  \/ \E p \in PE : CanGoOn(p)
  \/ puts # {}
  \/ \A p \in PE : pc[p] \in {"aligned", "exchanged", "passEnd"}
  \/ \A p \in PE : pc[p] = "reduce"

(* Until all programs have exited somebody can go on.                      *)
NobodyStuck == (\E p \in PE : pc[p] # "exit") => SomeoneCanGoOn

(* No PE waits at a barrier for one that waits in a reduction, and nobody  *)
(* waits for puts or device work that are not there, for any number of     *)
(* PEs, whether RMA leaves device work behind or not: what keeps the two   *)
(* kinds of collective from being entered at the same time is Lockstep,    *)
(* which the puts have no part in.                                         *)
THEOREM NobodyStuckHolds == Spec => []NobodyStuck
<1>1. Init => TypeOK /\ StepsOfSide /\ Lockstep
  <2>1. Init => Lockstep
    BY DEF Init, Lockstep
  <2> QED
    BY <2>1, TypeInit
<1>2. TypeOK /\ StepsOfSide /\ Lockstep /\ [Next]_vars => (TypeOK /\ StepsOfSide /\ Lockstep)'
  BY TypeStep, LockstepStep
<1>3. TypeOK /\ StepsOfSide /\ Lockstep => NobodyStuck
  <2> SUFFICES ASSUME TypeOK, Lockstep, NEW p \in PE, pc[p] # "exit", ~SomeoneCanGoOn
               PROVE  FALSE
    BY DEF NobodyStuck
  <2>1. \A q \in PE : ~CanGoOn(q) /\ pc[q] \in PC
    BY DEF SomeoneCanGoOn, TypeOK
  <2>2. puts = {}
    BY DEF SomeoneCanGoOn
  <2>3. \A q \in PE : pc[q] \in {"aligned", "exchanged", "passEnd", "reduce", "exit"}
    BY <2>1, <2>2 DEF CanGoOn, DeviceIdle, PC
  <2>4. \A q \in PE : pc[q] # "exit"
    BY DEF Lockstep
  <2>5. \A q, r \in PE : pc[q] = "reduce" => pc[r] = "reduce"
    BY <2>3, <2>4 DEF Lockstep, Computing
  <2> QED
    BY <2>3, <2>4, <2>5 DEF SomeoneCanGoOn
<1> QED
  BY <1>1, <1>2, <1>3, PTL DEF Spec

=============================================================================
