--------------------------- MODULE PingPongProofs ---------------------------
(***************************************************************************)
(* That in every ping-pong the two PEs take turns and each leg arrives     *)
(* before the one that answers it, for every grid and every sweep.  First  *)
(* the signal-driven one, then those driven by the host, then both as      *)
(* MCPingPong composes them.                                               *)
(***************************************************************************)
EXTENDS MCPingPong, TLAPS

LEMMA Shape ==
  /\ 0 \in Block /\ 0 \in PE /\ 1 \in PE
  /\ \A p \in PE : Peer(p) \in PE
  /\ {Sizes, Warmup, Iterations} \subseteq Nat \ {0}
BY CountsAssumption, PingPongAssumption, SMT DEF Block, PE, Peer

LEMMA TypeInit == Init => TypeOK
BY Shape, SMT DEF Init, TypeOK, HostPC, BlockPC

LEMMA TypeStep == TypeOK /\ [Next]_vars => TypeOK'
<1> SUFFICES ASSUME TypeOK, [Next]_vars
             PROVE  TypeOK'
  OBVIOUS
<1>0. \A p \in PE : /\ Signal(p) \in Nat /\ LaunchIters(p) \in Nat
                    /\ FirstPC(p) \in [Block -> BlockPC]
  BY Shape, SMT DEF TypeOK, Signal, LaunchIters, FirstPC, BlockPC
<1>1. CASE UNCHANGED vars
  BY <1>1 DEF TypeOK, vars, hostVars, netVars
<1>2. ASSUME NEW p \in PE, NEW b \in Block, IssuePut(p, b)
      PROVE  TypeOK'
  <2>1. b \in Active => [src |-> p, blk |-> b, round |-> Signal(p)] \in Put
    BY <1>0 DEF Put
  <2>2. puts' \subseteq Put
    BY <1>2, <2>1 DEF IssuePut, TypeOK
  <2> QED
    BY <1>2, <2>2 DEF IssuePut, At, TypeOK, BlockPC, hostVars, netVars
<1>3. ASSUME NEW p \in PE, NEW b \in Block, Quiet(p, b)
      PROVE  TypeOK'
  BY <1>3 DEF Quiet, At, TypeOK, BlockPC, hostVars, netVars
<1>4. ASSUME NEW p \in PE, SetFlag(p)
      PROVE  TypeOK'
  <2>1. sets' \in [PE -> SUBSET Nat]
    BY <1>0, <1>4, Shape DEF SetFlag, TypeOK
  <2>2. pc' \in [PE -> [Block -> BlockPC]]
    BY <1>4, Shape DEF SetFlag, At, TypeOK, BlockPC
  <2> QED
    BY <1>4, <2>1, <2>2 DEF SetFlag, TypeOK, hostVars
<1>5. ASSUME NEW p \in PE, Wait(p)
      PROVE  TypeOK'
  BY <1>5, Shape DEF Wait, At, TypeOK, BlockPC, hostVars, netVars
<1>6. ASSUME NEW p \in PE, GridSync0(p) \/ GridSync1(p)
      PROVE  TypeOK'
  <2>1. pc' \in [PE -> [Block -> BlockPC]]
    <3>1. pc \in [PE -> [Block -> BlockPC]]
      BY DEF TypeOK
    <3>2. CASE GridSync0(p)
      BY <3>1, <3>2 DEF GridSync0, BlockPC
    <3>3. CASE GridSync1(p)
      BY <3>1, <3>3 DEF GridSync1, BlockPC
    <3> QED
      BY <1>6, <3>2, <3>3
  <2>2. UNCHANGED <<host, hostVars, it, netVars>>
    BY <1>6 DEF GridSync0, GridSync1
  <2> QED
    BY <2>1, <2>2 DEF TypeOK, hostVars, netVars
<1>7. ASSUME NEW p \in PE, GridSync2(p)
      PROVE  TypeOK'
  <2>1. it' \in [PE -> Nat]
    BY <1>7, SMT DEF GridSync2, TypeOK
  <2>2. pc' \in [PE -> [Block -> BlockPC]]
    BY <1>0, <1>7 DEF GridSync2, TypeOK
  <2> QED
    BY <1>7, <2>1, <2>2 DEF GridSync2, TypeOK, hostVars, netVars
<1>8. ASSUME NEW p \in PE, Launch(p)
      PROVE  TypeOK'
  BY <1>0, <1>8 DEF Launch, TypeOK, HostPC, hostVars, netVars
<1>9. ASSUME NEW p \in PE, FinishKernel(p)
      PROVE  TypeOK'
  <2>1. base' \in [PE -> Nat]
    <3>1. base[p] + LaunchIters(p) \in Nat
      BY <1>0, SMT DEF TypeOK
    <3> QED
      BY <1>9, <3>1 DEF FinishKernel, TypeOK
  <2> QED
    BY <1>9, <2>1 DEF FinishKernel, TypeOK, HostPC, BlockPC, netVars
<1>10. CASE Check
  <2>1. size' \in [PE -> 1 .. Sizes]
    BY <1>10, Shape, SMT DEF Check, TypeOK
  <2> QED
    BY <1>10, <2>1, Shape DEF Check, TypeOK, HostPC, netVars
<1>11. CASE Barrier
  <2>1. size' \in [PE -> 1 .. Sizes]
    BY <1>11, Shape, SMT DEF Barrier, TypeOK
  <2>2. timed' \in [PE -> BOOLEAN]
    BY <1>11 DEF Barrier, TypeOK
  <2>3. host' \in [PE -> HostPC]
    BY <1>11 DEF Barrier, HostPC
  <2> QED
    BY <1>11, <2>1, <2>2, <2>3 DEF Barrier, TypeOK, netVars
<1>12. ASSUME NEW m \in puts, DeliverPut(m)
       PROVE  TypeOK'
  <2>1. m.src \in PE /\ m.blk \in Active /\ m.round \in Nat /\ Active \subseteq Block
    BY PingPongAssumption DEF TypeOK, Put
  <2>2. recv' \in [PE -> [Block -> Nat]]
    <3>1. recv' = [recv EXCEPT ![Peer(m.src)] = [recv[Peer(m.src)] EXCEPT
                     ![m.blk] = IF m.src = 0 THEN m.round ELSE recv[1][m.blk]]]
      BY <1>12 DEF DeliverPut
    <3>2. (IF m.src = 0 THEN m.round ELSE recv[1][m.blk]) \in Nat
      BY <2>1, Shape DEF TypeOK
    <3> QED
      BY <3>1, <3>2 DEF TypeOK
  <2> QED
    BY <1>12, <2>2 DEF DeliverPut, TypeOK, hostVars
<1>13. ASSUME NEW p \in PE, NEW v \in sets[p], DeliverSet(p, v)
       PROVE  TypeOK'
  BY <1>13 DEF DeliverSet, TypeOK, hostVars
<1> QED
  BY <1>1, <1>2, <1>3, <1>4, <1>5, <1>6, <1>7, <1>8, <1>9, <1>10, <1>11, <1>12, <1>13
  DEF Next, BlockStep, LeaderStep, GridStep, HostStep, Deliver

-----------------------------------------------------------------------------
(* The inductive invariant of PingPongSignal.                              *)

Pings == Legs(0, {"wait", "sync2"})
Pongs == Legs(1, {"sync2"})

Moving == {"put", "quiet", "sync1"}

(* The blocks of a grid are in the same stretch between two grid.sync(),   *)
(* with block 0 alone signalling and waiting.                              *)
Stretch(p, b) ==
  /\ pc[p][0] = "idle" => pc[p][b] = "idle"
  /\ pc[p][0] \in Moving => pc[p][b] \in Moving
  /\ pc[p][0] = "sync0" \/ (p = 1 /\ pc[p][0] = "wait") => b = 0 \/ pc[p][b] = "sync0"
  /\ pc[p][0] \in {"signal", "sync2"} \/ (p = 0 /\ pc[p][0] = "wait") => b = 0 \/ pc[p][b] = "sync2"

GridStage ==
  /\ \A p \in PE, b \in Block : Stretch(p, b)
  /\ pc[0][0] # "sync0"
  /\ \A p \in PE : /\ it[p] = 0 <=> pc[p][0] = "idle"
                   /\ host[p] = "kernel" <=> pc[p][0] # "idle"

(* The initiator waits for a pong or has them all; the peer answers a ping *)
(* only when it is one behind.                                             *)
TakeTurns ==
  /\ Pings = Pongs \/ Pings = Pongs + 1
  /\ pc[0][0] # "wait" => Pings = Pongs
  /\ pc[1][0] \in AfterWait => Pings = Pongs + 1

(* A flag holds the number of legs signalled to it, or of all but the one  *)
(* whose signal is still on its way; nobody is past the wait for that one. *)
Flagged(p, legs) ==
  \/ sets[p] = {} /\ flag[p] = legs
  \/ sets[p] = {legs} /\ flag[p] = legs - 1

Flags ==
  /\ Flagged(1, Pings) /\ Flagged(0, Pongs)
  /\ Pings = Pongs \/ pc[1][0] \in AfterWait => sets[1] = {}
  /\ pc[0][0] # "wait" \/ Pings = Pongs + 1 => sets[0] = {}

PutsInFlight ==
  \A m \in puts : pc[m.src][m.blk] = "quiet" /\ m.round = Signal(m.src)

InFlight(p, b) == [src |-> p, blk |-> b, round |-> Signal(p)] \in puts

(* A chunk is in place once its put is complete; the pongs of the last     *)
(* round trip stay until those of the next are put.                        *)
Chunks ==
  \A b \in Active :
    /\ pc[0][b] = "sync1" \/ pc[0][0] \in {"signal", "wait", "sync2"} => recv[1][b] = Signal(0)
    /\ pc[0][b] = "quiet" => recv[1][b] = Signal(0) \/ InFlight(0, b)
    /\ pc[1][b] = "sync1" \/ pc[1][0] = "signal" => recv[0][b] = Signal(1)
    /\ pc[1][b] = "quiet" => recv[0][b] = Signal(1) \/ InFlight(1, b)
    /\ pc[1][0] \notin AfterWait => recv[0][b] = Pongs

SignalInv ==
  TypeOK /\ GridStage /\ TakeTurns /\ Flags /\ PutsInFlight /\ Chunks

LEMMA SignalInit == Init => SignalInv
<1> SUFFICES ASSUME Init
             PROVE  SignalInv
  OBVIOUS
<1>1. TypeOK /\ \A p \in PE : Signal(p) = 0 /\ it[p] = 0 /\ flag[p] = 0 /\ sets[p] = {}
  BY TypeInit DEF Init, Signal
<1>2. \A p \in PE, b \in Block : pc[p][b] = "idle" /\ recv[p][b] = 0
  BY DEF Init
<1>3. Pings = 0 /\ Pongs = 0
  BY <1>2, Shape, SMT DEF Init, Pings, Pongs, Legs
<1>4. GridStage
  BY <1>2, Shape DEF Init, GridStage, Stretch, Moving
<1>5. TakeTurns /\ Flags
  BY <1>1, <1>2, <1>3, Shape, SMT DEF TakeTurns, Flags, Flagged, AfterWait
<1>6. PutsInFlight /\ Chunks
  BY <1>2, <1>3, Shape, PingPongAssumption DEF Init, PutsInFlight, Chunks
<1> QED
  BY <1>1, <1>4, <1>5, <1>6 DEF SignalInv

(* What a step of a single block leaves alone.                             *)
LEMMA AtMoves ==
  ASSUME TypeOK, NEW p \in PE, NEW b \in Block, NEW from, NEW to, At(p, b, from, to)
  PROVE  /\ pc[p][b] = from
         /\ \A q \in PE, c \in Block : pc'[q][c] = IF q = p /\ c = b THEN to ELSE pc[q][c]
<1>1. pc \in [PE -> [Block -> BlockPC]]
  BY DEF TypeOK
<1>2. pc' = [pc EXCEPT ![p] = [pc[p] EXCEPT ![b] = to]]
  BY DEF At
<1>3. pc'[p] = [pc[p] EXCEPT ![b] = to] /\ \A q \in PE \ {p} : pc'[q] = pc[q]
  BY <1>1, <1>2
<1> QED
  BY <1>1, <1>3 DEF At

(* The steps of a grid as a whole.                                         *)
GridMoves(p) ==
  \/ GridSync0(p) \/ GridSync1(p) \/ GridSync2(p) \/ Launch(p) \/ FinishKernel(p)

LEMMA GridMovesTo ==
  ASSUME TypeOK, GridStage, NEW p \in PE, GridMoves(p)
  PROVE  /\ \A q \in PE \ {p} : pc'[q] = pc[q] /\ it'[q] = it[q] /\ base'[q] = base[q]
                                /\ host'[q] = host[q]
         /\ UNCHANGED netVars
         /\ \/ /\ GridSync0(p) /\ p = 1 /\ \A b \in Block : pc[p][b] = "sync0" /\ pc'[p][b] = "put"
               /\ UNCHANGED <<it, base, host>>
            \/ /\ GridSync1(p) /\ \A b \in Block : pc[p][b] = "sync1"
               /\ \A b \in Block : pc'[p][b] = IF b = 0 THEN "signal" ELSE "sync2"
               /\ UNCHANGED <<it, base, host>>
            \/ /\ GridSync2(p) /\ \A b \in Block : pc[p][b] = "sync2"
               /\ \A b \in Block : pc'[p][b] = FirstPC(p)[b]
               /\ UNCHANGED <<base, host>> /\ it'[p] = it[p] + 1
            \/ /\ Launch(p) /\ \A b \in Block : pc[p][b] = "idle"
               /\ \A b \in Block : pc'[p][b] = FirstPC(p)[b]
               /\ UNCHANGED base /\ it[p] = 0 /\ it'[p] = 1 /\ host'[p] = "kernel"
            \/ /\ FinishKernel(p) /\ \A b \in Block : pc[p][b] = "sync2" /\ pc'[p][b] = "idle"
               /\ base'[p] = base[p] + it[p] /\ it'[p] = 0 /\ host'[p] = "aligned"
<1>1. CASE GridSync0(p)
  <2>1. \A b \in Block : pc[p][b] = "sync0"
    BY <1>1 DEF GridSync0
  <2>2. p = 1
    BY <2>1, Shape DEF GridStage, PE
  <2> QED
    BY <1>1, <2>1, <2>2 DEF GridSync0, TypeOK, hostVars
<1>2. CASE GridSync1(p)
  BY <1>2 DEF GridSync1, TypeOK, hostVars
<1>3. CASE GridSync2(p)
  <2>1. \A b \in Block : FirstPC(p)[b] \in BlockPC
    BY DEF FirstPC, BlockPC
  <2> QED
    BY <1>3 DEF GridSync2, GridReady2, TypeOK, hostVars
<1>4. CASE Launch(p)
  <2>1. pc[p][0] = "idle" /\ it[p] = 0
    BY <1>4 DEF Launch, GridStage
  <2>2. \A b \in Block : pc[p][b] = "idle"
    BY <2>1 DEF GridStage, Stretch
  <2> QED
    BY <1>4, <2>1, <2>2 DEF Launch, TypeOK, hostVars
<1>5. CASE FinishKernel(p)
  BY <1>5 DEF FinishKernel, GridReady2, TypeOK
<1> QED
  BY <1>1, <1>2, <1>3, <1>4, <1>5 DEF GridMoves

LEMMA GridStageStep == SignalInv /\ [Next]_vars => GridStage'
<1> SUFFICES ASSUME TypeOK, GridStage, [Next]_vars
             PROVE  GridStage'
  BY DEF SignalInv
<1> USE DEF Moving
<1>0. 0 \in Block /\ 0 \in PE /\ 1 \in PE /\ \A p \in PE : p = 0 \/ p = 1
  BY Shape DEF PE
<1>1. CASE UNCHANGED vars
  BY <1>1 DEF GridStage, Stretch, vars
<1>2. ASSUME NEW r \in PE, NEW b \in Block, IssuePut(r, b)
      PROVE  GridStage'
  <2>1. /\ pc[r][b] = "put" /\ UNCHANGED <<it, host>>
        /\ \A q \in PE, c \in Block : pc'[q][c] = IF q = r /\ c = b THEN "quiet" ELSE pc[q][c]
    BY <1>2, AtMoves DEF IssuePut
  <2> QED
    BY <1>0, <2>1 DEF GridStage, Stretch
<1>3. ASSUME NEW r \in PE, NEW b \in Block, Quiet(r, b)
      PROVE  GridStage'
  <2>1. /\ pc[r][b] = "quiet" /\ UNCHANGED <<it, host>>
        /\ \A q \in PE, c \in Block : pc'[q][c] = IF q = r /\ c = b THEN "sync1" ELSE pc[q][c]
    BY <1>3, AtMoves DEF Quiet
  <2> QED
    BY <1>0, <2>1 DEF GridStage, Stretch
<1>4. ASSUME NEW r \in PE, SetFlag(r)
      PROVE  GridStage'
  <2>1. /\ pc[r][0] = "signal" /\ UNCHANGED <<it, host>>
        /\ \A q \in PE, c \in Block : pc'[q][c] = IF q = r /\ c = 0
             THEN IF r = 0 THEN "wait" ELSE "sync2" ELSE pc[q][c]
    BY <1>0, <1>4, AtMoves DEF SetFlag
  <2> QED
    BY <1>0, <2>1 DEF GridStage, Stretch
<1>5. ASSUME NEW r \in PE, Wait(r)
      PROVE  GridStage'
  <2>1. /\ pc[r][0] = "wait" /\ UNCHANGED <<it, host>>
        /\ \A q \in PE, c \in Block : pc'[q][c] = IF q = r /\ c = 0
             THEN IF r = 0 THEN "sync2" ELSE "sync0" ELSE pc[q][c]
    BY <1>0, <1>5, AtMoves DEF Wait
  <2> QED
    BY <1>0, <2>1 DEF GridStage, Stretch
<1>6. ASSUME NEW r \in PE, GridMoves(r)
      PROVE  GridStage'
  <2>1. \A b \in Block : FirstPC(r)[b] = IF r = 0 THEN "put" ELSE IF b = 0 THEN "wait" ELSE "sync0"
    BY DEF FirstPC
  <2>2. it[r] \in Nat /\ (it[r] = 0 <=> pc[r][0] = "idle")
    BY DEF TypeOK, GridStage
  <2> QED
    BY <1>0, <1>6, <2>1, <2>2, GridMovesTo DEF GridStage, Stretch
<1>7. CASE Check
  BY <1>0, <1>7 DEF Check, GridStage, Stretch, TypeOK, netVars
<1>8. CASE Barrier
  <2>1. \A p \in PE : host[p] # "kernel" /\ host'[p] # "kernel"
    BY <1>8 DEF Barrier
  <2> QED
    BY <1>8, <2>1 DEF Barrier, GridStage, Stretch, netVars
<1>9. CASE Deliver
  <2>1. UNCHANGED <<pc, it, host>>
    BY <1>9 DEF Deliver, DeliverPut, DeliverSet
  <2> QED
    BY <2>1 DEF GridStage, Stretch
<1> QED
  BY <1>1, <1>2, <1>3, <1>4, <1>5, <1>6, <1>7, <1>8, <1>9
  DEF Next, BlockStep, LeaderStep, GridStep, HostStep, GridMoves

(* The legs are counted by the signals alone: no other step, the launches  *)
(* and the sizes in between included, changes their number.                *)
LegsKept == Pings' = Pings /\ Pongs' = Pongs

LEMMA LegsType == TypeOK => Pings \in Int /\ Pongs \in Int /\ \A p \in PE : Signal(p) \in Int
BY Shape, SMT DEF TypeOK, Pings, Pongs, Legs, Signal

LEMMA LegsOf ==
  ASSUME TypeOK, GridStage
  PROVE  /\ Pings = IF pc[0][0] \in {"idle", "wait", "sync2"} THEN Signal(0) ELSE Signal(0) - 1
         /\ Pongs = IF pc[1][0] \in {"idle", "sync2"} THEN Signal(1) ELSE Signal(1) - 1
<1>1. /\ base[0] \in Int /\ base[1] \in Int /\ it[0] \in Int /\ it[1] \in Int
      /\ it[0] = 0 <=> pc[0][0] = "idle"
      /\ it[1] = 0 <=> pc[1][0] = "idle"
  BY Shape, SMT DEF TypeOK, GridStage
<1> QED
  BY <1>1, SMT DEF Pings, Pongs, Legs, Signal

LEMMA LegsKeptStep ==
  ASSUME SignalInv, [Next]_vars, \A p \in PE : ~SetFlag(p)
  PROVE  LegsKept
<1> USE DEF LegsKept
<1>0. /\ 0 \in Block /\ 0 \in PE /\ 1 \in PE /\ \A p \in PE : p = 0 \/ p = 1
      /\ TypeOK /\ GridStage /\ \A p \in PE : it[p] \in Int /\ base[p] \in Int
  BY Shape, SMT DEF PE, SignalInv, TypeOK
<1>1. ASSUME UNCHANGED <<it, base>>,
             \A p \in PE : pc'[p][0] = pc[p][0] \/ (pc[p][0] \notin {"sync2"} /\ pc'[p][0] \notin {"sync2"}
                                                  /\ (p = 0 => "wait" \notin {pc[p][0], pc'[p][0]}))
                                              \/ (p = 0 /\ {pc[p][0], pc'[p][0]} = {"wait", "sync2"})
      PROVE  LegsKept
  BY <1>0, <1>1 DEF Pings, Pongs, Legs
<1>2. CASE UNCHANGED vars
  BY <1>1, <1>2 DEF vars, hostVars
<1>3. ASSUME NEW r \in PE, NEW b \in Block, IssuePut(r, b) \/ Quiet(r, b)
      PROVE  LegsKept
  <2>1. PICK from \in {"put", "quiet"}, to \in {"quiet", "sync1"} : At(r, b, from, to) /\ UNCHANGED <<it, base>>
    BY <1>3 DEF IssuePut, Quiet, hostVars
  <2>2. pc[r][b] = from /\ \A q \in PE, c \in Block : pc'[q][c] = IF q = r /\ c = b THEN to ELSE pc[q][c]
    BY <1>0, <2>1, AtMoves
  <2> QED
    BY <1>0, <1>1, <2>1, <2>2
<1>4. ASSUME NEW r \in PE, Wait(r)
      PROVE  LegsKept
  <2>1. /\ pc[r][0] = "wait" /\ UNCHANGED <<it, base>>
        /\ \A q \in PE, c \in Block : pc'[q][c] = IF q = r /\ c = 0
             THEN IF r = 0 THEN "sync2" ELSE "sync0" ELSE pc[q][c]
    BY <1>0, <1>4, AtMoves DEF Wait, hostVars
  <2> QED
    BY <1>0, <1>1, <2>1
<1>5. ASSUME NEW r \in PE, GridMoves(r)
      PROVE  LegsKept
  <2>1. /\ FirstPC(r)[0] = IF r = 0 THEN "put" ELSE "wait"
        /\ it[r] \in Nat /\ (it[r] = 0 <=> pc[r][0] = "idle")
    BY <1>0, SMT DEF FirstPC, TypeOK, GridStage
  <2>2. \A q \in PE \ {r} : pc'[q] = pc[q] /\ it'[q] = it[q] /\ base'[q] = base[q]
    BY <1>0, <1>5, GridMovesTo
  <2>3. \/ /\ pc[r][0] \in {"sync0", "sync1"} /\ pc'[r][0] \in {"put", "signal"}
           /\ it'[r] = it[r] /\ base'[r] = base[r]
        \/ /\ pc[r][0] = "sync2" /\ pc'[r][0] = FirstPC(r)[0]
           /\ it'[r] = it[r] + 1 /\ base'[r] = base[r]
        \/ /\ pc[r][0] = "idle" /\ pc'[r][0] = FirstPC(r)[0]
           /\ it[r] = 0 /\ it'[r] = 1 /\ base'[r] = base[r]
        \/ /\ pc[r][0] = "sync2" /\ pc'[r][0] = "idle"
           /\ it'[r] = 0 /\ base'[r] = base[r] + it[r]
    BY <1>0, <1>5, GridMovesTo
  <2>4. Legs(r, IF r = 0 THEN {"wait", "sync2"} ELSE {"sync2"})' = Legs(r, IF r = 0 THEN {"wait", "sync2"} ELSE {"sync2"})
    BY <1>0, <2>1, <2>3, SMT DEF Legs
  <2> QED
    BY <1>0, <2>2, <2>4 DEF Pings, Pongs, Legs
<1>6. CASE Check \/ Barrier \/ Deliver
  <2>1. UNCHANGED <<pc, it, base>>
    BY <1>6 DEF Check, Barrier, Deliver, DeliverPut, DeliverSet, hostVars
  <2> QED
    BY <1>1, <2>1
<1> QED
  BY <1>2, <1>3, <1>4, <1>5, <1>6 DEF Next, BlockStep, LeaderStep, GridStep, HostStep, GridMoves

(* The signal of a leg.                                                    *)
LEMMA SetFlagMoves ==
  ASSUME SignalInv, NEW p \in PE, SetFlag(p)
  PROVE  /\ pc[p][0] = "signal" /\ UNCHANGED <<base, it, flag, puts, recv>>
         /\ \A q \in PE, c \in Block : pc'[q][c] = IF q = p /\ c = 0
              THEN IF p = 0 THEN "wait" ELSE "sync2" ELSE pc[q][c]
         /\ p = 0 => /\ Pings = Pongs /\ Pings' = Pings + 1 /\ Pongs' = Pongs
                     /\ sets'[1] = {Pings'} /\ flag[1] = Pings /\ sets'[0] = sets[0]
                     /\ sets[0] = {}
         /\ p = 1 => /\ Pings = Pongs + 1 /\ Pongs' = Pongs + 1 /\ Pings' = Pings
                     /\ sets'[0] = {Pongs'} /\ flag[0] = Pongs /\ sets'[1] = sets[1]
                     /\ sets[1] = {}
<1>0. /\ 0 \in Block /\ 0 \in PE /\ 1 \in PE /\ \A q \in PE : q = 0 \/ q = 1
      /\ TypeOK /\ GridStage /\ TakeTurns /\ Flags /\ Peer(0) = 1 /\ Peer(1) = 0
  BY Shape, SMT DEF PE, SignalInv, Peer
<1>1. /\ pc[p][0] = "signal" /\ UNCHANGED <<base, it, flag, puts, recv>>
      /\ \A q \in PE, c \in Block : pc'[q][c] = IF q = p /\ c = 0
              THEN IF p = 0 THEN "wait" ELSE "sync2" ELSE pc[q][c]
  BY <1>0, AtMoves DEF SetFlag, hostVars
<1>2. sets' = [sets EXCEPT ![Peer(p)] = @ \cup {Signal(p)}]
  BY DEF SetFlag
<1>3. Pings \in Int /\ Pongs \in Int /\ \A q \in PE : Signal(q) \in Int /\ base[q] \in Int /\ it[q] \in Int
  BY <1>0, LegsType, SMT DEF TypeOK
<1>4. CASE p = 0
  <2>1. Pings = Signal(0) - 1
    BY <1>0, <1>1, <1>4, LegsOf
  <2>2. Pings = Pongs /\ sets[1] = {} /\ sets[0] = {}
    BY <1>0, <1>1, <1>4 DEF TakeTurns, Flags
  <2>3. flag[1] = Pings
    BY <1>0, <2>2 DEF Flags, Flagged
  <2>4. Pings' = Pings + 1 /\ Pongs' = Pongs
    <3>1. Pings' = Pings + 1
      BY <1>0, <1>1, <1>3, <1>4 DEF Pings, Legs
    <3>2. Pongs' = Pongs
      BY <1>0, <1>1, <1>4 DEF Pongs, Legs
    <3> QED
      BY <3>1, <3>2
  <2>5. Signal(0) = Pings'
    BY <1>0, <1>3, <2>1, <2>4, SMT
  <2>6. sets'[1] = {Pings'} /\ sets'[0] = sets[0]
    BY <1>0, <1>2, <1>4, <2>2, <2>5 DEF TypeOK
  <2> QED
    BY <1>1, <1>4, <2>2, <2>3, <2>4, <2>6
<1>5. CASE p = 1
  <2>1. Pongs = Signal(1) - 1
    BY <1>0, <1>1, <1>5, LegsOf
  <2>2. Pings = Pongs + 1 /\ sets[1] = {} /\ sets[0] = {}
    BY <1>0, <1>1, <1>5 DEF TakeTurns, Flags, AfterWait
  <2>3. flag[0] = Pongs
    BY <1>0, <2>2 DEF Flags, Flagged
  <2>4. Pongs' = Pongs + 1 /\ Pings' = Pings
    <3>1. Pongs' = Pongs + 1
      BY <1>0, <1>1, <1>3, <1>5 DEF Pongs, Legs
    <3>2. Pings' = Pings
      BY <1>0, <1>1, <1>5 DEF Pings, Legs
    <3> QED
      BY <3>1, <3>2
  <2>5. Signal(1) = Pongs'
    BY <1>0, <1>3, <2>1, <2>4, SMT
  <2>6. sets'[0] = {Pongs'} /\ sets'[1] = sets[1]
    BY <1>0, <1>2, <1>5, <2>2, <2>5 DEF TypeOK
  <2> QED
    BY <1>1, <1>5, <2>2, <2>3, <2>4, <2>6
<1> QED
  BY <1>0, <1>4, <1>5


LEMMA TurnsKept ==
  ASSUME TakeTurns, Flags, LegsKept, UNCHANGED <<sets, flag>>,
         pc'[0][0] = "wait" <=> pc[0][0] = "wait",
         pc'[1][0] \in AfterWait <=> pc[1][0] \in AfterWait
  PROVE  TakeTurns' /\ Flags'
BY DEF TakeTurns, Flags, Flagged, LegsKept

LEMMA TurnsStep ==
  SignalInv /\ [Next]_vars => TakeTurns' /\ Flags' /\ \A p \in PE : flag'[p] >= flag[p]
<1> DEFINE Grown == \A p \in PE : flag'[p] >= flag[p]
<1> SUFFICES ASSUME SignalInv, [Next]_vars
             PROVE  TakeTurns' /\ Flags' /\ Grown
  OBVIOUS
<1>0. /\ 0 \in Block /\ 0 \in PE /\ 1 \in PE /\ \A p \in PE : p = 0 \/ p = 1
      /\ TypeOK /\ GridStage /\ TakeTurns /\ Flags
  BY Shape, SMT DEF PE, SignalInv
<1>1. /\ Pings \in Int /\ Pongs \in Int /\ \A p \in PE : Signal(p) \in Int
      /\ \A p \in PE : flag[p] \in Int
  BY <1>0, LegsType, SMT DEF TypeOK
<1>2. flag' = flag => Grown
  BY <1>1, SMT
<1>3. ASSUME NEW p \in PE, SetFlag(p)
      PROVE  TakeTurns' /\ Flags' /\ Grown
  <2>1. CASE p = 0
    <3>1. /\ Pings = Pongs /\ Pings' = Pings + 1 /\ Pongs' = Pongs /\ flag' = flag
          /\ sets'[1] = {Pings'} /\ flag[1] = Pings /\ sets'[0] = {}
          /\ pc'[0][0] = "wait" /\ pc'[1][0] = pc[1][0]
      BY <1>0, <1>3, <2>1, SetFlagMoves
    <3>2. pc[1][0] \notin AfterWait
      BY <1>0, <1>1, <3>1, SMT DEF TakeTurns
    <3>3. flag[0] = Pongs
      BY <1>0, <1>3, <2>1, SetFlagMoves DEF Flags, Flagged
    <3>4. TakeTurns'
      BY <1>1, <3>1, <3>2, SMT DEF TakeTurns
    <3>5. Flagged(1, Pings)' /\ Flagged(0, Pongs)'
      BY <1>1, <3>1, <3>3, SMT DEF Flagged
    <3>6. Pings' # Pongs'
      BY <1>1, <3>1, SMT
    <3> QED
      BY <1>2, <3>1, <3>2, <3>4, <3>5, <3>6 DEF Flags
  <2>2. CASE p = 1
    <3>1. /\ Pings = Pongs + 1 /\ Pongs' = Pongs + 1 /\ Pings' = Pings /\ flag' = flag
          /\ sets'[0] = {Pongs'} /\ flag[0] = Pongs /\ sets'[1] = {}
          /\ pc'[1][0] = "sync2" /\ pc'[0][0] = pc[0][0]
      BY <1>0, <1>3, <2>2, SetFlagMoves
    <3>2. pc[0][0] = "wait"
      BY <1>0, <1>1, <3>1, SMT DEF TakeTurns
    <3>3. flag[1] = Pings
      BY <1>0, <1>3, <2>2, SetFlagMoves DEF Flags, Flagged
    <3>4. TakeTurns'
      BY <1>1, <3>1, <3>2, SMT DEF TakeTurns, AfterWait
    <3>5. Flagged(1, Pings)' /\ Flagged(0, Pongs)'
      BY <1>1, <3>1, <3>3, SMT DEF Flagged
    <3>6. Pings' # Pongs' + 1
      BY <1>1, <3>1, SMT
    <3> QED
      BY <1>2, <3>1, <3>2, <3>4, <3>5, <3>6 DEF Flags
  <2> QED
    BY <1>0, <2>1, <2>2
<1>4. ASSUME \A p \in PE : ~SetFlag(p)
      PROVE  TakeTurns' /\ Flags' /\ Grown
  <2>0. LegsKept
    BY <1>4, LegsKeptStep
  <2>1. CASE UNCHANGED vars
    BY <1>0, <1>2, <2>0, <2>1, TurnsKept DEF vars, netVars
  <2>2. ASSUME NEW r \in PE, NEW b \in Block, IssuePut(r, b) \/ Quiet(r, b)
        PROVE  TakeTurns' /\ Flags' /\ Grown
    <3>1. PICK from \in {"put", "quiet"}, to \in {"quiet", "sync1"} :
            At(r, b, from, to) /\ UNCHANGED <<flag, sets>>
      BY <2>2 DEF IssuePut, Quiet, netVars
    <3>2. pc[r][b] = from /\ \A q \in PE, c \in Block : pc'[q][c] = IF q = r /\ c = b THEN to ELSE pc[q][c]
      BY <1>0, <3>1, AtMoves
    <3>3. \A q \in PE : pc'[q][0] = pc[q][0] \/ {pc'[q][0], pc[q][0]} \subseteq {"put", "quiet", "sync1"}
      BY <1>0, <3>1, <3>2
    <3> QED
      BY <1>0, <1>2, <2>0, <3>1, <3>3, TurnsKept DEF AfterWait
  <2>3. ASSUME NEW r \in PE, GridMoves(r)
        PROVE  TakeTurns' /\ Flags' /\ Grown
    <3>1. /\ UNCHANGED <<flag, sets>>
          /\ \A q \in PE \ {r} : pc'[q] = pc[q]
          /\ \/ pc[r][0] \in {"sync0", "sync1"} /\ pc'[r][0] \in {"put", "signal"}
                /\ (pc[r][0] = "sync0" => r = 1)
             \/ pc[r][0] \in {"sync2", "idle"} /\ pc'[r][0] \in {FirstPC(r)[0], "idle"}
      BY <1>0, <2>3, GridMovesTo DEF netVars
    <3>2. FirstPC(r)[0] = IF r = 0 THEN "put" ELSE "wait"
      BY <1>0 DEF FirstPC
    <3>3. pc'[0][0] = "wait" <=> pc[0][0] = "wait"
      BY <1>0, <3>1, <3>2
    <3>4. pc'[1][0] \in AfterWait <=> pc[1][0] \in AfterWait
      BY <1>0, <3>1, <3>2 DEF AfterWait
    <3> QED
      BY <1>0, <1>2, <2>0, <3>1, <3>3, <3>4, TurnsKept
  <2>4. CASE Check \/ Barrier \/ \E m \in puts : DeliverPut(m)
    <3>1. UNCHANGED <<pc, flag, sets>>
      BY <2>4 DEF Check, Barrier, DeliverPut, netVars
    <3> QED
      BY <1>0, <1>2, <2>0, <3>1, TurnsKept
  <2>5. CASE Wait(0)
    <3>1. /\ pc[0][0] = "wait" /\ UNCHANGED <<flag, sets>> /\ flag[0] >= Signal(0)
          /\ pc'[0][0] = "sync2" /\ pc'[1][0] = pc[1][0]
      BY <1>0, <2>5, AtMoves DEF Wait, netVars
    <3>2. Signal(0) = Pings
      BY <1>0, <3>1, LegsOf
    <3>3. Pings = Pongs /\ sets[0] = {}
      BY <1>0, <1>1, <3>1, <3>2, SMT DEF TakeTurns, Flags, Flagged
    <3>4. TakeTurns'
      BY <1>0, <1>1, <2>0, <3>1, <3>3, SMT DEF TakeTurns, LegsKept
    <3>5. Flags'
      BY <1>0, <2>0, <3>1, <3>3 DEF Flags, Flagged, LegsKept
    <3> QED
      BY <1>2, <3>1, <3>4, <3>5
  <2>6. CASE Wait(1)
    <3>1. /\ pc[1][0] = "wait" /\ UNCHANGED <<flag, sets>> /\ flag[1] >= Signal(1)
          /\ pc'[1][0] = "sync0" /\ pc'[0][0] = pc[0][0]
      BY <1>0, <2>6, AtMoves DEF Wait, netVars
    <3>2. Signal(1) = Pongs + 1
      BY <1>0, <1>1, <3>1, LegsOf, SMT
    <3>3. Pings = Pongs + 1 /\ sets[1] = {}
      BY <1>0, <1>1, <3>1, <3>2, SMT DEF TakeTurns, Flags, Flagged
    <3>4. TakeTurns'
      BY <1>0, <1>1, <2>0, <3>1, <3>3, SMT DEF TakeTurns, LegsKept
    <3>5. Flags'
      BY <1>0, <2>0, <3>1, <3>3 DEF Flags, Flagged, LegsKept
    <3> QED
      BY <1>2, <3>1, <3>4, <3>5
  <2>7. ASSUME NEW r \in PE, NEW v \in sets[r], DeliverSet(r, v)
        PROVE  TakeTurns' /\ Flags' /\ Grown
    <3> DEFINE legs == IF r = 0 THEN Pongs ELSE Pings
    <3>1. v = legs /\ sets[r] = {legs} /\ flag[r] = legs - 1
      BY <1>0, <2>7 DEF Flags, Flagged
    <3>2. /\ pc' = pc /\ sets'[r] = {} /\ flag'[r] = legs
          /\ \A q \in PE \ {r} : sets'[q] = sets[q] /\ flag'[q] = flag[q]
      BY <1>0, <2>7, <3>1 DEF DeliverSet, TypeOK
    <3>3. TakeTurns'
      BY <1>0, <2>0, <3>2 DEF TakeTurns, LegsKept
    <3>4. Flags'
      BY <1>0, <2>0, <3>2 DEF Flags, Flagged, LegsKept
    <3>5. Grown
      BY <1>0, <1>1, <3>1, <3>2, SMT
    <3> QED
      BY <3>3, <3>4, <3>5
  <2> QED
    BY <1>0, <1>4, <2>1, <2>2, <2>3, <2>4, <2>5, <2>6, <2>7
    DEF Next, BlockStep, LeaderStep, GridStep, HostStep, GridMoves, Deliver
<1> QED
  BY <1>3, <1>4

LEMMA PutsInFlightStep == SignalInv /\ [Next]_vars => PutsInFlight'
<1> SUFFICES ASSUME SignalInv, [Next]_vars
             PROVE  PutsInFlight'
  OBVIOUS
<1>0. /\ 0 \in Block /\ TypeOK /\ GridStage /\ PutsInFlight
      /\ \A m \in puts : m.src \in PE /\ m.blk \in Block
  BY Shape, PingPongAssumption DEF SignalInv, TypeOK, Put
<1>1. ASSUME puts' \subseteq puts,
             \A m \in puts : /\ pc'[m.src][m.blk] = pc[m.src][m.blk]
                             /\ it'[m.src] = it[m.src] /\ base'[m.src] = base[m.src]
      PROVE  PutsInFlight'
  BY <1>0, <1>1 DEF PutsInFlight, Signal
<1>2. CASE UNCHANGED vars
  BY <1>1, <1>2 DEF vars, hostVars, netVars
<1>3. ASSUME NEW r \in PE, NEW b \in Block, IssuePut(r, b)
      PROVE  PutsInFlight'
  <2>1. /\ \A q \in PE, c \in Block : pc'[q][c] = IF q = r /\ c = b THEN "quiet" ELSE pc[q][c]
        /\ UNCHANGED <<it, base>>
    BY <1>0, <1>3, AtMoves DEF IssuePut, hostVars
  <2>2. \A m \in puts' : m \in puts \/ m = [src |-> r, blk |-> b, round |-> Signal(r)]
    BY <1>3 DEF IssuePut
  <2> QED
    BY <1>0, <2>1, <2>2 DEF PutsInFlight, Signal
<1>4. ASSUME NEW r \in PE, NEW b \in Block, Quiet(r, b)
      PROVE  PutsInFlight'
  <2>1. /\ \A q \in PE, c \in Block : pc'[q][c] = IF q = r /\ c = b THEN "sync1" ELSE pc[q][c]
        /\ UNCHANGED <<it, base, puts>> /\ \A m \in puts : ~(m.src = r /\ m.blk = b)
    BY <1>0, <1>4, AtMoves DEF Quiet, hostVars, netVars
  <2> QED
    BY <1>0, <1>1, <2>1
<1>5. ASSUME NEW r \in PE, SetFlag(r) \/ Wait(r)
      PROVE  PutsInFlight'
  <2>1. PICK from \in {"signal", "wait"}, to \in BlockPC : At(r, 0, from, to) /\ UNCHANGED <<it, base, puts>>
    BY <1>5 DEF SetFlag, Wait, BlockPC, hostVars, netVars
  <2>2. pc[r][0] = from /\ \A q \in PE, c \in Block : pc'[q][c] = IF q = r /\ c = 0 THEN to ELSE pc[q][c]
    BY <1>0, <2>1, AtMoves
  <2>3. \A m \in puts : ~(m.src = r /\ m.blk = 0)
    BY <1>0, <2>1, <2>2 DEF PutsInFlight
  <2> QED
    BY <1>0, <1>1, <2>1, <2>2, <2>3
<1>6. ASSUME NEW r \in PE, GridMoves(r)
      PROVE  PutsInFlight'
  <2>1. /\ puts' = puts
        /\ \A b \in Block : pc[r][b] # "quiet"
        /\ \A q \in PE \ {r} : pc'[q] = pc[q] /\ it'[q] = it[q] /\ base'[q] = base[q]
    BY <1>0, <1>6, GridMovesTo DEF netVars
  <2>2. \A m \in puts : m.src # r
    BY <1>0, <2>1 DEF PutsInFlight
  <2> QED
    BY <1>0, <1>1, <2>1, <2>2
<1>7. CASE Check \/ Barrier \/ Deliver
  <2>1. UNCHANGED <<pc, it, base>> /\ puts' \subseteq puts
    BY <1>7 DEF Check, Barrier, Deliver, DeliverPut, DeliverSet, hostVars, netVars
  <2> QED
    BY <1>1, <2>1
<1> QED
  BY <1>2, <1>3, <1>4, <1>5, <1>6, <1>7 DEF Next, BlockStep, LeaderStep, GridStep, HostStep, GridMoves

(* What the peer has when its wait is over: this round trip's ping, which  *)
(* the initiator has put before its signal and is waiting on.              *)
LEMMA PeerHolds ==
  ASSUME SignalInv, pc[1][0] \in AfterWait
  PROVE  /\ pc[0][0] = "wait" /\ Pings = Pongs + 1
         /\ Signal(0) = Pings /\ Signal(1) = Pings
         /\ \A b \in Active : recv[1][b] = Signal(1)
<1>1. TypeOK /\ GridStage /\ TakeTurns /\ Chunks /\ Pings \in Int /\ Pongs \in Int
      /\ \A p \in PE : Signal(p) \in Int
  BY LegsType DEF SignalInv
<1>2. Pings = Pongs + 1 /\ pc[0][0] = "wait"
  BY <1>1, SMT DEF TakeTurns
<1>3. Signal(0) = Pings
  BY <1>1, <1>2, LegsOf
<1>4. Signal(1) = Pings
  <2>1. Pongs = Signal(1) - 1
    BY <1>1, LegsOf DEF AfterWait
  <2> QED
    BY <1>1, <1>2, <2>1, Shape, SMT
<1> QED
  BY <1>1, <1>2, <1>3, <1>4 DEF Chunks

LEMMA ChunksStep == SignalInv /\ [Next]_vars => Chunks'
<1> SUFFICES ASSUME SignalInv, [Next]_vars
             PROVE  Chunks'
  OBVIOUS
<1>0. /\ 0 \in Block /\ 0 \in PE /\ 1 \in PE /\ \A q \in PE : q = 0 \/ q = 1
      /\ TypeOK /\ GridStage /\ PutsInFlight /\ Chunks /\ Active \subseteq Block
  BY Shape, PingPongAssumption, SMT DEF PE, SignalInv
<1>1. CASE UNCHANGED vars
  BY <1>0, <1>1, LegsKeptStep, <1>0 DEF Chunks, vars, hostVars, netVars, Signal, InFlight, LegsKept,
     SetFlag, At, Pongs, Legs
<1>2. ASSUME NEW r \in PE, NEW b \in Block, IssuePut(r, b)
      PROVE  Chunks'
  <2>1. /\ \A q \in PE, c \in Block : pc'[q][c] = IF q = r /\ c = b THEN "quiet" ELSE pc[q][c]
        /\ pc[r][b] = "put" /\ UNCHANGED <<it, base, recv>>
        /\ puts' = puts \cup (IF b \in Active THEN {[src |-> r, blk |-> b, round |-> Signal(r)]} ELSE {})
    BY <1>0, <1>2, AtMoves DEF IssuePut, hostVars
  <2>2. Pongs' = Pongs
    BY <1>0, <2>1 DEF Pongs, Legs
  <2> QED
    BY <1>0, <2>1, <2>2 DEF Chunks, Signal, InFlight, AfterWait
<1>3. ASSUME NEW r \in PE, NEW b \in Block, Quiet(r, b)
      PROVE  Chunks'
  <2>1. /\ \A q \in PE, c \in Block : pc'[q][c] = IF q = r /\ c = b THEN "sync1" ELSE pc[q][c]
        /\ pc[r][b] = "quiet" /\ UNCHANGED <<it, base, recv, puts>>
        /\ ~InFlight(r, b)
    BY <1>0, <1>3, AtMoves DEF Quiet, hostVars, netVars, InFlight
  <2>2. Pongs' = Pongs
    BY <1>0, <2>1 DEF Pongs, Legs
  <2> QED
    BY <1>0, <2>1, <2>2 DEF Chunks, Signal, InFlight, AfterWait
<1>4. ASSUME NEW r \in PE, SetFlag(r)
      PROVE  Chunks'
  <2>1. /\ \A q \in PE, c \in Block : pc'[q][c] = IF q = r /\ c = 0
              THEN IF r = 0 THEN "wait" ELSE "sync2" ELSE pc[q][c]
        /\ pc[r][0] = "signal" /\ UNCHANGED <<it, base, recv, puts>>
        /\ r = 0 => Pongs' = Pongs
        /\ r = 1 => Pongs' = Pongs + 1
    BY <1>0, <1>4, SetFlagMoves
  <2>2. r = 1 => Signal(1) = Pongs'
    <3>1. pc[1][0] = "signal" => Pongs = Signal(1) - 1
      BY <1>0, LegsOf
    <3> QED
      BY <1>0, <2>1, <3>1, LegsType, SMT
  <2> QED
    BY <1>0, <2>1, <2>2 DEF Chunks, Signal, InFlight, AfterWait
<1>5. ASSUME NEW r \in PE, Wait(r)
      PROVE  Chunks'
  <2>1. /\ \A q \in PE, c \in Block : pc'[q][c] = IF q = r /\ c = 0
              THEN IF r = 0 THEN "sync2" ELSE "sync0" ELSE pc[q][c]
        /\ pc[r][0] = "wait" /\ UNCHANGED <<it, base, recv, puts>>
    BY <1>0, <1>5, AtMoves DEF Wait, hostVars, netVars
  <2>2. r = 0 => Pongs' = Pongs
    BY <1>0, <2>1 DEF Pongs, Legs
  <2> QED
    BY <1>0, <2>1, <2>2 DEF Chunks, Signal, InFlight, AfterWait
<1>6. ASSUME NEW r \in PE, GridMoves(r)
      PROVE  Chunks'
  <2>1. /\ \A q \in PE \ {r} : pc'[q] = pc[q] /\ it'[q] = it[q] /\ base'[q] = base[q]
        /\ UNCHANGED <<recv, puts>>
    BY <1>0, <1>6, GridMovesTo DEF netVars
  <2>2. \/ /\ r = 1 /\ \A b \in Block : pc[r][b] = "sync0" /\ pc'[r][b] = "put"
        \/ /\ \A b \in Block : pc[r][b] = "sync1"
           /\ \A b \in Block : pc'[r][b] = IF b = 0 THEN "signal" ELSE "sync2"
           /\ it'[r] = it[r] /\ base'[r] = base[r]
        \/ /\ pc[r][0] \in {"sync2", "idle"}
           /\ \A b \in Block : pc'[r][b] = FirstPC(r)[b] \/ pc'[r][b] = "idle"
    BY <1>0, <1>6, GridMovesTo
  <2>3. \A b \in Block : FirstPC(r)[b] = IF r = 0 THEN "put" ELSE IF b = 0 THEN "wait" ELSE "sync0"
    BY DEF FirstPC
  <2>4. Pongs' = Pongs
    <3>1. CASE r = 0
      BY <1>0, <2>1, <3>1 DEF Pongs, Legs
    <3>2. CASE r = 1
      <4>1. pc[1][0] # "signal" /\ pc'[0] = pc[0] /\ pc'[1][0] # "sync2"
        BY <1>0, <2>1, <2>2, <2>3, <3>2
      <4>2. ~SetFlag(0) /\ ~SetFlag(1)
        BY <1>0, <4>1, SetFlagMoves
      <4> QED
        BY <1>0, <4>2, LegsKeptStep DEF LegsKept
    <3> QED
      BY <1>0, <3>1, <3>2
  <2>5. /\ \A q \in PE, b \in Block : pc'[q][b] # "quiet" \/ pc'[q][b] = pc[q][b]
        /\ \A q \in PE \ {r} : Signal(q)' = Signal(q)
        /\ \A q \in PE \ {r}, b \in Block : InFlight(q, b) => InFlight(q, b)'
    BY <1>0, <2>1, <2>2, <2>3 DEF Signal, InFlight
  <2>6. CASE \A b \in Block : pc[r][b] = "sync1" /\ pc'[r][b] = IF b = 0 THEN "signal" ELSE "sync2"
    <3>1. (it'[r] = it[r] /\ base'[r] = base[r]) /\ Signal(r)' = Signal(r)
      BY <1>0, <2>2, <2>6 DEF Signal
    <3>2. \A q \in PE : Signal(q)' = Signal(q)
      BY <2>5, <3>1
    <3> QED
      BY <1>0, <2>1, <2>4, <2>5, <2>6, <3>2 DEF Chunks, AfterWait
  <2>7. CASE /\ r = 0 => pc'[r][0] \in {"put", "idle"}
             /\ r = 1 => \/ pc'[r][0] = "put"
                         \/ pc[r][0] \in {"sync2", "idle"} /\ pc'[r][0] \in {"wait", "idle"}
             /\ \A b \in Block : pc'[r][b] \in {"put", "idle", "wait", "sync0"}
    BY <1>0, <2>1, <2>4, <2>5, <2>7 DEF Chunks, AfterWait
  <2>8. CASE r = 1 /\ \A b \in Block : pc[r][b] = "sync0" /\ pc'[r][b] = "put"
    <3>1. r # 0 /\ pc'[r][0] = "put"
      BY <1>0, <2>8
    <3>2. \A b \in Block : pc'[r][b] \in {"put", "idle", "wait", "sync0"}
      BY <2>8
    <3> QED
      BY <2>7, <3>1, <3>2
  <2>9. CASE /\ pc[r][0] \in {"sync2", "idle"}
             /\ \A b \in Block : pc'[r][b] = FirstPC(r)[b] \/ pc'[r][b] = "idle"
    BY <1>0, <2>3, <2>7, <2>9
  <2> QED
    BY <2>2, <2>6, <2>8, <2>9
<1>7. ASSUME NEW m \in puts, DeliverPut(m)
      PROVE  Chunks'
  <2>1. /\ UNCHANGED <<pc, it, base>> /\ puts' = puts \ {m}
        /\ m.src \in PE /\ m.blk \in Active /\ pc[m.src][m.blk] = "quiet" /\ m.round = Signal(m.src)
    BY <1>0, <1>7 DEF DeliverPut, PutsInFlight, TypeOK, Put, hostVars
  <2>2. \A p \in PE, b \in Block : InFlight(p, b) /\ (p # m.src \/ b # m.blk) => InFlight(p, b)'
    BY <2>1 DEF InFlight, Signal
  <2>3. \A q \in PE, b \in Block : recv'[q][b] = IF q = Peer(m.src) /\ b = m.blk
          THEN IF m.src = 0 THEN m.round ELSE recv[1][m.blk] ELSE recv[q][b]
    <3>1. recv' = [recv EXCEPT ![Peer(m.src)] = [recv[Peer(m.src)] EXCEPT
                     ![m.blk] = IF m.src = 0 THEN m.round ELSE recv[1][m.blk]]]
      BY <1>7 DEF DeliverPut
    <3>2. Peer(m.src) \in PE /\ m.blk \in Block
      BY <1>0, <2>1, Shape
    <3> QED
      BY <3>1, <3>2, <1>0 DEF TypeOK
  <2>4. Pongs' = Pongs
    BY <2>1 DEF Pongs, Legs
  <2>5. CASE m.src = 0
    <3>1. Peer(m.src) = 1
      BY <2>5 DEF Peer
    <3>2. \A b \in Block : recv'[0][b] = recv[0][b] /\ recv'[1][b] = IF b = m.blk THEN Signal(0) ELSE recv[1][b]
      BY <1>0, <2>1, <2>3, <2>5, <3>1
    <3> QED
      BY <1>0, <2>1, <2>2, <2>4, <2>5, <3>2 DEF Chunks, Signal
  <2>6. CASE m.src = 1
    <3>1. Peer(m.src) = 0
      BY <2>6 DEF Peer
    <3>2. pc[1][0] \in Moving
      <4>1. Stretch(1, m.blk) /\ pc[1][m.blk] = "quiet" /\ pc[1][0] \in BlockPC
        BY <1>0, <2>1, <2>6 DEF GridStage, TypeOK
      <4> QED
        BY <4>1, SMT DEF Stretch, Moving, BlockPC
    <3>3. recv[1][m.blk] = Signal(1)
      BY <2>1, <3>2, PeerHolds DEF Moving, AfterWait
    <3>4. \A b \in Block : recv'[1][b] = recv[1][b] /\ recv'[0][b] = IF b = m.blk THEN Signal(1) ELSE recv[0][b]
      BY <1>0, <2>1, <2>3, <2>6, <3>1, <3>3
    <3> QED
      BY <1>0, <2>1, <2>2, <2>4, <2>6, <3>2, <3>4 DEF Chunks, Signal, Moving, AfterWait
  <2> QED
    BY <1>0, <2>1, <2>5, <2>6
<1>8. CASE Check \/ Barrier \/ \E p \in PE : \E v \in sets[p] : DeliverSet(p, v)
  <2>1. UNCHANGED <<pc, it, base, puts, recv>>
    BY <1>8 DEF Check, Barrier, DeliverSet, hostVars, netVars
  <2> QED
    BY <1>0, <2>1 DEF Chunks, Signal, InFlight, Pongs, Legs
<1> QED
  BY <1>1, <1>2, <1>3, <1>4, <1>5, <1>6, <1>7, <1>8
  DEF Next, BlockStep, LeaderStep, GridStep, HostStep, GridMoves, Deliver

LEMMA SignalStep == SignalInv /\ [Next]_vars => SignalInv'
BY TypeStep, GridStageStep, TurnsStep, PutsInFlightStep, ChunksStep DEF SignalInv

(* Every variable of the signal-driven ping-pong keeps its type: neither   *)
(* PE goes on beyond the last size.                                        *)
THEOREM TypeCorrect == Spec => []TypeOK
BY TypeInit, TypeStep, PTL DEF Spec

(* The grids' stretches, the flags and the chunks in flight stay as         *)
(* SignalInv says, however puts and signals are delivered.                 *)
THEOREM SignalInductive == Spec => []SignalInv
BY SignalInit, SignalStep, PTL DEF Spec

LEMMA RoundTripThen == SignalInv => RoundTrip
<1> SUFFICES ASSUME SignalInv, NEW b \in Active
             PROVE  /\ pc[0][0] = "sync2" => recv[0][b] = Signal(0)
                    /\ host[0] = "check" => recv[0][b] = base[0]
                    /\ pc[1][0] \in AfterWait => recv[1][b] = Signal(1)
  BY DEF RoundTrip
<1>0. TypeOK /\ GridStage /\ TakeTurns /\ Chunks /\ 0 \in PE
  BY Shape DEF SignalInv
<1>1. ASSUME pc[0][0] # "wait"
      PROVE  recv[0][b] = Pings
  <2>1. Pings = Pongs /\ pc[1][0] \notin AfterWait
    BY <1>0, <1>1, LegsType, PeerHolds DEF TakeTurns
  <2> QED
    BY <1>0, <2>1 DEF Chunks
<1>2. pc[0][0] = "sync2" => recv[0][b] = Signal(0)
  BY <1>0, <1>1, LegsOf
<1>3. ASSUME host[0] = "check"
      PROVE  recv[0][b] = base[0]
  <2>1. pc[0][0] = "idle" /\ it[0] = 0 /\ base[0] \in Int
    BY <1>0, <1>3, SMT DEF GridStage, TypeOK
  <2>2. Pings = base[0]
    BY <2>1, SMT DEF Pings, Legs
  <2> QED
    BY <1>1, <2>1, <2>2
<1> QED
  BY <1>2, <1>3, PeerHolds

(* Whoever has passed the wait of a round trip, or validates, holds every  *)
(* chunk of that very round trip, however the puts and the signals are     *)
(* delivered.                                                              *)
THEOREM RoundTripHolds == Spec => []RoundTrip
BY SignalInductive, RoundTripThen, PTL

(* A later SIGNAL_SET never overtakes an earlier one: a flag only grows.   *)
THEOREM FlagGrowsHolds == Spec => FlagGrows
<1> DEFINE Step == [\A p \in PE : flag'[p] >= flag[p]]_flag
<1>1. SignalInv /\ [Next]_vars => Step
  BY TurnsStep
<1> QED
  BY <1>1, SignalInductive, PTL DEF Spec, FlagGrows

(* A step of the program is a ping, a pong or no leg at all.               *)
LEMMA TurnsInit == Init => Turns!Init
<1> SUFFICES ASSUME Init
             PROVE  Turns!Init
  OBVIOUS
<1>1. Pings = 0 /\ Pongs = 0
  BY Shape, SMT DEF Init, Pings, Pongs, Legs
<1> QED
  BY <1>1 DEF Turns!Init, Pings, Pongs

LEMMA TurnsMap == SignalInv /\ [Next]_vars => [Turns!Ping \/ Turns!Pong]_(Turns!turnVars)
<1> SUFFICES ASSUME SignalInv, [Next]_vars
             PROVE  [Turns!Ping \/ Turns!Pong]_(Turns!turnVars)
  OBVIOUS
<1>1. CASE \A p \in PE : ~SetFlag(p)
  BY <1>1, LegsKeptStep DEF LegsKept, Turns!turnVars, Pings, Pongs
<1>2. ASSUME NEW p \in PE, SetFlag(p)
      PROVE  [Turns!Ping \/ Turns!Pong]_(Turns!turnVars)
  <2>1. CASE p = 0
    <3>1. Pings = Pongs /\ Pings' = Pings + 1 /\ Pongs' = Pongs
      BY <1>2, <2>1, SetFlagMoves
    <3> QED
      BY <3>1 DEF Turns!Ping, Pings, Pongs
  <2>2. CASE p = 1
    <3>1. Pings = Pongs + 1 /\ Pongs' = Pongs + 1 /\ Pings' = Pings /\ Pongs \in Int
      BY <1>2, <2>2, SetFlagMoves, LegsType DEF SignalInv
    <3>2. Pongs < Pings /\ Pongs' = Pings /\ Pings' = Pings
      BY <3>1, SMT
    <3> QED
      BY <3>2 DEF Turns!Pong, Pings, Pongs
  <2> QED
    BY <2>1, <2>2, Shape DEF PE
<1> QED
  BY <1>1, <1>2

(* The flags make the PEs take turns: pings and pongs are signalled in     *)
(* strict alternation, across iterations, launches and sizes.              *)
THEOREM ImplementsTurnsHolds == Spec => ImplementsTurns
BY SignalInductive, TurnsInit, TurnsMap, PTL DEF Spec, ImplementsTurns, Turns!Spec

-----------------------------------------------------------------------------
(* The inductive invariant of PingPongHost.                                *)

(* Round trips are left for a PE that is in the middle of one: what keeps  *)
(* the count within the sweep.                                             *)
RoundsLeft ==
  \A p \in Host!PE : hostPC[p] \notin {"check", "final", "exit"} => hostRound[p] < Host!Total

HostPings == hostRound[0] + (IF hostPC[0] \in {"pongBarrier", "sent", "recv"} THEN 1 ELSE 0)
HostPongs == hostRound[1] + (IF hostPC[1] = "sent" THEN 1 ELSE 0)

HostMoving == {"put", "quiet", "sync"}

(* With puts, both PEs are at the same barrier, or one of them is on its   *)
(* way to it, in the same round trip.                                      *)
BarriersMeet ==
  /\ hostRound[0] = hostRound[1]
  /\ \/ hostPC[0] \in HostMoving \cup {"pingBarrier"} /\ hostPC[1] = "pingBarrier"
     \/ hostPC[0] = "pongBarrier" /\ hostPC[1] \in HostMoving \cup {"pongBarrier"}
     \/ /\ hostPC[0] = "check"
        /\ hostPC[1] = IF hostRound[0] < Host!Total THEN "sizeBarrier" ELSE "final"
     \/ hostPC[0] \in {"sizeBarrier", "final", "exit"} /\ hostPC[1] = hostPC[0]

HostFlying(p) == \E m \in hostPuts : m.src = p

PutsComplete ==
  /\ \A m \in hostPuts : /\ m.round = hostRound[m.src] + 1
                         /\ \/ m.on = "network" /\ hostPC[m.src] = "quiet"
                            \/ m.on = "device" /\ hostPC[m.src] \in {"quiet", "sync"}
  /\ hostPC[0] \in {"quiet", "sync"} => hostRecv[1] = hostRound[0] + 1 \/ HostFlying(0)
  /\ hostPC[0] \in {"pingBarrier", "pongBarrier"} => hostRecv[1] = hostRound[0] + 1
  /\ hostPC[1] \in {"quiet", "sync"} => hostRecv[0] = hostRound[1] + 1 \/ HostFlying(1)
  /\ hostPC[1] = "pongBarrier" => hostRecv[0] = hostRound[1] + 1
  /\ hostPC[1] \notin HostMoving \cup {"pongBarrier"} => hostRecv[0] = hostRound[0]

(* With messages, a ping is on its way only while nobody has answered it,  *)
(* and a pong only while the initiator waits for it.                       *)
PingOnItsWay(m) ==
  /\ m = [src |-> 0, round |-> HostPings, on |-> "message"]
  /\ HostPings = HostPongs + 1 /\ hostPC[1] # "put"

PongOnItsWay(m) ==
  /\ m = [src |-> 1, round |-> HostPongs, on |-> "message"]
  /\ HostPings = HostPongs /\ hostPC[0] \in {"sent", "recv"}

MessagesMeet ==
  /\ hostPC[0] \in {"sizeBarrier", "put", "sent", "recv", "check", "final", "exit"}
  /\ hostPC[1] \in {"sizeBarrier", "put", "sent", "recv", "final", "exit"}
  /\ HostPings = HostPongs \/ HostPings = HostPongs + 1
  /\ hostPC[0] \notin {"sent", "recv"} => HostPings = HostPongs
  /\ hostPC[1] = "put" => HostPings = HostPongs + 1 /\ hostRecv[1] = hostRound[1] + 1
  /\ hostRecv[0] = hostRound[0]
  /\ \A m \in hostPuts : PingOnItsWay(m) \/ PongOnItsWay(m)

HostInv ==
  /\ Host!TypeOK /\ RoundsLeft
  /\ transport = "puts" => BarriersMeet /\ PutsComplete
  /\ transport = "messages" => MessagesMeet

LEMMA TotalShape ==
  /\ Host!Total \in Nat \ {0}
  /\ \A n \in Nat : Host!LastOfSize(n) \/ n # Host!Total
<1>1. Sizes \in Nat \ {0} /\ Host!Rounds \in Nat \ {0}
  BY CountsAssumption, SMT DEF Host!Rounds
<1>2. Host!Total \in Nat \ {0}
  BY <1>1, SMT DEF Host!Total
<1>3. Host!Total % Host!Rounds = 0
  BY <1>1, SMT DEF Host!Total
<1> QED
  BY <1>2, <1>3 DEF Host!LastOfSize

LEMMA HostTypeInit == Host!Init => Host!TypeOK /\ RoundsLeft
BY TotalShape, SMT DEF Host!Init, Host!TypeOK, RoundsLeft, Host!PC, Host!BarrierPC, Host!Put, Host!PE, Host!Total

(* A round trip more, and where the PE goes then.                          *)
LEMMA HostRoundDone ==
  ASSUME Host!TypeOK, RoundsLeft, NEW p \in Host!PE, hostPC[p] \notin {"check", "final", "exit"}
  PROVE  /\ hostRound[p] + 1 \in 0 .. Host!Total
         /\ Host!AfterRound(p) \in Host!PC
         /\ Host!AfterRound(p) \notin {"check", "final", "exit"} => hostRound[p] + 1 < Host!Total
<1>1. hostRound[p] \in Nat /\ hostRound[p] < Host!Total /\ Host!Total \in Nat
  BY TotalShape, SMT DEF Host!TypeOK, RoundsLeft, Host!Total
<1>2. hostRound[p] + 1 \in 0 .. Host!Total /\ hostRound[p] + 1 \in Nat
  BY <1>1, SMT
<1>3. Host!AfterRound(p) \in Host!PC
  BY DEF Host!AfterRound, Host!First, Host!PC, Host!BarrierPC
<1>4. ASSUME Host!AfterRound(p) \notin {"check", "final", "exit"}
      PROVE  hostRound[p] + 1 < Host!Total
  <2>1. CASE Host!LastOfSize(hostRound[p] + 1)
    BY <1>4, <2>1 DEF Host!AfterRound, Host!Total
  <2>2. CASE ~Host!LastOfSize(hostRound[p] + 1)
    <3>1. hostRound[p] + 1 # Host!Total
      BY <1>2, <2>2, TotalShape
    <3> QED
      BY <1>1, <3>1, SMT
  <2> QED
    BY <2>1, <2>2
<1> QED
  BY <1>2, <1>3, <1>4

LEMMA HostTypeStep == Host!TypeOK /\ RoundsLeft /\ [Host!Next]_(Host!vars) => Host!TypeOK' /\ RoundsLeft'
<1> SUFFICES ASSUME Host!TypeOK, RoundsLeft, [Host!Next]_(Host!vars)
             PROVE  Host!TypeOK' /\ RoundsLeft'
  OBVIOUS
<1>0. 0 \in Host!PE /\ 1 \in Host!PE /\ \A p \in Host!PE : 1 - p \in Host!PE /\ hostRound[p] \in Nat
  BY TotalShape, SMT DEF Host!PE, Host!TypeOK, Host!Total
<1>1. CASE UNCHANGED Host!vars
  BY <1>1 DEF Host!TypeOK, RoundsLeft, Host!vars
<1>2. ASSUME NEW p \in Host!PE, Host!PutLeg(p)
      PROVE  Host!TypeOK' /\ RoundsLeft'
  <2>1. PICK on \in {"network", "device"} :
          hostPuts' = hostPuts \cup {[src |-> p, round |-> hostRound[p] + 1, on |-> on]}
    BY <1>2 DEF Host!PutLeg
  <2>2. [src |-> p, round |-> hostRound[p] + 1, on |-> on] \in Host!Put
    BY <1>0, SMT DEF Host!Put
  <2>3. hostPuts' \subseteq Host!Put
    BY <2>1, <2>2 DEF Host!TypeOK
  <2> QED
    BY <1>2, <2>3 DEF Host!PutLeg, Host!Goto, Host!TypeOK, RoundsLeft, Host!PC, Host!BarrierPC
<1>3. ASSUME NEW p \in Host!PE, Host!Quiet(p)
      PROVE  Host!TypeOK' /\ RoundsLeft'
  BY <1>3 DEF Host!Quiet, Host!Goto, Host!TypeOK, RoundsLeft, Host!PC, Host!BarrierPC
<1>4. ASSUME NEW p \in Host!PE, Host!Sync(p)
      PROVE  Host!TypeOK' /\ RoundsLeft'
  BY <1>4 DEF Host!Sync, Host!Goto, Host!TypeOK, RoundsLeft, Host!PC, Host!BarrierPC
<1>5. ASSUME NEW p \in Host!PE, Host!SendLeg(p)
      PROVE  Host!TypeOK' /\ RoundsLeft'
  <2>1. PICK after \in {"sent", Host!AfterSend(p)} :
          /\ hostPC[p] = "put" /\ hostPC' = [hostPC EXCEPT ![p] = after] /\ UNCHANGED transport
          /\ hostRound' = IF Host!EndsRound(p, after) THEN [hostRound EXCEPT ![p] = @ + 1] ELSE hostRound
    BY <1>5 DEF Host!SendLeg, Host!Goto
  <2>2. hostPuts' \subseteq Host!Put
    <3>1. [src |-> p, round |-> IF p = 0 THEN hostRound[p] + 1 ELSE hostRecv[p], on |-> "message"] \in Host!Put
      <4>1. (IF p = 0 THEN hostRound[p] + 1 ELSE hostRecv[p]) \in Nat
        BY <1>0, SMT DEF Host!TypeOK
      <4> QED
        BY <4>1 DEF Host!Put
    <3> QED
      BY <1>5, <3>1 DEF Host!SendLeg, Host!TypeOK
  <2>3. CASE Host!EndsRound(p, after)
    <3>1. p = 1 /\ after = Host!AfterRound(p)
      BY <2>1, <2>3, SMT DEF Host!EndsRound, Host!AfterSend
    <3>2. hostRound' = [hostRound EXCEPT ![p] = @ + 1] /\ hostPC' = [hostPC EXCEPT ![p] = Host!AfterRound(p)]
      BY <2>1, <2>3, <3>1
    <3>3. /\ hostRound[p] + 1 \in 0 .. Host!Total
          /\ Host!AfterRound(p) \in Host!PC
          /\ Host!AfterRound(p) \notin {"check", "final", "exit"} => hostRound[p] + 1 < Host!Total
      BY <2>1, HostRoundDone
    <3> QED
      BY <1>5, <2>1, <2>2, <3>2, <3>3 DEF Host!SendLeg, Host!TypeOK, RoundsLeft, Host!Total
  <2>4. CASE ~Host!EndsRound(p, after)
    <3>1. after \in {"sent", "recv"}
      BY <2>1, <2>4, SMT DEF Host!EndsRound, Host!AfterSend, Host!PE
    <3> QED
      BY <1>5, <2>1, <2>2, <2>4, <3>1 DEF Host!SendLeg, Host!TypeOK, RoundsLeft, Host!PC
  <2> QED
    BY <2>3, <2>4
<1>6. ASSUME NEW p \in Host!PE, Host!EndSend(p)
      PROVE  Host!TypeOK' /\ RoundsLeft'
  <2>1. hostPC[p] = "sent" /\ hostPC' = [hostPC EXCEPT ![p] = Host!AfterSend(p)]
    BY <1>6 DEF Host!EndSend, Host!Goto
  <2>2. CASE p = 0
    BY <1>6, <2>1, <2>2, SMT DEF Host!EndSend, Host!Goto, Host!AfterSend, Host!TypeOK, RoundsLeft, Host!PC
  <2>3. CASE p = 1
    <3>1. /\ hostRound[p] + 1 \in 0 .. Host!Total
          /\ Host!AfterRound(p) \in Host!PC
          /\ Host!AfterRound(p) \notin {"check", "final", "exit"} => hostRound[p] + 1 < Host!Total
      BY <2>1, HostRoundDone
    <3>2. hostRound' = [hostRound EXCEPT ![p] = @ + 1] /\ hostPC' = [hostPC EXCEPT ![p] = Host!AfterRound(p)]
      BY <1>6, <2>1, <2>3, SMT DEF Host!EndSend, Host!AfterSend
    <3> QED
      BY <1>6, <3>1, <3>2 DEF Host!EndSend, Host!Goto, Host!TypeOK, RoundsLeft, Host!Total
  <2> QED
    BY <2>2, <2>3 DEF Host!PE
<1>7. ASSUME NEW p \in Host!PE, Host!RecvLeg(p)
      PROVE  Host!TypeOK' /\ RoundsLeft'
  <2>1. PICK m \in hostPuts :
          /\ hostPC[p] = "recv" /\ UNCHANGED transport
          /\ hostPC' = [hostPC EXCEPT ![p] = IF p = 0 THEN Host!AfterRound(p) ELSE "put"]
          /\ hostPuts' = hostPuts \ {m}
          /\ hostRecv' = [hostRecv EXCEPT ![p] = m.round]
          /\ hostRound' = IF p = 0 THEN [hostRound EXCEPT ![p] = @ + 1] ELSE hostRound
    BY <1>7 DEF Host!RecvLeg, Host!Goto
  <2>2. hostRecv' \in [Host!PE -> Nat] /\ hostPuts' \subseteq Host!Put
    BY <2>1 DEF Host!TypeOK, Host!Put
  <2>3. CASE p = 0
    <3>1. /\ hostRound[p] + 1 \in 0 .. Host!Total
          /\ Host!AfterRound(p) \in Host!PC
          /\ Host!AfterRound(p) \notin {"check", "final", "exit"} => hostRound[p] + 1 < Host!Total
      BY <2>1, HostRoundDone
    <3>2. hostRound' = [hostRound EXCEPT ![p] = @ + 1] /\ hostPC' = [hostPC EXCEPT ![p] = Host!AfterRound(p)]
      BY <2>1, <2>3
    <3> QED
      BY <2>1, <2>2, <3>1, <3>2 DEF Host!TypeOK, RoundsLeft, Host!Total
  <2>4. CASE p # 0
    BY <2>1, <2>2, <2>4 DEF Host!TypeOK, RoundsLeft, Host!PC
  <2> QED
    BY <2>3, <2>4
<1>8. CASE Host!Barrier
  <2>1. ASSUME NEW p \in Host!PE
        PROVE  /\ hostPC'[p] \in Host!PC /\ hostRound'[p] \in 0 .. Host!Total
               /\ hostPC'[p] \notin {"check", "final", "exit"} => hostRound'[p] < Host!Total
    <3>1. /\ hostPC'[p] = Host!AfterBarrier(p)
          /\ hostRound'[p] = IF hostPC[p] = "pongBarrier" THEN hostRound[p] + 1 ELSE hostRound[p]
          /\ hostPC[p] \in Host!BarrierPC
      BY <1>8 DEF Host!Barrier
    <3>2. CASE hostPC[p] = "pongBarrier"
      BY <3>1, <3>2, HostRoundDone DEF Host!AfterBarrier
    <3>3. CASE hostPC[p] # "pongBarrier"
      BY <3>1, <3>3 DEF Host!AfterBarrier, Host!First, Host!TypeOK, RoundsLeft, Host!PC, Host!BarrierPC, Host!Total
    <3> QED
      BY <3>2, <3>3
  <2>2. /\ hostPC' = [p \in Host!PE |-> Host!AfterBarrier(p)]
        /\ hostRound' = [p \in Host!PE |-> IF hostPC[p] = "pongBarrier" THEN hostRound[p] + 1 ELSE hostRound[p]]
        /\ UNCHANGED <<transport, hostRecv, hostPuts>>
    BY <1>8 DEF Host!Barrier
  <2>3. hostPC' \in [Host!PE -> Host!PC] /\ hostRound' \in [Host!PE -> 0 .. Host!Total]
    BY <2>1, <2>2
  <2> QED
    BY <2>1, <2>2, <2>3 DEF Host!TypeOK, RoundsLeft, Host!Total
<1>9. CASE Host!Check
  BY <1>9, <1>0 DEF Host!Check, Host!Goto, Host!TypeOK, RoundsLeft, Host!PC, Host!BarrierPC, Host!Total
<1>10. ASSUME NEW m \in hostPuts, Host!Deliver(m)
       PROVE  Host!TypeOK' /\ RoundsLeft'
  <2>1. m \in Host!Put
    BY DEF Host!TypeOK
  <2>2. hostRecv' \in [Host!PE -> Nat]
    BY <1>0, <1>10, <2>1 DEF Host!Deliver, Host!TypeOK, Host!Put
  <2> QED
    BY <1>10, <2>2 DEF Host!Deliver, Host!TypeOK, RoundsLeft
<1> QED
  BY <1>1, <1>2, <1>3, <1>4, <1>5, <1>6, <1>7, <1>8, <1>9, <1>10 DEF Host!Next, Host!PEStep


(* What a move of one PE, alone, changes.                                  *)
LEMMA GotoMoves ==
  ASSUME Host!TypeOK, NEW p \in Host!PE, NEW from, NEW to, Host!Goto(p, from, to)
  PROVE  /\ hostPC[p] = from /\ hostPC'[p] = to /\ transport' = transport
         /\ \A q \in Host!PE \ {p} : hostPC'[q] = hostPC[q]
BY DEF Host!Goto, Host!TypeOK

LEMMA HostInit == Host!Init => HostInv
<1> SUFFICES ASSUME Host!Init
             PROVE  HostInv
  OBVIOUS
<1>1. /\ hostPC[0] = "sizeBarrier" /\ hostPC[1] = "sizeBarrier" /\ hostPuts = {}
      /\ hostRound[0] = 0 /\ hostRound[1] = 0 /\ hostRecv[0] = 0 /\ hostRecv[1] = 0
  BY DEF Host!Init, Host!PE
<1>2. HostPings = 0 /\ HostPongs = 0
  BY <1>1, SMT DEF HostPings, HostPongs
<1>3. BarriersMeet /\ PutsComplete
  BY <1>1 DEF BarriersMeet, PutsComplete
<1>4. MessagesMeet
  BY <1>1, <1>2 DEF MessagesMeet
<1> QED
  BY <1>3, <1>4, HostTypeInit DEF HostInv

(* The puts: one PE moves at a time, and both leave a barrier together.    *)
LEMMA PutsStep ==
  ASSUME HostInv, transport = "puts", [Host!Next]_(Host!vars)
  PROVE  /\ transport' = transport /\ BarriersMeet' /\ PutsComplete'
         /\ \/ UNCHANGED <<HostPings, HostPongs>>
            \/ HostPings = HostPongs /\ HostPings' = HostPings + 1 /\ HostPongs' = HostPongs
            \/ HostPings = HostPongs + 1 /\ HostPongs' = HostPings /\ HostPings' = HostPings
<1> DEFINE Turn == \/ UNCHANGED <<HostPings, HostPongs>>
                   \/ HostPings = HostPongs /\ HostPings' = HostPings + 1 /\ HostPongs' = HostPongs
                   \/ HostPings = HostPongs + 1 /\ HostPongs' = HostPings /\ HostPings' = HostPings
           Goal == transport' = transport /\ BarriersMeet' /\ PutsComplete' /\ Turn
<1> SUFFICES Goal
  OBVIOUS
<1> USE DEF HostMoving
<1>0. /\ Host!TypeOK /\ RoundsLeft /\ BarriersMeet /\ PutsComplete
      /\ 0 \in Host!PE /\ 1 \in Host!PE /\ \A p \in Host!PE : p = 0 \/ p = 1
      /\ \A p \in Host!PE : hostRound[p] \in Int /\ hostRecv[p] \in Int
      /\ \A m \in hostPuts : m.src \in Host!PE
  BY TotalShape, SMT DEF HostInv, Host!TypeOK, Host!PE, Host!Put, Host!Total
<1>1. CASE UNCHANGED Host!vars
  BY <1>0, <1>1 DEF Host!vars, BarriersMeet, PutsComplete, HostFlying, HostPings, HostPongs
<1>2. ASSUME NEW p \in Host!PE, Host!PutLeg(p)
      PROVE  Goal
  <2>1. /\ hostPC[p] = "put" /\ hostPC'[p] = "quiet" /\ transport' = transport
        /\ \A q \in Host!PE \ {p} : hostPC'[q] = hostPC[q]
        /\ UNCHANGED <<hostRound, hostRecv>>
    BY <1>0, <1>2, GotoMoves DEF Host!PutLeg
  <2>2. PICK on \in {"network", "device"} :
          hostPuts' = hostPuts \cup {[src |-> p, round |-> hostRound[p] + 1, on |-> on]}
    BY <1>2 DEF Host!PutLeg
  <2>3. BarriersMeet' /\ UNCHANGED <<HostPings, HostPongs>>
    BY <1>0, <2>1 DEF BarriersMeet, HostPings, HostPongs
  <2>4. PutsComplete'
    <3>1. HostFlying(p)' /\ \A q \in Host!PE : HostFlying(q) => HostFlying(q)'
      <4>1. [src |-> p, round |-> hostRound[p] + 1, on |-> on].src = p
        OBVIOUS
      <4>2. [src |-> p, round |-> hostRound[p] + 1, on |-> on] \in hostPuts' /\ hostPuts \subseteq hostPuts'
        BY <2>2
      <4> QED
        BY <4>1, <4>2 DEF HostFlying
    <3>2. \A m \in hostPuts' : \/ m \in hostPuts
                               \/ m.src = p /\ m.round = hostRound[p] + 1 /\ m.on \in {"network", "device"}
      BY <2>2
    <3>3. \A m \in hostPuts' : /\ m.round = hostRound'[m.src] + 1
                               /\ \/ m.on = "network" /\ hostPC'[m.src] = "quiet"
                                  \/ m.on = "device" /\ hostPC'[m.src] \in {"quiet", "sync"}
      BY <1>0, <2>1, <3>2 DEF PutsComplete
    <3>4. CASE p = 0
      BY <1>0, <2>1, <3>1, <3>3, <3>4 DEF BarriersMeet, PutsComplete
    <3>5. CASE p = 1
      BY <1>0, <2>1, <3>1, <3>3, <3>5 DEF BarriersMeet, PutsComplete
    <3> QED
      BY <1>0, <3>4, <3>5
  <2> QED
    BY <2>1, <2>3, <2>4
<1>3. ASSUME NEW p \in Host!PE, Host!Quiet(p) \/ Host!Sync(p)
      PROVE  Goal
  <2>1. /\ \/ /\ hostPC[p] = "quiet" /\ hostPC'[p] = "sync"
              /\ \A m \in hostPuts : ~(m.src = p /\ m.on = "network")
           \/ /\ hostPC[p] = "sync" /\ hostPC'[p] = IF p = 0 THEN "pingBarrier" ELSE "pongBarrier"
              /\ \A m \in hostPuts : ~(m.src = p /\ m.on = "device")
        /\ \A q \in Host!PE \ {p} : hostPC'[q] = hostPC[q]
        /\ UNCHANGED <<transport, hostRound, hostRecv, hostPuts>>
    BY <1>0, <1>3, GotoMoves DEF Host!Quiet, Host!Sync
  <2>2. BarriersMeet' /\ UNCHANGED <<HostPings, HostPongs>>
    BY <1>0, <2>1 DEF BarriersMeet, HostPings, HostPongs
  <2>3. hostPC[p] = "sync" => ~HostFlying(p)
    BY <1>0, <2>1 DEF PutsComplete, HostFlying
  <2>4. PutsComplete'
    BY <1>0, <2>1, <2>3 DEF BarriersMeet, PutsComplete, HostFlying
  <2> QED
    BY <2>1, <2>2, <2>4
<1>4. ASSUME NEW p \in Host!PE, Host!SendLeg(p) \/ Host!EndSend(p) \/ Host!RecvLeg(p)
      PROVE  FALSE
  <2>1. hostPC[p] \notin {"sent", "recv"}
    BY <1>0 DEF BarriersMeet
  <2> QED
    BY <1>4, <2>1 DEF Host!SendLeg, Host!EndSend, Host!RecvLeg, Host!Goto
<1>5. CASE Host!Barrier
  <2>1. /\ \A p \in Host!PE :
             /\ hostPC[p] \in Host!BarrierPC /\ hostPC'[p] = Host!AfterBarrier(p)
             /\ hostRound'[p] = IF hostPC[p] = "pongBarrier" THEN hostRound[p] + 1 ELSE hostRound[p]
        /\ UNCHANGED <<transport, hostRecv, hostPuts>>
    BY <1>5 DEF Host!Barrier
  <2>2. hostPuts = {}
    BY <1>0, <2>1 DEF PutsComplete, Host!BarrierPC
  <2>3. CASE hostPC[0] = "sizeBarrier" /\ hostPC[1] = "sizeBarrier"
    <3>1. hostPC'[0] = "put" /\ hostPC'[1] = "pingBarrier"
      BY <1>0, <2>1, <2>3 DEF Host!AfterBarrier, Host!First
    <3> QED
      BY <1>0, <2>1, <2>2, <2>3, <3>1 DEF BarriersMeet, PutsComplete, HostPings, HostPongs
  <2>4. CASE hostPC[0] = "pingBarrier" /\ hostPC[1] = "pingBarrier"
    <3>1. hostPC'[0] = "pongBarrier" /\ hostPC'[1] = "put"
      BY <1>0, <2>1, <2>4 DEF Host!AfterBarrier
    <3>2. BarriersMeet' /\ PutsComplete'
      BY <1>0, <2>1, <2>2, <2>4, <3>1 DEF BarriersMeet, PutsComplete
    <3>3. HostPings = HostPongs /\ HostPings' = HostPings + 1 /\ HostPongs' = HostPongs
      BY <1>0, <2>1, <2>4, <3>1, SMT DEF BarriersMeet, HostPings, HostPongs
    <3> QED
      BY <2>1, <3>2, <3>3
  <2>5. CASE hostPC[0] = "pongBarrier" /\ hostPC[1] = "pongBarrier"
    <3>1. hostPC'[0] = Host!AfterRound(0) /\ hostPC'[1] = Host!AfterRound(1)
      BY <1>0, <2>1, <2>5 DEF Host!AfterBarrier
    <3>2. hostRound'[0] = hostRound[0] + 1 /\ hostRound'[1] = hostRound[0] + 1
      BY <1>0, <2>1, <2>5 DEF BarriersMeet
    <3>3. \/ hostPC'[0] = "put" /\ hostPC'[1] = "pingBarrier"
          \/ hostPC'[0] = "check" /\ hostPC'[1] = IF hostRound'[0] < Host!Total THEN "sizeBarrier" ELSE "final"
      BY <1>0, <3>1, <3>2 DEF Host!AfterRound, Host!First, BarriersMeet
    <3>4. Host!Total' = Host!Total
      BY DEF Host!Total, Host!Rounds
    <3>5. BarriersMeet'
      BY <3>2, <3>3, <3>4 DEF BarriersMeet
    <3>6. PutsComplete'
      BY <1>0, <2>1, <2>2, <2>5, <3>2, <3>3 DEF BarriersMeet, PutsComplete
    <3>7. HostPings = HostPongs + 1 /\ HostPongs' = HostPings /\ HostPings' = HostPings
      BY <1>0, <2>5, <3>2, <3>3, SMT DEF BarriersMeet, HostPings, HostPongs
    <3> QED
      BY <2>1, <3>5, <3>6, <3>7
  <2>6. CASE hostPC[0] = "final" /\ hostPC[1] = "final"
    <3>1. hostPC'[0] = "exit" /\ hostPC'[1] = "exit"
      BY <1>0, <2>1, <2>6 DEF Host!AfterBarrier
    <3> QED
      BY <1>0, <2>1, <2>2, <2>6, <3>1 DEF BarriersMeet, PutsComplete, HostPings, HostPongs
  <2> QED
    BY <1>0, <2>1, <2>3, <2>4, <2>5, <2>6 DEF BarriersMeet, Host!BarrierPC
<1>6. CASE Host!Check
  <2>1. /\ hostPC[0] = "check" /\ hostPC'[0] = IF hostRound[0] < Host!Total THEN "sizeBarrier" ELSE "final"
        /\ hostPC'[1] = hostPC[1]
        /\ UNCHANGED <<transport, hostRound, hostRecv, hostPuts>>
    BY <1>0, <1>6, GotoMoves DEF Host!Check, Host!PE
  <2>2. hostPC'[1] = hostPC'[0] /\ hostPC[1] = hostPC'[0]
    BY <1>0, <2>1 DEF BarriersMeet
  <2> QED
    BY <1>0, <2>1, <2>2 DEF BarriersMeet, PutsComplete, HostFlying, HostPings, HostPongs
<1>7. ASSUME NEW m \in hostPuts, Host!Deliver(m)
      PROVE  Goal
  <2>1. /\ UNCHANGED <<transport, hostPC, hostRound>> /\ hostPuts' = hostPuts \ {m}
        /\ hostRecv' = [hostRecv EXCEPT ![1 - m.src] = IF m.src = 0 THEN m.round ELSE hostRecv[1]]
    BY <1>7 DEF Host!Deliver
  <2>2. BarriersMeet' /\ UNCHANGED <<HostPings, HostPongs>>
    BY <1>0, <2>1 DEF BarriersMeet, HostPings, HostPongs
  <2>3. hostPC[m.src] \in {"quiet", "sync"} /\ m.round = hostRound[m.src] + 1
    BY <1>0 DEF PutsComplete
  <2>4. CASE m.src = 0
    <3>1. hostRecv'[0] = hostRecv[0] /\ hostRecv'[1] = hostRound[0] + 1
      BY <1>0, <2>1, <2>3, <2>4, SMT DEF Host!TypeOK
    <3> QED
      BY <1>0, <2>1, <2>2, <2>3, <2>4, <3>1 DEF BarriersMeet, PutsComplete, HostFlying
  <2>5. CASE m.src = 1
    <3>1. hostPC[0] = "pongBarrier" /\ hostRecv[1] = hostRound[1] + 1
      BY <1>0, <2>3, <2>5 DEF BarriersMeet, PutsComplete
    <3>2. hostRecv'[0] = hostRound[1] + 1 /\ hostRecv'[1] = hostRecv[1]
      BY <1>0, <2>1, <2>5, <3>1, SMT DEF Host!TypeOK
    <3> QED
      BY <1>0, <2>1, <2>2, <2>3, <2>5, <3>1, <3>2 DEF BarriersMeet, PutsComplete, HostFlying
  <2> QED
    BY <1>0, <2>4, <2>5
<1> QED
  BY <1>1, <1>2, <1>3, <1>4, <1>5, <1>6, <1>7 DEF Host!Next, Host!PEStep

(* The messages: a send adds one, its receive takes it, and no barrier but *)
(* those of the sizes moves both PEs.                                      *)
LEMMA MessagesStep ==
  ASSUME HostInv, transport = "messages", [Host!Next]_(Host!vars)
  PROVE  /\ transport' = transport /\ MessagesMeet'
         /\ \/ UNCHANGED <<HostPings, HostPongs>>
            \/ HostPings = HostPongs /\ HostPings' = HostPings + 1 /\ HostPongs' = HostPongs
            \/ HostPings = HostPongs + 1 /\ HostPongs' = HostPings /\ HostPings' = HostPings
<1> DEFINE Turn == \/ UNCHANGED <<HostPings, HostPongs>>
                   \/ HostPings = HostPongs /\ HostPings' = HostPings + 1 /\ HostPongs' = HostPongs
                   \/ HostPings = HostPongs + 1 /\ HostPongs' = HostPings /\ HostPings' = HostPings
           Goal == transport' = transport /\ MessagesMeet' /\ Turn
<1> SUFFICES Goal
  OBVIOUS
<1>0. /\ Host!TypeOK /\ MessagesMeet
      /\ 0 \in Host!PE /\ 1 \in Host!PE /\ \A p \in Host!PE : p = 0 \/ p = 1
      /\ \A p \in Host!PE : hostRound[p] \in Int
      /\ HostPings \in Int /\ HostPongs \in Int
      /\ \A m \in hostPuts : m.on = "message"
  <2>1. /\ Host!TypeOK /\ MessagesMeet
        /\ 0 \in Host!PE /\ 1 \in Host!PE /\ \A p \in Host!PE : p = 0 \/ p = 1
        /\ \A p \in Host!PE : hostRound[p] \in Int
    BY TotalShape, SMT DEF HostInv, Host!TypeOK, Host!PE, Host!Total
  <2>2. HostPings \in Int /\ HostPongs \in Int
    BY <2>1, SMT DEF HostPings, HostPongs
  <2> QED
    BY <2>1, <2>2 DEF MessagesMeet, PingOnItsWay, PongOnItsWay
<1>1. CASE UNCHANGED Host!vars
  BY <1>0, <1>1 DEF Host!vars, MessagesMeet, HostPings, HostPongs, PingOnItsWay, PongOnItsWay
<1>2. ASSUME NEW p \in Host!PE, Host!PutLeg(p) \/ Host!Quiet(p) \/ Host!Sync(p)
      PROVE  FALSE
  <2>1. hostPC[p] \notin {"quiet", "sync"}
    BY <1>0 DEF MessagesMeet
  <2> QED
    BY <1>2, <2>1 DEF Host!PutLeg, Host!Quiet, Host!Sync, Host!Goto
<1>3. CASE Host!SendLeg(0)
  <2>1. PICK after \in {"sent", "recv"} :
          /\ Host!Goto(0, "put", after)
          /\ hostPuts' = hostPuts \cup {[src |-> 0, round |-> hostRound[0] + 1, on |-> "message"]}
          /\ UNCHANGED <<hostRound, hostRecv>>
    BY <1>3 DEF Host!SendLeg, Host!AfterSend, Host!EndsRound
  <2>2. /\ hostPC[0] = "put" /\ hostPC'[0] = after /\ hostPC'[1] = hostPC[1] /\ transport' = transport
    BY <1>0, <2>1, GotoMoves DEF Host!PE
  <2>3. HostPings = HostPongs /\ HostPings = hostRound[0] /\ hostPC[1] # "put"
    BY <1>0, <2>2, SMT DEF MessagesMeet, HostPings
  <2>4. HostPings' = HostPings + 1 /\ HostPongs' = HostPongs
    BY <1>0, <2>1, <2>2, <2>3, SMT DEF HostPings, HostPongs
  <2>5. hostPuts = {}
    BY <1>0, <2>2, <2>3, SMT DEF MessagesMeet, PingOnItsWay, PongOnItsWay
  <2>6. \A m \in hostPuts' : PingOnItsWay(m)'
    BY <1>0, <2>1, <2>2, <2>3, <2>4, <2>5 DEF PingOnItsWay
  <2>7. HostPings' = HostPongs' + 1
    BY <2>3, <2>4
  <2> QED
    BY <1>0, <2>1, <2>2, <2>3, <2>4, <2>6, <2>7 DEF MessagesMeet
<1>4. CASE Host!SendLeg(1)
  <2>1. PICK after \in {"sent", Host!AfterRound(1)} :
          /\ Host!Goto(1, "put", after)
          /\ hostPuts' = hostPuts \cup {[src |-> 1, round |-> hostRecv[1], on |-> "message"]}
          /\ hostRound' = IF after # "sent" THEN [hostRound EXCEPT ![1] = @ + 1] ELSE hostRound
          /\ UNCHANGED hostRecv
    BY <1>4 DEF Host!SendLeg, Host!AfterSend, Host!EndsRound
  <2>2. /\ hostPC[1] = "put" /\ hostPC'[1] = after /\ hostPC'[0] = hostPC[0] /\ transport' = transport
    BY <1>0, <2>1, GotoMoves DEF Host!PE
  <2>3. Host!AfterRound(1) \in {"recv", "sizeBarrier", "final"}
    BY DEF Host!AfterRound, Host!First
  <2>4. /\ HostPings = HostPongs + 1 /\ HostPongs = hostRound[1] /\ hostRecv[1] = hostRound[1] + 1
        /\ hostPC[0] \in {"sent", "recv"}
    BY <1>0, <2>2, SMT DEF MessagesMeet, HostPongs
  <2>5. hostRound'[0] = hostRound[0] /\ hostRound'[1] = IF after # "sent" THEN hostRound[1] + 1 ELSE hostRound[1]
    BY <1>0, <2>1 DEF Host!TypeOK, Host!PE
  <2>6. HostPings' = HostPings /\ HostPongs' = HostPongs + 1
    BY <1>0, <2>1, <2>2, <2>3, <2>4, <2>5, SMT DEF HostPings, HostPongs
  <2>7. hostPuts = {}
    BY <1>0, <2>2, <2>4, SMT DEF MessagesMeet, PingOnItsWay, PongOnItsWay
  <2>8. \A m \in hostPuts' : PongOnItsWay(m)'
    BY <1>0, <2>1, <2>2, <2>4, <2>6, <2>7 DEF PongOnItsWay
  <2> QED
    BY <1>0, <2>1, <2>2, <2>3, <2>4, <2>5, <2>6, <2>8 DEF MessagesMeet
<1>5. CASE Host!EndSend(0)
  <2>1. /\ hostPC[0] = "sent" /\ hostPC'[0] = "recv" /\ hostPC'[1] = hostPC[1] /\ transport' = transport
        /\ UNCHANGED <<hostRound, hostRecv, hostPuts>>
    BY <1>0, <1>5, GotoMoves DEF Host!EndSend, Host!AfterSend, Host!PE
  <2>2. UNCHANGED <<HostPings, HostPongs>>
    BY <2>1 DEF HostPings, HostPongs
  <2> QED
    BY <1>0, <2>1, <2>2 DEF MessagesMeet, PingOnItsWay, PongOnItsWay
<1>6. CASE Host!EndSend(1)
  <2>1. /\ hostPC[1] = "sent" /\ hostPC'[1] = Host!AfterRound(1) /\ hostPC'[0] = hostPC[0]
        /\ transport' = transport /\ UNCHANGED <<hostRecv, hostPuts>>
        /\ hostRound' = [hostRound EXCEPT ![1] = @ + 1]
    BY <1>0, <1>6, GotoMoves DEF Host!EndSend, Host!AfterSend, Host!PE
  <2>2. Host!AfterRound(1) \in {"recv", "sizeBarrier", "final"}
    BY DEF Host!AfterRound, Host!First
  <2>3. hostRound'[0] = hostRound[0] /\ hostRound'[1] = hostRound[1] + 1
    BY <1>0, <2>1 DEF Host!TypeOK, Host!PE
  <2>4. HostPings' = HostPings /\ HostPongs' = HostPongs
    BY <1>0, <2>1, <2>2, <2>3, SMT DEF HostPings, HostPongs
  <2> QED
    BY <1>0, <2>1, <2>2, <2>3, <2>4 DEF MessagesMeet, PingOnItsWay, PongOnItsWay
<1>7. CASE Host!RecvLeg(0)
  <2>1. PICK m \in hostPuts :
          /\ m.src = 1 /\ Host!Goto(0, "recv", Host!AfterRound(0))
          /\ hostPuts' = hostPuts \ {m} /\ hostRecv' = [hostRecv EXCEPT ![0] = m.round]
          /\ hostRound' = [hostRound EXCEPT ![0] = @ + 1]
    <3>1. 1 - 0 = 1
      OBVIOUS
    <3> QED
      BY <1>7, <3>1, Zenon DEF Host!RecvLeg
  <2>2. /\ hostPC[0] = "recv" /\ hostPC'[0] = Host!AfterRound(0) /\ hostPC'[1] = hostPC[1]
        /\ transport' = transport
    BY <1>0, <2>1, GotoMoves DEF Host!PE
  <2>3. Host!AfterRound(0) \in {"put", "check"}
    BY DEF Host!AfterRound, Host!First
  <2>4. /\ hostRound'[0] = hostRound[0] + 1 /\ hostRound'[1] = hostRound[1]
        /\ hostRecv'[0] = m.round /\ hostRecv'[1] = hostRecv[1]
    BY <1>0, <2>1 DEF Host!TypeOK, Host!PE
  <2>5. m = [src |-> 1, round |-> HostPongs, on |-> "message"] /\ HostPings = HostPongs
    BY <1>0, <2>1, SMT DEF MessagesMeet, PingOnItsWay, PongOnItsWay
  <2>6. HostPings = hostRound[0] + 1
    BY <2>2 DEF HostPings
  <2>7. HostPings' = HostPings /\ HostPongs' = HostPongs
    BY <1>0, <2>2, <2>3, <2>4, <2>6, SMT DEF HostPings, HostPongs
  <2>8. hostPuts' = {}
    BY <1>0, <2>1, <2>5, SMT DEF MessagesMeet, PingOnItsWay, PongOnItsWay
  <2>9. hostPC[1] # "put"
    BY <1>0, <2>5, SMT DEF MessagesMeet
  <2> QED
    BY <1>0, <2>2, <2>3, <2>4, <2>5, <2>6, <2>7, <2>8, <2>9 DEF MessagesMeet
<1>8. CASE Host!RecvLeg(1)
  <2>1. PICK m \in hostPuts :
          /\ m.src = 0 /\ Host!Goto(1, "recv", "put")
          /\ hostPuts' = hostPuts \ {m} /\ hostRecv' = [hostRecv EXCEPT ![1] = m.round]
          /\ UNCHANGED hostRound
    <3>1. 1 - 1 = 0 /\ 1 # 0
      OBVIOUS
    <3> QED
      BY <1>8, <3>1, Zenon DEF Host!RecvLeg
  <2>2. /\ hostPC[1] = "recv" /\ hostPC'[1] = "put" /\ hostPC'[0] = hostPC[0]
        /\ transport' = transport
    BY <1>0, <2>1, GotoMoves DEF Host!PE
  <2>3. hostRecv'[1] = m.round /\ hostRecv'[0] = hostRecv[0]
    BY <1>0, <2>1 DEF Host!TypeOK, Host!PE
  <2>4. m = [src |-> 0, round |-> HostPings, on |-> "message"] /\ HostPings = HostPongs + 1
    BY <1>0, <2>1, SMT DEF MessagesMeet, PingOnItsWay, PongOnItsWay
  <2>5. HostPongs = hostRound[1]
    BY <1>0, <2>2, SMT DEF HostPongs
  <2>6. HostPings' = HostPings /\ HostPongs' = HostPongs
    BY <1>0, <2>1, <2>2, <2>5, SMT DEF HostPings, HostPongs
  <2>7. hostPuts' = {}
    BY <1>0, <2>1, <2>4, SMT DEF MessagesMeet, PingOnItsWay, PongOnItsWay
  <2> QED
    BY <1>0, <2>1, <2>2, <2>3, <2>4, <2>5, <2>6, <2>7 DEF MessagesMeet
<1>9. CASE Host!Barrier
  <2>1. /\ \A p \in Host!PE :
             /\ hostPC[p] \in Host!BarrierPC /\ hostPC'[p] = Host!AfterBarrier(p)
             /\ hostRound'[p] = IF hostPC[p] = "pongBarrier" THEN hostRound[p] + 1 ELSE hostRound[p]
        /\ UNCHANGED <<transport, hostRecv, hostPuts>>
    BY <1>9 DEF Host!Barrier
  <2>2. \A p \in Host!PE : hostPC[p] \in {"sizeBarrier", "final"}
    BY <1>0, <2>1 DEF MessagesMeet, Host!BarrierPC
  <2>3. hostPC'[0] \in {"put", "exit"} /\ hostPC'[1] \in {"recv", "exit"}
    BY <1>0, <2>1, <2>2 DEF Host!AfterBarrier, Host!First
  <2>4. hostRound'[0] = hostRound[0] /\ hostRound'[1] = hostRound[1]
    BY <1>0, <2>1, <2>2
  <2>5. HostPings' = HostPings /\ HostPongs' = HostPongs
    BY <1>0, <2>2, <2>3, <2>4, SMT DEF HostPings, HostPongs
  <2>6. hostPC[0] \notin {"sent", "recv"}
    BY <1>0, <2>2
  <2> QED
    BY <1>0, <2>1, <2>3, <2>4, <2>5, <2>6 DEF MessagesMeet, PingOnItsWay, PongOnItsWay
<1>10. CASE Host!Check
  <2>1. /\ hostPC[0] = "check" /\ hostPC'[0] \in {"sizeBarrier", "final"} /\ hostPC'[1] = hostPC[1]
        /\ UNCHANGED <<transport, hostRound, hostRecv, hostPuts>>
    BY <1>0, <1>10, GotoMoves DEF Host!Check, Host!PE
  <2>2. HostPings' = HostPings /\ HostPongs' = HostPongs
    BY <2>1 DEF HostPings, HostPongs
  <2> QED
    BY <1>0, <2>1, <2>2 DEF MessagesMeet, PingOnItsWay, PongOnItsWay
<1>11. ASSUME NEW m \in hostPuts, Host!Deliver(m)
       PROVE  FALSE
  BY <1>0, <1>11 DEF Host!Deliver
<1> QED
  BY <1>0, <1>1, <1>2, <1>3, <1>4, <1>5, <1>6, <1>7, <1>8, <1>9, <1>10, <1>11 DEF Host!Next, Host!PEStep

LEMMA HostInvStep == HostInv /\ [Host!Next]_(Host!vars) => HostInv'
<1> SUFFICES ASSUME HostInv, [Host!Next]_(Host!vars)
             PROVE  HostInv'
  OBVIOUS
<1>1. Host!TypeOK' /\ RoundsLeft'
  BY HostTypeStep DEF HostInv
<1>2. CASE transport = "puts"
  BY <1>1, <1>2, PutsStep DEF HostInv
<1>3. CASE transport = "messages"
  BY <1>1, <1>3, MessagesStep DEF HostInv
<1> QED
  BY <1>2, <1>3 DEF HostInv, Host!TypeOK

(* Every variable of the host-driven ping-pongs keeps its type: neither PE *)
(* counts a round trip beyond the last of the sweep.                       *)
THEOREM HostTypeCorrect == Host!Spec => []Host!TypeOK
BY HostTypeInit, HostTypeStep, PTL DEF Host!Spec

(* Barriers and messages pair up round trip by round trip, as HostInv says.*)
THEOREM HostInductive == Host!Spec => []HostInv
BY HostInit, HostInvStep, PTL DEF Host!Spec

LEMMA HostRoundTripThen == HostInv => Host!RoundTrip
<1> SUFFICES ASSUME HostInv
             PROVE  Host!RoundTrip
  OBVIOUS
<1>1. CASE transport = "puts"
  BY <1>1 DEF HostInv, BarriersMeet, PutsComplete, HostMoving, Host!RoundTrip
<1>2. CASE transport = "messages"
  BY <1>2 DEF HostInv, MessagesMeet, Host!RoundTrip
<1> QED
  BY <1>1, <1>2 DEF HostInv, Host!TypeOK

LEMMA HostTurnsInit == Host!Init => Host!Turns!Init
BY DEF Host!Init, Host!PE, Host!Turns!Init

LEMMA HostTurnsMap ==
  HostInv /\ [Host!Next]_(Host!vars) => [Host!Turns!Ping \/ Host!Turns!Pong]_(Host!Turns!turnVars)
<1> SUFFICES ASSUME HostInv, [Host!Next]_(Host!vars)
             PROVE  [Host!Turns!Ping \/ Host!Turns!Pong]_(Host!Turns!turnVars)
  OBVIOUS
<1>1. \/ UNCHANGED <<HostPings, HostPongs>>
      \/ HostPings = HostPongs /\ HostPings' = HostPings + 1 /\ HostPongs' = HostPongs
      \/ HostPings = HostPongs + 1 /\ HostPongs' = HostPings /\ HostPings' = HostPings
  BY PutsStep, MessagesStep DEF HostInv, Host!TypeOK
<1>2. HostPongs \in Int
  BY TotalShape, SMT DEF HostInv, Host!TypeOK, Host!PE, Host!Total, HostPongs
<1>3. HostPings = HostPongs + 1 => HostPongs < HostPings
  BY <1>2, SMT
<1>4. CASE UNCHANGED <<HostPings, HostPongs>>
  BY <1>4 DEF Host!Turns!turnVars, HostPings, HostPongs
<1>5. CASE HostPings = HostPongs /\ HostPings' = HostPings + 1 /\ HostPongs' = HostPongs
  BY <1>5 DEF Host!Turns!Ping, HostPings, HostPongs
<1>6. CASE HostPongs < HostPings /\ HostPongs' = HostPings /\ HostPings' = HostPings
  BY <1>6 DEF Host!Turns!Pong, HostPings, HostPongs
<1> QED
  BY <1>1, <1>3, <1>4, <1>5, <1>6

(* Barriers, or sends and receives, make the PEs take turns as the flags   *)
(* do.                                                                     *)
THEOREM HostImplementsTurns == Host!Spec => Host!ImplementsTurns
BY HostInductive, HostTurnsInit, HostTurnsMap, PTL DEF Host!Spec, Host!ImplementsTurns, Host!Turns!Spec

-----------------------------------------------------------------------------
(* No deadlock: signals.                                                   *)

(* The guards of the steps of a kernel and of its host.                    *)
KernelCanGoOn(p) ==
  \/ \E b \in Block : \/ pc[p][b] = "put"
                      \/ pc[p][b] = "quiet" /\ \A m \in puts : ~(m.src = p /\ m.blk = b)
  \/ pc[p][0] = "signal"
  \/ pc[p][0] = "wait" /\ flag[p] >= Signal(p)
  \/ \A b \in Block : pc[p][b] = "sync0"
  \/ \A b \in Block : pc[p][b] = "sync1"
  \/ GridReady2(p) /\ it[p] <= LaunchIters(p)
  \/ host[p] = "launch"

SignalsCanGoOn ==
  \/ \E p \in PE : KernelCanGoOn(p) \/ sets[p] # {}
  \/ host[0] = "check"
  \/ \A p \in PE : host[p] \in {"aligned", "final"}
  \/ puts # {}

(* Until both programs have exited something can go on.                    *)
NoKernelStuck == (\E p \in PE : host[p] # "exit") => SignalsCanGoOn

(* A kernel is within its launch.                                          *)
WithinLaunch == \A p \in PE : it[p] <= LaunchIters(p)

(* What its host counted before the launch that it is at.                  *)
LaunchBase(p) == IF host[p] = "aligned" THEN base[p] - LaunchIters(p) ELSE base[p]

Launching == {"launch", "kernel", "aligned"}

(* The PEs are at the same launch, but for an initiator that validates.    *)
SameLaunch ==
  \/ /\ {host[0], host[1]} \subseteq Launching
     /\ size[0] = size[1] /\ timed[0] = timed[1] /\ LaunchBase(0) = LaunchBase(1)
  \/ /\ host[0] = "check" /\ host[1] \in Launching
     /\ size[1] = size[0] + 1 /\ ~timed[1] /\ LaunchBase(1) = base[0]
  \/ host[0] = "check" /\ size[0] = Sizes /\ host[1] = "final"
  \/ host[0] \in {"final", "exit"} /\ host[1] = host[0]

LEMMA WithinStep == SignalInv /\ WithinLaunch /\ [Next]_vars => WithinLaunch'
<1> SUFFICES ASSUME SignalInv, WithinLaunch, [Next]_vars, NEW p \in PE
             PROVE  (it[p] <= LaunchIters(p))'
  BY DEF WithinLaunch
<1>0. /\ TypeOK /\ GridStage /\ it[p] <= LaunchIters(p) /\ it[p] \in Nat
      /\ \A b \in BOOLEAN : (IF b THEN Iterations ELSE Warmup) \in Nat \ {0}
      /\ timed[p] \in BOOLEAN /\ timed'[p] \in BOOLEAN
  BY Shape, TypeStep, SMT DEF SignalInv, TypeOK, WithinLaunch
<1>1. LaunchIters(p) \in Nat \ {0} /\ LaunchIters(p)' \in Nat \ {0}
  BY <1>0 DEF LaunchIters
<1>2. ASSUME timed'[p] = timed[p]
      PROVE  LaunchIters(p)' = LaunchIters(p)
  BY <1>2 DEF LaunchIters
<1>3. CASE UNCHANGED <<timed, it>>
  BY <1>0, <1>2, <1>3
<1>4. ASSUME NEW r \in PE, GridSync2(r)
      PROVE  (it[p] <= LaunchIters(p))'
  <2>1. timed' = timed /\ it' = [it EXCEPT ![r] = @ + 1] /\ it[r] < LaunchIters(r)
    BY <1>4 DEF GridSync2, hostVars
  <2>2. CASE p = r
    BY <1>0, <1>1, <1>2, <2>1, <2>2, SMT DEF TypeOK
  <2>3. CASE p # r
    BY <1>0, <1>2, <2>1, <2>3 DEF TypeOK
  <2> QED
    BY <2>2, <2>3
<1>5. ASSUME NEW r \in PE, Launch(r) \/ FinishKernel(r)
      PROVE  (it[p] <= LaunchIters(p))'
  <2>1. timed' = timed /\ \E n \in {0, 1} : it' = [it EXCEPT ![r] = n]
    BY <1>5 DEF Launch, FinishKernel, hostVars
  <2>2. it'[p] \in {0, 1, it[p]}
    BY <1>0, <2>1 DEF TypeOK
  <2> QED
    BY <1>0, <1>1, <1>2, <2>1, <2>2, SMT
<1>6. CASE Check \/ Barrier
  <2>1. it'[p] = it[p]
    BY <1>6 DEF Check, Barrier
  <2>2. CASE timed'[p] = timed[p]
    BY <1>0, <1>2, <2>1, <2>2
  <2>3. CASE timed'[p] # timed[p]
    <3>1. host[p] # "kernel"
      BY <1>0, <1>6, <2>3 DEF Check, Barrier, TypeOK
    <3>2. it[p] = 0
      BY <1>0, <3>1 DEF GridStage
    <3> QED
      BY <1>1, <2>1, <3>2, SMT
  <2> QED
    BY <2>2, <2>3
<1> QED
  BY <1>3, <1>4, <1>5, <1>6
  DEF vars, hostVars, netVars, Next, BlockStep, IssuePut, Quiet, LeaderStep, SetFlag, Wait,
      GridStep, GridSync0, GridSync1, HostStep, Deliver, DeliverPut, DeliverSet

LEMMA SameLaunchStep ==
  SignalInv /\ WithinLaunch /\ SameLaunch /\ [Next]_vars => SameLaunch'
<1> SUFFICES ASSUME SignalInv, SameLaunch, [Next]_vars
             PROVE  SameLaunch'
  OBVIOUS
<1> USE DEF Launching
<1>0. /\ TypeOK /\ 0 \in PE /\ 1 \in PE /\ \A p \in PE : p = 0 \/ p = 1
      /\ \A p \in PE : /\ base[p] \in Int /\ size[p] \in Int /\ size[p] <= Sizes
                       /\ timed[p] \in BOOLEAN /\ host[p] \in HostPC
      /\ Sizes \in Int /\ Warmup \in Int /\ Iterations \in Int
  BY Shape, SMT DEF SignalInv, TypeOK, PE
<1>1. \A p \in PE : LaunchBase(p) =
        IF host[p] = "aligned" THEN base[p] - (IF timed[p] THEN Iterations ELSE Warmup) ELSE base[p]
  BY DEF LaunchBase, LaunchIters
<1>2. \A p \in PE : LaunchBase(p)' =
        IF host'[p] = "aligned" THEN base'[p] - (IF timed'[p] THEN Iterations ELSE Warmup) ELSE base'[p]
  BY DEF LaunchBase, LaunchIters
<1>3. CASE UNCHANGED <<host, hostVars>>
  BY <1>0, <1>1, <1>2, <1>3 DEF SameLaunch, hostVars
<1>4. ASSUME NEW r \in PE, Launch(r)
      PROVE  SameLaunch'
  <2>1. /\ host[r] = "launch" /\ host'[r] = "kernel" /\ UNCHANGED <<size, timed, base>>
        /\ \A q \in PE \ {r} : host'[q] = host[q]
    BY <1>0, <1>4 DEF Launch, hostVars, TypeOK
  <2>2. \A p \in PE : LaunchBase(p)' = LaunchBase(p)
    BY <1>0, <1>1, <1>2, <2>1
  <2> QED
    BY <1>0, <2>1, <2>2 DEF SameLaunch
<1>5. ASSUME NEW r \in PE, FinishKernel(r)
      PROVE  SameLaunch'
  <2>1. pc[r][0] = "sync2" /\ host[r] = "kernel"
    <3>1. pc[r][0] = "sync2"
      BY <1>5, Shape DEF FinishKernel, GridReady2
    <3> QED
      BY <3>1 DEF SignalInv, GridStage
  <2>2. /\ host'[r] = "aligned" /\ UNCHANGED <<size, timed>>
        /\ base'[r] = base[r] + (IF timed[r] THEN Iterations ELSE Warmup)
        /\ \A q \in PE \ {r} : host'[q] = host[q] /\ base'[q] = base[q]
    BY <1>0, <1>5 DEF FinishKernel, TypeOK, LaunchIters
  <2>3. \A p \in PE : LaunchBase(p)' = LaunchBase(p)
    <3>1. LaunchBase(r)' = LaunchBase(r)
      BY <1>0, <1>1, <1>2, <2>1, <2>2, SMT
    <3>2. \A p \in PE \ {r} : LaunchBase(p)' = LaunchBase(p)
      BY <1>1, <1>2, <2>2
    <3> QED
      BY <3>1, <3>2
  <2>4. host[0] = "check" => base'[0] = base[0]
    BY <1>0, <2>1, <2>2
  <2> QED
    BY <1>0, <2>1, <2>2, <2>3, <2>4 DEF SameLaunch
<1>6. CASE Check
  <2>1. /\ host[0] = "check" /\ host'[1] = host[1]
        /\ host'[0] = IF size[0] = Sizes THEN "final" ELSE "launch"
        /\ size'[0] = IF size[0] < Sizes THEN size[0] + 1 ELSE size[0]
        /\ size'[1] = size[1] /\ timed'[0] = FALSE /\ timed'[1] = timed[1] /\ base' = base
    BY <1>0, <1>6 DEF Check, TypeOK
  <2>2. CASE host[1] = "final" /\ size[0] = Sizes
    BY <2>1, <2>2 DEF SameLaunch
  <2>3. CASE /\ host[1] \in Launching
             /\ size[1] = size[0] + 1 /\ ~timed[1] /\ LaunchBase(1) = base[0]
    <3>1. size[0] < Sizes
      BY <1>0, <2>3, SMT
    <3>2. host'[0] = "launch" /\ size'[0] = size'[1] /\ timed'[0] = timed'[1]
      <4>1. timed'[0] = timed'[1]
        BY <1>0, <2>1, <2>3, Zenon
      <4>2. size'[0] = size'[1]
        BY <2>1, <2>3, <3>1
      <4>3. size[0] # Sizes
        BY <1>0, <3>1, SMT
      <4> QED
        BY <2>1, <4>1, <4>2, <4>3
    <3>3. LaunchBase(1)' = LaunchBase(1) /\ LaunchBase(0)' = base[0]
      BY <1>0, <1>1, <1>2, <2>1, <3>2
    <3> QED
      BY <2>1, <2>3, <3>2, <3>3 DEF SameLaunch
  <2> QED
    BY <2>1, <2>2, <2>3 DEF SameLaunch
<1>7. CASE Barrier
  <2>1. /\ host[0] \in {"aligned", "final"} /\ host[1] \in {"aligned", "final"} /\ base' = base
        /\ host'[0] = IF host[0] = "final" THEN "exit" ELSE IF timed[0] THEN "check" ELSE "launch"
        /\ host'[1] = IF host[1] = "final" THEN "exit"
                      ELSE IF timed[1] /\ size[1] = Sizes THEN "final" ELSE "launch"
        /\ timed'[0] = IF host[0] = "final" THEN timed[0] ELSE TRUE
        /\ timed'[1] = IF host[1] = "final" THEN timed[1] ELSE ~timed[1]
        /\ size'[0] = size[0]
        /\ size'[1] = IF timed[1] /\ size[1] < Sizes THEN size[1] + 1 ELSE size[1]
    <3>1. /\ host[0] \in {"aligned", "final"} /\ host[1] \in {"aligned", "final"} /\ base' = base
          /\ host[0] # "check" /\ host[1] # "check"
      BY <1>0, <1>7 DEF Barrier
    <3>2. \A p \in PE : host'[p] = IF host[p] = "final" THEN "exit"
                                   ELSE IF ~timed[p] THEN "launch"
                                   ELSE IF p = 0 THEN "check"
                                   ELSE IF size[p] = Sizes THEN "final" ELSE "launch"
      BY <1>7 DEF Barrier
    <3>3. \A p \in PE : timed'[p] = IF host[p] = "final" THEN timed[p] ELSE p = 0 \/ ~timed[p]
      BY <1>7 DEF Barrier
    <3>4. size' = [size EXCEPT ![1] = IF timed[1] /\ @ < Sizes THEN @ + 1 ELSE @]
      BY <1>7 DEF Barrier
    <3>5. size'[0] = size[0] /\ size'[1] = IF timed[1] /\ size[1] < Sizes THEN size[1] + 1 ELSE size[1]
      BY <1>0, <3>4 DEF TypeOK
    <3>6. /\ timed'[0] = IF host[0] = "final" THEN timed[0] ELSE TRUE
          /\ timed'[1] = IF host[1] = "final" THEN timed[1] ELSE ~timed[1]
      <4>1. 1 # 0
        BY SMT
      <4> QED
        BY <1>0, <3>3, <4>1, Zenon
    <3>7. /\ host'[0] = IF host[0] = "final" THEN "exit" ELSE IF timed[0] THEN "check" ELSE "launch"
          /\ host'[1] = IF host[1] = "final" THEN "exit"
                        ELSE IF timed[1] /\ size[1] = Sizes THEN "final" ELSE "launch"
      BY <1>0, <3>2
    <3> QED
      BY <3>1, <3>5, <3>6, <3>7, Zenon
  <2>2. CASE host[0] = "final" /\ host[1] = "final"
    BY <2>1, <2>2 DEF SameLaunch
  <2>3. CASE /\ host[0] = "aligned" /\ host[1] = "aligned"
             /\ size[0] = size[1] /\ timed[0] = timed[1] /\ LaunchBase(0) = LaunchBase(1)
    <3>1. base[0] = base[1]
      BY <1>0, <1>1, <2>3, SMT
    <3>2. CASE ~timed[0]
      BY <1>0, <1>2, <2>1, <2>3, <3>1, <3>2 DEF SameLaunch
    <3>3. CASE timed[0] /\ size[0] = Sizes
      BY <2>1, <2>3, <3>3 DEF SameLaunch
    <3>4. CASE timed[0] /\ size[0] # Sizes
      <4>1. size[1] < Sizes
        BY <1>0, <2>3, <3>4, SMT
      <4> QED
        BY <1>0, <1>2, <2>1, <2>3, <3>1, <3>4, <4>1 DEF SameLaunch
    <3> QED
      BY <1>0, <3>2, <3>3, <3>4
  <2> QED
    BY <2>1, <2>2, <2>3 DEF SameLaunch
<1>8. CASE Next
  <2>1. ASSUME NEW p \in PE, NEW b \in Block, BlockStep(p, b)
        PROVE  UNCHANGED <<host, hostVars>>
    BY <2>1 DEF BlockStep, IssuePut, Quiet
  <2>2. ASSUME NEW p \in PE, LeaderStep(p) \/ GridStep(p)
        PROVE  UNCHANGED <<host, hostVars>>
    BY <2>2 DEF LeaderStep, SetFlag, Wait, GridStep, GridSync0, GridSync1, GridSync2
  <2>3. ASSUME Deliver
        PROVE  UNCHANGED <<host, hostVars>>
    BY <2>3 DEF Deliver, DeliverPut, DeliverSet
  <2> QED
    BY <1>3, <1>4, <1>5, <1>6, <1>7, <1>8, <2>1, <2>2, <2>3 DEF Next, HostStep
<1> QED
  BY <1>3, <1>8 DEF vars, hostVars

(* A kernel with nothing in flight can only be stuck in its wait.          *)
LEMMA StuckInWait ==
  ASSUME SignalInv, WithinLaunch, ~SignalsCanGoOn, NEW p \in PE, host[p] = "kernel"
  PROVE  pc[p][0] = "wait" /\ ~(flag[p] >= Signal(p))
<1>0. /\ TypeOK /\ GridStage /\ 0 \in Block /\ 0 \in PE /\ \A q \in PE : q = 0 \/ q = 1
      /\ ~KernelCanGoOn(p) /\ puts = {} /\ it[p] <= LaunchIters(p)
  BY Shape DEF SignalInv, SignalsCanGoOn, WithinLaunch, PE
<1>1. pc[p][0] \in BlockPC \ {"idle", "put", "quiet", "signal"}
  BY <1>0 DEF TypeOK, GridStage, KernelCanGoOn
<1>2. pc[p][0] # "sync1"
  <2> SUFFICES ASSUME pc[p][0] = "sync1"
               PROVE  FALSE
    OBVIOUS
  <2>1. \A b \in Block : pc[p][b] \in Moving
    BY <1>0 DEF GridStage, Stretch, Moving
  <2>2. \A b \in Block : pc[p][b] = "sync1"
    BY <1>0, <2>1 DEF KernelCanGoOn, Moving
  <2> QED
    BY <1>0, <2>2 DEF KernelCanGoOn
<1>3. pc[p][0] # "sync0"
  BY <1>0 DEF GridStage, Stretch, KernelCanGoOn
<1>4. pc[p][0] # "sync2"
  BY <1>0 DEF GridStage, Stretch, KernelCanGoOn, GridReady2
<1> QED
  BY <1>0, <1>1, <1>2, <1>3, <1>4 DEF KernelCanGoOn, BlockPC

(* A PE in its wait is one leg behind the other, or one ahead; the other   *)
(* is in a wait of its own then, or behind its launch: both cannot be.     *)
LEMMA SignalsGoOn == SignalInv /\ WithinLaunch /\ SameLaunch => NoKernelStuck
<1> SUFFICES ASSUME SignalInv, WithinLaunch, SameLaunch, ~SignalsCanGoOn,
                    NEW p \in PE, host[p] # "exit"
             PROVE  FALSE
  BY DEF NoKernelStuck
<1> USE DEF Launching
<1>0. /\ TypeOK /\ GridStage /\ TakeTurns /\ Flags /\ 0 \in PE /\ 1 \in PE /\ 0 \in Block
      /\ \A q \in PE : q = 0 \/ q = 1
      /\ \A q \in PE : base[q] \in Int /\ it[q] \in Int /\ flag[q] \in Int /\ Signal(q) \in Int
      /\ \A q \in PE : it[q] <= LaunchIters(q) /\ LaunchIters(q) \in Int
      /\ Pings \in Int /\ Pongs \in Int
  BY Shape, LegsType, SMT DEF SignalInv, TypeOK, PE, WithinLaunch, LaunchIters
<1>1. /\ \A q \in PE : host[q] # "launch" /\ sets[q] = {}
      /\ host[0] # "check" /\ ~(\A q \in PE : host[q] \in {"aligned", "final"})
  BY DEF SignalsCanGoOn, KernelCanGoOn
<1>2. /\ {host[0], host[1]} \subseteq Launching
      /\ timed[0] = timed[1] /\ LaunchBase(0) = LaunchBase(1)
  BY <1>0, <1>1 DEF SameLaunch
<1>3. \A q \in PE : host[q] \in {"kernel", "aligned"}
  BY <1>0, <1>1, <1>2
<1>4. \A q \in PE : host[q] = "kernel" => pc[q][0] = "wait" /\ flag[q] < Signal(q)
  BY <1>0, StuckInWait, SMT
<1>5. \A q \in PE : host[q] = "aligned" => pc[q][0] = "idle" /\ it[q] = 0
  BY <1>0 DEF GridStage
<1>6. /\ flag[1] = Pings /\ flag[0] = Pongs /\ (Pings = Pongs \/ Pings = Pongs + 1)
  BY <1>0, <1>1 DEF Flags, Flagged, TakeTurns
<1>7. /\ host[0] = "kernel" => Pings = Signal(0)
      /\ host[1] = "kernel" => Pongs = Signal(1) - 1
      /\ host[0] = "aligned" => Pings = base[0]
      /\ host[1] = "aligned" => Pongs = base[1]
  BY <1>0, <1>4, <1>5, LegsOf, SMT DEF Signal
<1>8. \A q \in PE : LaunchBase(q) = IF host[q] = "aligned" THEN base[q] - LaunchIters(q) ELSE base[q]
  BY DEF LaunchBase
<1>9. LaunchIters(0) = LaunchIters(1)
  BY <1>2 DEF LaunchIters
<1>10. CASE host[0] = "kernel" /\ host[1] = "kernel"
  BY <1>0, <1>4, <1>6, <1>7, <1>10, SMT
<1>11. CASE host[0] = "kernel" /\ host[1] = "aligned"
  BY <1>0, <1>2, <1>4, <1>6, <1>7, <1>8, <1>9, <1>11, SMT DEF Signal
<1>12. CASE host[0] = "aligned" /\ host[1] = "kernel"
  BY <1>0, <1>2, <1>4, <1>6, <1>7, <1>8, <1>9, <1>12, SMT DEF Signal
<1> QED
  BY <1>0, <1>1, <1>3, <1>10, <1>11, <1>12

(* No wait, grid synchronisation or barrier of the signal-driven ping-pong *)
(* waits for something that never comes, for every grid and every sweep.   *)
THEOREM NoKernelStuckHolds == Spec => []NoKernelStuck
<1> DEFINE Inv == SignalInv /\ WithinLaunch /\ SameLaunch
<1>1. Init => Inv
  <2> SUFFICES ASSUME Init
               PROVE  WithinLaunch /\ SameLaunch
    BY SignalInit
  <2>1. WithinLaunch
    BY Shape DEF Init, WithinLaunch, LaunchIters
  <2>2. SameLaunch
    BY Shape DEF Init, SameLaunch, Launching, LaunchBase
  <2> QED
    BY <2>1, <2>2
<1>2. Inv /\ [Next]_vars => Inv'
  BY SignalStep, WithinStep, SameLaunchStep
<1>3. Inv => NoKernelStuck
  BY SignalsGoOn
<1> HIDE DEF Inv
<1> QED
  BY <1>1, <1>2, <1>3, PTL DEF Spec

-----------------------------------------------------------------------------
(* No deadlock: barriers and messages.                                     *)

(* The guards of the steps of a PE.                                        *)
HostCanGoOn(p) ==
  \/ hostPC[p] = "put"
  \/ hostPC[p] = "quiet" /\ \A m \in hostPuts : ~(m.src = p /\ m.on = "network")
  \/ hostPC[p] = "sync" /\ \A m \in hostPuts : ~(m.src = p /\ m.on = "device")
  \/ hostPC[p] = "sent" /\ \A m \in hostPuts : m.src # p
  \/ hostPC[p] = "recv" /\ \E m \in hostPuts : m.src = 1 - p /\ m.on = "message"

HostsCanGoOn ==
  \/ \E p \in Host!PE : HostCanGoOn(p)
  \/ hostPC[0] = "check"
  \/ \A p \in Host!PE : hostPC[p] \in Host!BarrierPC
  \/ \E m \in hostPuts : m.on # "message"

(* Until both programs have exited something can go on.                    *)
NoHostStuck == (\E p \in Host!PE : hostPC[p] # "exit") => HostsCanGoOn

(* Between two sizes, and within the round trips of one.                   *)
BetweenSizes(p) == hostPC[p] \in {"check", "sizeBarrier", "final", "exit"}

(* With messages nothing but the barriers between sizes keeps the PEs at   *)
(* the same size: one of them that is between two finds the other there,   *)
(* or in the last round trip before.                                       *)
SizesMeet ==
  /\ BetweenSizes(0) => Host!LastOfSize(hostRound[0]) /\ (BetweenSizes(1) \/ hostPC[1] = "sent")
  /\ BetweenSizes(1) => /\ Host!LastOfSize(hostRound[1])
                        /\ BetweenSizes(0) \/ (hostPC[0] \in {"sent", "recv"} /\ HostPings = HostPongs)
  /\ \A p \in Host!PE : /\ ~BetweenSizes(0) /\ ~BetweenSizes(1) /\ hostRound[p] = hostRound[1 - p] + 1
                             => ~Host!LastOfSize(hostRound[p])
                        /\ hostPC[p] \in {"final", "exit"} => hostRound[p] = Host!Total
  /\ hostPC[0] = "exit" <=> hostPC[1] = "exit"

(* A ping that was sent and not answered is on its way or at the peer, a   *)
(* pong that was sent and not received is on its way.                      *)
MessagesKept ==
  /\ HostPings = HostPongs + 1 => hostPC[1] = "put" \/ HostFlying(0)
  /\ HostPings = HostPongs /\ hostPC[0] \in {"sent", "recv"} => HostFlying(1)

(* What the steps with messages move, one PE at a time but for a barrier.  *)
Moves0(from, to, done) ==
  /\ hostPC[0] = from /\ hostPC'[0] = to /\ hostPC'[1] = hostPC[1]
  /\ hostRound'[0] = hostRound[0] + done /\ hostRound'[1] = hostRound[1]

Moves1(from, to, done) ==
  /\ hostPC[1] = from /\ hostPC'[1] = to /\ hostPC'[0] = hostPC[0]
  /\ hostRound'[1] = hostRound[1] + done /\ hostRound'[0] = hostRound[0]

MovesBoth ==
  /\ hostPC[0] \in {"sizeBarrier", "final"} /\ hostPC[1] \in {"sizeBarrier", "final"}
  /\ hostPC'[0] = IF hostPC[0] = "final" THEN "exit" ELSE "put"
  /\ hostPC'[1] = IF hostPC[1] = "final" THEN "exit" ELSE "recv"
  /\ hostRound'[0] = hostRound[0] /\ hostRound'[1] = hostRound[1]

LEMMA MessageMoves ==
  ASSUME HostInv, transport = "messages", [Host!Next]_(Host!vars)
  PROVE  \/ UNCHANGED <<hostPC, hostRound, hostPuts>>
         \/ (\E to \in {"sent", "recv"} : Moves0("put", to, 0)) /\ HostFlying(0)'
         \/ Moves0("sent", "recv", 0) /\ UNCHANGED hostPuts
         \/ Moves0("recv", Host!AfterRound(0), 1) /\ HostPings = HostPongs
         \/ /\ Moves0("check", IF hostRound[0] < Host!Total THEN "sizeBarrier" ELSE "final", 0)
            /\ UNCHANGED hostPuts
         \/ (Moves1("put", "sent", 0) \/ Moves1("put", Host!AfterRound(1), 1)) /\ HostFlying(1)'
         \/ Moves1("sent", Host!AfterRound(1), 1) /\ UNCHANGED hostPuts
         \/ Moves1("recv", "put", 0)
         \/ MovesBoth /\ UNCHANGED hostPuts
<1> USE DEF Moves0, Moves1
<1>0. /\ Host!TypeOK /\ MessagesMeet
      /\ 0 \in Host!PE /\ 1 \in Host!PE /\ 0 # 1 /\ \A p \in Host!PE : p = 0 \/ p = 1
      /\ hostRound[0] \in Int /\ hostRound[1] \in Int
      /\ \A m \in hostPuts : m.on = "message"
  BY TotalShape, SMT DEF HostInv, Host!TypeOK, Host!PE, Host!Total,
                         MessagesMeet, PingOnItsWay, PongOnItsWay
<1>1. CASE UNCHANGED Host!vars
  BY <1>1 DEF Host!vars
<1>2. ASSUME NEW p \in Host!PE, Host!PutLeg(p) \/ Host!Quiet(p) \/ Host!Sync(p)
      PROVE  FALSE
  <2>1. hostPC[p] \notin {"quiet", "sync"}
    BY <1>0 DEF MessagesMeet
  <2> QED
    BY <1>2, <2>1 DEF Host!PutLeg, Host!Quiet, Host!Sync, Host!Goto
<1>3. ASSUME Host!SendLeg(0)
      PROVE  (\E to \in {"sent", "recv"} : Moves0("put", to, 0)) /\ HostFlying(0)'
  <2>1. PICK after \in {"sent", "recv"} :
          /\ Host!Goto(0, "put", after)
          /\ hostPuts' = hostPuts \cup {[src |-> 0, round |-> hostRound[0] + 1, on |-> "message"]}
          /\ UNCHANGED <<hostRound, hostRecv>>
    BY <1>3 DEF Host!SendLeg, Host!AfterSend, Host!EndsRound
  <2>2. hostPC[0] = "put" /\ hostPC'[0] = after /\ hostPC'[1] = hostPC[1]
    BY <1>0, <2>1, GotoMoves
  <2>3. HostFlying(0)'
    <3> DEFINE ping == [src |-> 0, round |-> hostRound[0] + 1, on |-> "message"]
    <3>1. ping \in hostPuts' /\ ping.src = 0
      BY <2>1
    <3> QED
      BY <3>1, Zenon DEF HostFlying
  <2> QED
    BY <1>0, <2>1, <2>2, <2>3
<1>4. ASSUME Host!SendLeg(1)
      PROVE  (Moves1("put", "sent", 0) \/ Moves1("put", Host!AfterRound(1), 1)) /\ HostFlying(1)'
  <2>1. PICK after \in {"sent", Host!AfterRound(1)} :
          /\ Host!Goto(1, "put", after)
          /\ hostPuts' = hostPuts \cup {[src |-> 1, round |-> hostRecv[1], on |-> "message"]}
          /\ hostRound' = IF after # "sent" THEN [hostRound EXCEPT ![1] = @ + 1] ELSE hostRound
    BY <1>4 DEF Host!SendLeg, Host!AfterSend, Host!EndsRound
  <2>2. hostPC[1] = "put" /\ hostPC'[1] = after /\ hostPC'[0] = hostPC[0]
    BY <1>0, <2>1, GotoMoves
  <2>3. HostFlying(1)'
    <3> DEFINE pong == [src |-> 1, round |-> hostRecv[1], on |-> "message"]
    <3>1. pong \in hostPuts' /\ pong.src = 1
      BY <2>1
    <3> QED
      BY <3>1, Zenon DEF HostFlying
  <2>4. hostRound'[0] = hostRound[0] /\ hostRound'[1] = IF after # "sent" THEN hostRound[1] + 1 ELSE hostRound[1]
    BY <1>0, <2>1 DEF Host!TypeOK
  <2> QED
    BY <1>0, <2>1, <2>2, <2>3, <2>4
<1>5. ASSUME Host!EndSend(0)
      PROVE  Moves0("sent", "recv", 0) /\ UNCHANGED hostPuts
  BY <1>0, <1>5, GotoMoves DEF Host!EndSend, Host!AfterSend
<1>6. ASSUME Host!EndSend(1)
      PROVE  Moves1("sent", Host!AfterRound(1), 1) /\ UNCHANGED hostPuts
  <2>1. /\ hostPC[1] = "sent" /\ hostPC'[1] = Host!AfterRound(1) /\ hostPC'[0] = hostPC[0]
        /\ UNCHANGED hostPuts /\ hostRound' = [hostRound EXCEPT ![1] = @ + 1]
    BY <1>0, <1>6, GotoMoves DEF Host!EndSend, Host!AfterSend
  <2> QED
    BY <1>0, <2>1 DEF Host!TypeOK
<1>7. ASSUME Host!RecvLeg(0)
      PROVE  Moves0("recv", Host!AfterRound(0), 1) /\ HostPings = HostPongs
  <2>1. PICK m \in hostPuts : /\ m.src = 1 /\ Host!Goto(0, "recv", Host!AfterRound(0))
                              /\ hostRound' = [hostRound EXCEPT ![0] = @ + 1]
    <3>1. 1 - 0 = 1
      OBVIOUS
    <3> QED
      BY <1>7, <3>1, Zenon DEF Host!RecvLeg
  <2>2. hostPC[0] = "recv" /\ hostPC'[0] = Host!AfterRound(0) /\ hostPC'[1] = hostPC[1]
    BY <1>0, <2>1, GotoMoves
  <2>3. hostRound'[0] = hostRound[0] + 1 /\ hostRound'[1] = hostRound[1]
    BY <1>0, <2>1 DEF Host!TypeOK
  <2>4. HostPings = HostPongs
    BY <1>0, <2>1, SMT DEF MessagesMeet, PingOnItsWay, PongOnItsWay
  <2> QED
    BY <2>2, <2>3, <2>4
<1>8. ASSUME Host!RecvLeg(1)
      PROVE  Moves1("recv", "put", 0)
  <2>1. Host!Goto(1, "recv", "put") /\ UNCHANGED hostRound
    <3>1. 1 # 0
      OBVIOUS
    <3> QED
      BY <1>8, <3>1, Zenon DEF Host!RecvLeg
  <2> QED
    BY <1>0, <2>1, GotoMoves
<1>9. ASSUME Host!Barrier
      PROVE  MovesBoth /\ UNCHANGED hostPuts
  <2>1. /\ \A p \in Host!PE :
             /\ hostPC[p] \in Host!BarrierPC /\ hostPC'[p] = Host!AfterBarrier(p)
             /\ hostRound'[p] = IF hostPC[p] = "pongBarrier" THEN hostRound[p] + 1 ELSE hostRound[p]
        /\ UNCHANGED hostPuts
    BY <1>9 DEF Host!Barrier
  <2>2. \A p \in Host!PE : hostPC[p] \in {"sizeBarrier", "final"}
    BY <1>0, <2>1 DEF MessagesMeet, Host!BarrierPC
  <2>3. \A p \in Host!PE : Host!AfterBarrier(p) = IF hostPC[p] = "final" THEN "exit" ELSE Host!First(p)
    BY <2>2 DEF Host!AfterBarrier
  <2>4. Host!First(0) = "put" /\ Host!First(1) = "recv"
    BY DEF Host!First
  <2> QED
    BY <1>0, <2>1, <2>2, <2>3, <2>4 DEF MovesBoth
<1>10. ASSUME Host!Check
       PROVE  /\ Moves0("check", IF hostRound[0] < Host!Total THEN "sizeBarrier" ELSE "final", 0)
              /\ UNCHANGED hostPuts
  BY <1>0, <1>10, GotoMoves DEF Host!Check
<1>11. ASSUME NEW m \in hostPuts, Host!Deliver(m)
       PROVE  FALSE
  BY <1>0, <1>11 DEF Host!Deliver
<1> HIDE DEF Moves0, Moves1
<1> QED
  BY <1>0, <1>1, <1>2, <1>3, <1>4, <1>5, <1>6, <1>7, <1>8, <1>9, <1>10, <1>11 DEF Host!Next, Host!PEStep

(* Where a round trip ends with messages: the next begins, or the size is  *)
(* done.                                                                   *)
LEMMA AfterRoundIs ==
  ASSUME transport = "messages"
  PROVE  /\ Host!AfterRound(0) = IF Host!LastOfSize(hostRound[0] + 1) THEN "check" ELSE "put"
         /\ Host!AfterRound(1) = IF ~Host!LastOfSize(hostRound[1] + 1) THEN "recv"
                                 ELSE IF hostRound[1] + 1 < Host!Total THEN "sizeBarrier" ELSE "final"
BY DEF Host!AfterRound, Host!First

LEMMA SizesStep ==
  ASSUME HostInv, transport = "messages", SizesMeet, [Host!Next]_(Host!vars)
  PROVE  SizesMeet'
<1> DEFINE Done(n) == Host!LastOfSize(n)
           all == Host!Total
           r0 == hostRound[0]
           r1 == hostRound[1]
<1> USE DEF BetweenSizes
<1>0. /\ MessagesMeet /\ all \in Nat
      /\ 0 \in Host!PE /\ 1 \in Host!PE /\ 1 - 0 = 1 /\ 1 - 1 = 0 /\ \A p \in Host!PE : p = 0 \/ p = 1
      /\ r0 \in 0 .. all /\ r1 \in 0 .. all
      /\ \A p \in Host!PE : hostPC[p] \notin {"check", "final", "exit"} => hostRound[p] < all
  BY TotalShape, SMT DEF HostInv, Host!TypeOK, Host!PE, Host!Total, RoundsLeft
<1>1. /\ HostPings = r0 + (IF hostPC[0] \in {"sent", "recv"} THEN 1 ELSE 0)
      /\ HostPongs = r1 + (IF hostPC[1] = "sent" THEN 1 ELSE 0)
  BY <1>0 DEF MessagesMeet, HostPings, HostPongs
<1>2. /\ hostPC[0] \in {"sizeBarrier", "put", "sent", "recv", "check", "final", "exit"}
      /\ hostPC[1] \in {"sizeBarrier", "put", "sent", "recv", "final", "exit"}
      /\ HostPings = HostPongs \/ HostPings = HostPongs + 1
      /\ hostPC[0] \notin {"sent", "recv"} => HostPings = HostPongs
      /\ hostPC[1] = "put" => HostPings = HostPongs + 1
  BY <1>0 DEF MessagesMeet
<1>3. /\ BetweenSizes(0) => Done(r0) /\ (BetweenSizes(1) \/ hostPC[1] = "sent")
      /\ BetweenSizes(1) => /\ Done(r1)
                            /\ BetweenSizes(0) \/ (hostPC[0] \in {"sent", "recv"} /\ HostPings = HostPongs)
      /\ ~BetweenSizes(0) /\ ~BetweenSizes(1) /\ r0 = r1 + 1 => ~Done(r0)
      /\ ~BetweenSizes(0) /\ ~BetweenSizes(1) /\ r1 = r0 + 1 => ~Done(r1)
      /\ hostPC[0] \in {"final", "exit"} => r0 = all
      /\ hostPC[1] \in {"final", "exit"} => r1 = all
      /\ hostPC[0] = "exit" <=> hostPC[1] = "exit"
  BY <1>0 DEF SizesMeet
<1>4. /\ Host!AfterRound(0) = IF Done(r0 + 1) THEN "check" ELSE "put"
      /\ Host!AfterRound(1) = IF ~Done(r1 + 1) THEN "recv"
                              ELSE IF r1 + 1 < all THEN "sizeBarrier" ELSE "final"
  BY AfterRoundIs
<1> DEFINE GoalOf(c0, c1, n0, n1) ==
      LET Between0 == c0 \in {"check", "sizeBarrier", "final", "exit"}
          Between1 == c1 \in {"check", "sizeBarrier", "final", "exit"}
      IN  /\ Between0 => Done(n0) /\ (Between1 \/ c1 = "sent")
          /\ Between1 => /\ Done(n1)
                         /\ Between0 \/ (c0 \in {"sent", "recv"} /\ n0 + 1 = n1)
          /\ ~Between0 /\ ~Between1 /\ n0 = n1 + 1 => ~Done(n0)
          /\ ~Between0 /\ ~Between1 /\ n1 = n0 + 1 => ~Done(n1)
          /\ c0 \in {"final", "exit"} => n0 = all
          /\ c1 \in {"final", "exit"} => n1 = all
          /\ c0 = "exit" <=> c1 = "exit"
<1>5. GoalOf(hostPC'[0], hostPC'[1], hostRound'[0], hostRound'[1]) => SizesMeet'
  <2> SUFFICES ASSUME GoalOf(hostPC'[0], hostPC'[1], hostRound'[0], hostRound'[1])
               PROVE  SizesMeet'
    OBVIOUS
  <2>1. /\ BetweenSizes(0)' <=> hostPC'[0] \in {"check", "sizeBarrier", "final", "exit"}
        /\ BetweenSizes(1)' <=> hostPC'[1] \in {"check", "sizeBarrier", "final", "exit"}
    OBVIOUS
  <2>2. hostPC'[0] \in {"sent", "recv"} /\ BetweenSizes(1)' /\ hostRound'[0] + 1 = hostRound'[1]
          => HostPings' = HostPongs'
    <3>1. hostRound'[0] \in Int /\ hostRound'[1] \in Int
      BY HostTypeStep, TotalShape, SMT DEF HostInv, Host!TypeOK, Host!PE, Host!Total
    <3> QED
      BY <3>1, SMT DEF HostPings, HostPongs
  <2> QED
    BY <1>0, <2>1, <2>2 DEF SizesMeet
<1> HIDE DEF Done, all, r0, r1
<1> SUFFICES GoalOf(hostPC'[0], hostPC'[1], hostRound'[0], hostRound'[1])
  BY <1>5
<1>6. CASE UNCHANGED <<hostPC, hostRound, hostPuts>>
  BY <1>0, <1>1, <1>2, <1>3, <1>6 DEF r0, r1
<1>7. ASSUME NEW to \in {"sent", "recv"}, Moves0("put", to, 0)
      PROVE  GoalOf(hostPC'[0], hostPC'[1], hostRound'[0], hostRound'[1])
  BY <1>0, <1>1, <1>2, <1>3, <1>7, SMT DEF Moves0, r0, r1
<1>8. CASE Moves0("sent", "recv", 0)
  BY <1>0, <1>1, <1>2, <1>3, <1>8, SMT DEF Moves0, r0, r1
<1>9. CASE Moves0("recv", Host!AfterRound(0), 1) /\ HostPings = HostPongs
  BY <1>0, <1>1, <1>2, <1>3, <1>4, <1>9, SMT DEF Moves0, r0, r1
<1>10. CASE Moves0("check", IF hostRound[0] < Host!Total THEN "sizeBarrier" ELSE "final", 0)
  BY <1>0, <1>1, <1>2, <1>3, <1>10, SMT DEF Moves0, r0, r1, all
<1>11. CASE Moves1("put", "sent", 0)
  BY <1>0, <1>1, <1>2, <1>3, <1>11, SMT DEF Moves1, r0, r1
<1>12. CASE Moves1("put", Host!AfterRound(1), 1) \/ Moves1("sent", Host!AfterRound(1), 1)
  BY <1>0, <1>1, <1>2, <1>3, <1>4, <1>12, SMT DEF Moves1, r0, r1
<1>13. CASE Moves1("recv", "put", 0)
  BY <1>0, <1>1, <1>2, <1>3, <1>13, SMT DEF Moves1, r0, r1
<1>14. CASE MovesBoth
  BY <1>0, <1>1, <1>2, <1>3, <1>14, SMT DEF MovesBoth, r0, r1
<1> QED
  BY <1>6, <1>7, <1>8, <1>9, <1>10, <1>11, <1>12, <1>13, <1>14, MessageMoves

LEMMA KeptStep ==
  ASSUME HostInv, transport = "messages", SizesMeet, MessagesKept, [Host!Next]_(Host!vars)
  PROVE  MessagesKept'
<1> DEFINE r0 == hostRound[0]
           r1 == hostRound[1]
<1>0. MessagesMeet /\ MessagesMeet' /\ r0 \in Int /\ r1 \in Int
  BY MessagesStep, TotalShape, SMT DEF HostInv, Host!TypeOK, Host!PE, Host!Total
<1>1. /\ HostPings = r0 + (IF hostPC[0] \in {"sent", "recv"} THEN 1 ELSE 0)
      /\ HostPongs = r1 + (IF hostPC[1] = "sent" THEN 1 ELSE 0)
      /\ HostPings' = hostRound'[0] + (IF hostPC'[0] \in {"sent", "recv"} THEN 1 ELSE 0)
      /\ HostPongs' = hostRound'[1] + (IF hostPC'[1] = "sent" THEN 1 ELSE 0)
  BY <1>0 DEF MessagesMeet, HostPings, HostPongs
<1>2. /\ HostPings = HostPongs \/ HostPings = HostPongs + 1
      /\ hostPC[0] \notin {"sent", "recv"} => HostPings = HostPongs
      /\ hostPC[1] = "put" => HostPings = HostPongs + 1
      /\ hostPC'[1] = "put" => HostPings' = HostPongs' + 1
      /\ hostPC'[0] \notin {"sent", "recv"} => HostPings' = HostPongs'
  BY <1>0 DEF MessagesMeet
<1>3. /\ HostPings = HostPongs + 1 => hostPC[1] = "put" \/ HostFlying(0)
      /\ HostPings = HostPongs /\ hostPC[0] \in {"sent", "recv"} => HostFlying(1)
  BY DEF MessagesKept
<1>4. HostPings' # HostPongs' \/ HostPings' # HostPongs' + 1
  BY <1>0, <1>1, SMT
<1> SUFFICES /\ HostPings' = HostPongs' + 1 => hostPC'[1] = "put" \/ HostFlying(0)'
             /\ HostPings' = HostPongs' /\ hostPC'[0] \in {"sent", "recv"} => HostFlying(1)'
  BY DEF MessagesKept
<1>5. UNCHANGED hostPuts => HostFlying(0)' = HostFlying(0) /\ HostFlying(1)' = HostFlying(1)
  BY DEF HostFlying
<1>6. CASE UNCHANGED <<hostPC, hostRound, hostPuts>>
  BY <1>1, <1>3, <1>5, <1>6
<1>7. ASSUME NEW to \in {"sent", "recv"}, Moves0("put", to, 0), HostFlying(0)'
      PROVE  HostPings' = HostPongs' + 1
  BY <1>0, <1>1, <1>2, <1>7, SMT DEF Moves0
<1>8. CASE Moves0("sent", "recv", 0) /\ UNCHANGED hostPuts
  BY <1>0, <1>1, <1>2, <1>3, <1>5, <1>8, SMT DEF Moves0
<1>9. CASE Moves0("recv", Host!AfterRound(0), 1) /\ HostPings = HostPongs
  <2>1. hostPC'[0] \notin {"sent", "recv"}
    BY <1>9, AfterRoundIs DEF Moves0
  <2> QED
    BY <1>2, <1>4, <2>1
<1>10. CASE Moves0("check", IF hostRound[0] < Host!Total THEN "sizeBarrier" ELSE "final", 0)
  BY <1>2, <1>4, <1>10 DEF Moves0
<1>11. CASE (Moves1("put", "sent", 0) \/ Moves1("put", Host!AfterRound(1), 1)) /\ HostFlying(1)'
  <2>1. Host!AfterRound(1) # "sent"
    BY AfterRoundIs
  <2>2. HostPings' = HostPongs'
    BY <1>0, <1>1, <1>2, <1>11, <2>1, SMT DEF Moves1
  <2> QED
    BY <1>4, <1>11, <2>2
<1>12. CASE Moves1("sent", Host!AfterRound(1), 1) /\ UNCHANGED hostPuts
  <2>1. Host!AfterRound(1) # "sent"
    BY AfterRoundIs
  <2> QED
    BY <1>0, <1>1, <1>2, <1>3, <1>5, <1>12, <2>1, SMT DEF Moves1
<1>13. CASE Moves1("recv", "put", 0)
  BY <1>2, <1>4, <1>13 DEF Moves1
<1>14. CASE MovesBoth /\ UNCHANGED hostPuts
  BY <1>2, <1>4, <1>14 DEF MovesBoth
<1> QED
  BY <1>4, <1>6, <1>7, <1>8, <1>9, <1>10, <1>11, <1>12, <1>13, <1>14, MessageMoves

(* The sends, receives and barriers meet: what waits can go on, or what it *)
(* waits for can.                                                          *)
LEMMA HostsGoOn ==
  ASSUME HostInv, transport = "messages" => SizesMeet /\ MessagesKept
  PROVE  NoHostStuck
<1> SUFFICES ASSUME ~HostsCanGoOn, \E p \in Host!PE : hostPC[p] # "exit"
             PROVE  FALSE
  BY DEF NoHostStuck
<1>0. /\ Host!TypeOK /\ 0 \in Host!PE /\ 1 \in Host!PE /\ \A p \in Host!PE : p = 0 \/ p = 1
      /\ hostRound[0] \in Int /\ hostRound[1] \in Int
  BY TotalShape, SMT DEF HostInv, Host!TypeOK, Host!PE, Host!Total
<1>1. /\ ~HostCanGoOn(0) /\ ~HostCanGoOn(1) /\ hostPC[0] # "check"
      /\ \A m \in hostPuts : m.on = "message"
      /\ hostPC[0] \notin Host!BarrierPC \/ hostPC[1] \notin Host!BarrierPC
  BY <1>0 DEF HostsCanGoOn
<1>2. CASE transport = "puts"
  <2>1. BarriersMeet /\ PutsComplete
    BY <1>2 DEF HostInv
  <2>2. hostPuts = {}
    BY <1>1, <2>1 DEF PutsComplete
  <2>3. hostPC[0] \notin HostMoving /\ hostPC[1] \notin HostMoving
    BY <1>1, <2>2 DEF HostCanGoOn, HostMoving
  <2> QED
    BY <1>0, <1>1, <2>1, <2>3 DEF BarriersMeet, Host!BarrierPC
<1>3. CASE transport = "messages"
  <2>1. MessagesMeet /\ SizesMeet /\ MessagesKept
    BY <1>3 DEF HostInv
  <2>2. /\ hostPC[0] = "sent" => HostFlying(0)
        /\ hostPC[1] = "sent" => HostFlying(1)
        /\ hostPC[0] = "recv" => ~HostFlying(1)
        /\ hostPC[1] = "recv" => ~HostFlying(0)
        /\ hostPC[0] # "put" /\ hostPC[1] # "put"
    <3>1. 1 - 0 = 1 /\ 1 - 1 = 0
      OBVIOUS
    <3> QED
      BY <1>1, <3>1, Zenon DEF HostCanGoOn, HostFlying
  <2>3. /\ HostFlying(0) => HostPings = HostPongs + 1
        /\ HostFlying(1) => HostPings = HostPongs /\ hostPC[0] \in {"sent", "recv"}
    BY <2>1, SMT DEF MessagesMeet, PingOnItsWay, PongOnItsWay, HostFlying
  <2>4. HostPings # HostPongs + 1 \/ HostPings # HostPongs
    BY <1>0, SMT DEF HostPings, HostPongs
  <2>5. hostPC[0] \notin {"sent", "recv"}
    BY <2>1, <2>2, <2>3, <2>4 DEF MessagesMeet, MessagesKept, SizesMeet, BetweenSizes
  <2>6. hostPC[1] \notin {"sent", "recv"}
    BY <1>1, <2>1, <2>2, <2>3, <2>5 DEF MessagesMeet, SizesMeet, BetweenSizes
  <2>7. /\ hostPC[0] \in {"sizeBarrier", "final", "exit"}
        /\ hostPC[1] \in {"sizeBarrier", "final", "exit"}
    BY <1>1, <2>1, <2>2, <2>5, <2>6 DEF MessagesMeet
  <2> QED
    BY <1>0, <1>1, <2>1, <2>7 DEF SizesMeet, Host!BarrierPC
<1> QED
  BY <1>0, <1>2, <1>3 DEF Host!TypeOK

(* Neither PE is left at a barrier, in a send or in a receive, whether the *)
(* library buffers a message or not: the sends and receives of the two     *)
(* pair up although only the sizes are separated by barriers.              *)
THEOREM NoHostStuckHolds == Host!Spec => []NoHostStuck
<1> DEFINE Inv == HostInv /\ (transport = "messages" => SizesMeet /\ MessagesKept)
<1>1. Host!Init => Inv
  <2> SUFFICES ASSUME Host!Init
               PROVE  SizesMeet /\ MessagesKept
    BY HostInit
  <2>1. /\ hostPC[0] = "sizeBarrier" /\ hostPC[1] = "sizeBarrier"
        /\ hostRound[0] = 0 /\ hostRound[1] = 0 /\ \A p \in Host!PE : p = 0 \/ p = 1
    BY DEF Host!Init, Host!PE
  <2>2. Host!LastOfSize(0)
    <3>1. Host!Rounds \in Nat \ {0}
      BY CountsAssumption, SMT DEF Host!Rounds
    <3> QED
      BY <3>1, SMT DEF Host!LastOfSize
  <2>3. HostPings = 0 /\ HostPongs = 0
    BY <2>1, SMT DEF HostPings, HostPongs
  <2> QED
    BY <2>1, <2>2, <2>3, SMT DEF SizesMeet, MessagesKept, BetweenSizes
<1>2. Inv /\ [Host!Next]_(Host!vars) => Inv'
  <2> SUFFICES ASSUME Inv, [Host!Next]_(Host!vars)
               PROVE  Inv'
    OBVIOUS
  <2>1. HostInv'
    BY HostInvStep
  <2>2. CASE transport = "puts"
    BY <2>1, <2>2, PutsStep
  <2>3. CASE transport = "messages"
    BY <2>1, <2>3, SizesStep, KeptStep
  <2> QED
    BY <2>2, <2>3 DEF HostInv, Host!TypeOK
<1>3. Inv => NoHostStuck
  BY HostsGoOn
<1> HIDE DEF Inv
<1> QED
  BY <1>1, <1>2, <1>3, PTL DEF Host!Spec

-----------------------------------------------------------------------------
(* The six programs together.                                              *)

LEMMA BothPrograms == MCSpec => Spec /\ Host!Spec
<1>1. MCInit => Init /\ Host!Init
  BY DEF MCInit
<1>2. [MCNext]_allVars => [Next]_vars /\ [Host!Next]_(Host!vars)
  BY DEF MCNext, allVars, hostDriven, Host!vars
<1> QED
  BY <1>1, <1>2, PTL DEF MCSpec, Spec, Host!Spec

(* Whoever has passed the wait, barrier or receive of a leg holds the data *)
(* of that very round trip, in the signal-driven and the host-driven       *)
(* programs.                                                               *)
THEOREM LegsArriveHolds == MCSpec => []LegsArrive
<1>1. SignalInv /\ HostInv => LegsArrive
  BY RoundTripThen, HostRoundTripThen DEF LegsArrive
<1> QED
  BY <1>1, BothPrograms, SignalInductive, HostInductive, PTL

(* Signals that set the flag never take it back, though nothing orders     *)
(* them.                                                                   *)
THEOREM FlagGrowsInEveryProgram == MCSpec => FlagGrows
BY BothPrograms, FlagGrowsHolds, PTL

(* The initiator and its peer take turns, whatever hands the turn over.    *)
THEOREM PEsTakeTurnsHolds == MCSpec => PEsTakeTurns
BY BothPrograms, ImplementsTurnsHolds, HostImplementsTurns, PTL DEF PEsTakeTurns

(* The guards of the program that moves, and of the one that does not.     *)
NobodyStuck == NoKernelStuck /\ NoHostStuck

(* No ping-pong comes to a standstill before both its programs have ended, *)
(* whatever hands the turn over: no signal wait, grid synchronisation,     *)
(* barrier, send or receive waits for what will never come, for any number *)
(* of blocks, sizes and round trips.                                       *)
THEOREM NobodyStuckHolds == MCSpec => []NobodyStuck
BY BothPrograms, NoKernelStuckHolds, NoHostStuckHolds, PTL DEF NobodyStuck

=============================================================================
