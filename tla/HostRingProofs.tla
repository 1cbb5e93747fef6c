--------------------------- MODULE HostRingProofs ---------------------------
(***************************************************************************)
(* That the host-driven ring exchanges - MPI's persistent requests, the    *)
(* groups of NCCL and oneCCL, the puts of OSHMPI - deliver to every halo   *)
(* the boundary that faces it, of the round just completed, keep their     *)
(* batches apart and implement the abstract ring, for every number of      *)
(* ranks and every loop of batches.                                        *)
(***************************************************************************)
EXTENDS HostRing, WellFoundedInduction, TLAPS

(* Going to a neighbour and back ends where it started, so every halo has  *)
(* exactly one writer.                                                     *)
LEMMA RingNeighbours ==
  ASSUME NEW p \in PE, NEW s \in Side
  PROVE  /\ Neighbour(p, s) \in PE
         /\ Opp(s) \in Side
         /\ Opp(Opp(s)) = s
         /\ Neighbour(Neighbour(p, s), Opp(s)) = p
<1>1. \A q \in PE :
        /\ Neighbour(q, "right") = (IF q = N - 1 THEN 0 ELSE q + 1)
        /\ Neighbour(q, "left") = (IF q = 0 THEN N - 1 ELSE q - 1)
  <2>1. \A q \in PE : /\ (q + 1) % N = (IF q = N - 1 THEN 0 ELSE q + 1)
                      /\ (q - 1 + N) % N = (IF q = 0 THEN N - 1 ELSE q - 1)
    BY RingSize DEF PE
  <2>2. QED
    BY <2>1 DEF Neighbour
<1>2. CASE s = "left"
  <2>1. Opp(s) = "right" /\ Opp(Opp(s)) = "left"
    BY <1>2 DEF Opp
  <2>2. QED
    BY <1>1, <1>2, <2>1, RingSize DEF PE, Side
<1>3. CASE s = "right"
  <2>1. Opp(s) = "left" /\ Opp(Opp(s)) = "right"
    BY <1>3 DEF Opp
  <2>2. QED
    BY <1>1, <1>3, <2>1, RingSize DEF PE, Side
<1>4. QED
  BY <1>2, <1>3 DEF Side

(* Every batch runs at least one exchange.                                 *)
LEMMA BatchShape ==
  ASSUME NEW c \in Nat \ {0}
  PROVE  /\ Samples(c) \in Nat \ {0}
         /\ \A b \in Nat : Count(c, b) \in Nat \ {0}
<1>1. CaseIters(c) \in Nat \ {0}
  <2>1. CASE Iterations = 1
    <3>1. BatchCounts = <<1>> /\ (c - 1) % 1 = 0
      BY <2>1, SMT DEF BatchCounts
    <3> QED
      BY <3>1 DEF CaseIters
  <2>2. CASE Iterations # 1
    <3>1. BatchCounts = <<1, Iterations>> /\ (c - 1) % 2 \in {0, 1}
      BY <2>2, SMT DEF BatchCounts
    <3> QED
      BY <3>1, BatchAssumption DEF CaseIters
  <2> QED
    BY <2>1, <2>2
<1> QED
  BY <1>1, BatchAssumption DEF Samples, Count

LEMMA CasesType == Cases \in Nat
<1>1. Len(BatchCounts) \in Nat /\ Sizes \in Nat
  BY BatchAssumption, SMT DEF BatchCounts
<1> QED
  BY <1>1, SMT DEF Cases

-----------------------------------------------------------------------------
(* The inductive invariant.                                                *)

InBatch(p) == host[p] \in {"body", "wait", "arrived"}

(* The batches of its case p has been released into, and the round at      *)
(* which the one it was last released into ends.                           *)
Begun(p) == IF host[p] \in {"before", "aligned"} THEN batch[p] ELSE batch[p] + 1

EndRound(p) ==
  IF ~InBatch(p) THEN round[p]
  ELSE IF transport = "put" THEN round[p] + 1
  ELSE round[p] + (BatchLen(p) - it[p])

Types ==
  /\ transport \in {"mpi", "group", "put"}
  /\ host \in [PE -> HostPC]
  /\ bench \in [PE -> 1 .. Cases]
  /\ {batch, issued, it, round} \subseteq [PE -> Nat]
  /\ {ok, all_ok} \subseteq [PE -> BOOLEAN]
  /\ sendReq \in [PE -> [Side -> ReqState]]
  /\ recvReq \in [PE -> [Side -> ReqState \ {"sent"}]]
  /\ chan \in [PE -> [PE -> [{0, 1} -> Seq(Boundary)]]]
  /\ puts \subseteq Put
  /\ recv \in [PE -> [Side -> Boundary]]

(* The barriers keep all ranks in the same batch of the same case.         *)
SameBatch ==
  \A p, q \in PE : bench[p] = bench[q] /\ Begun(p) = Begun(q) /\ EndRound(p) = EndRound(q)

(* What of its batch a rank has issued and seen end at each stage.         *)
Stage(p) ==
  /\ batch[p] <= Samples(bench[p])
  /\ it[p] <= issued[p] /\ issued[p] <= BatchLen(p)
  /\ ~InBatch(p) => issued[p] = 0
  /\ host[p] = "body" => issued[p] < BatchLen(p)
  /\ host[p] = "wait" => issued[p] > 0
  /\ host[p] = "arrived" => transport = "put"
  /\ transport = "put" => it[p] = 0

Stages == \A p \in PE : Stage(p)

Posted(p, s) == sendReq[p][s] \in {"sent", "complete"}

(* Both calls to one peer, in a ring of two, go through one queue.         *)
Shared == transport = "group" /\ N = 2

Requests ==
  \A p \in PE :
    /\ \A s \in Side : /\ sendReq[p][s] = "inactive" <=> sendReq[p]["left"] = "inactive"
                       /\ recvReq[p][s] = "inactive" <=> recvReq[p]["left"] = "inactive"
                       /\ transport = "put" \/ it[p] = issued[p] =>
                            sendReq[p][s] = "inactive" /\ recvReq[p][s] = "inactive"
    /\ Shared => /\ Posted(p, "left") => Posted(p, "right")
                 /\ recvReq[p]["right"] = "complete" => recvReq[p]["left"] = "complete"

(* Messages of p towards side s that have been sent, and those that have   *)
(* been received in its halo at side s, since the start.                   *)
Sent(p, s) == round[p] + (IF Posted(p, s) THEN 1 ELSE 0)
Received(p, s) == round[p] + (IF recvReq[p][s] = "complete" THEN 1 ELSE 0)

(* The same of the queue a message goes through, and its n-th message.     *)
SentNo(p, s) == IF Shared THEN Sent(p, "right") + Sent(p, "left") ELSE Sent(p, s)
RecvNo(p, s) == IF Shared THEN Received(p, "left") + Received(p, "right") ELSE Received(p, s)
MsgNo(p, s, n) ==
  IF ~Shared THEN [src |-> p, end |-> s, round |-> n]
  ELSE IF n % 2 = 1 THEN [src |-> p, end |-> "right", round |-> (n + 1) \div 2]
  ELSE [src |-> p, end |-> "left", round |-> n \div 2]

Queue(p, s) == chan[p][Neighbour(p, s)][Tag(s)]

(* A queue holds what has been sent and not received, in order.            *)
QueueHolds(p, s) ==
  LET got == RecvNo(Neighbour(p, s), Opp(s))
  IN  /\ Len(Queue(p, s)) = SentNo(p, s) - got
      /\ \A i \in 1 .. Len(Queue(p, s)) : Queue(p, s)[i] = MsgNo(p, s, got + i)

Queues ==
  /\ transport # "put" => puts = {} /\ \A p \in PE, s \in Side : QueueHolds(p, s)
  /\ \A p, q \in PE, t \in {0, 1} :
       transport = "put" \/ (\A s \in Side : q # Neighbour(p, s) \/ t # Tag(s)) =>
         chan[p][q][t] = <<>>

(* What is in the halos: the boundary received for the exchange under way, *)
(* or that of the last one.                                                *)
Halos ==
  transport # "put" =>
    \A p \in PE, s \in Side :
      IF recvReq[p][s] = "complete" THEN recv[p][s] = Expected(p, s, round[p] + 1)
      ELSE it[p] > 0 \/ host[p] = "after" => recv[p][s] = Expected(p, s, round[p])

Putting(p) == host[p] \in {"body", "wait"}

(* The puts of a batch all carry the same boundary, and nobody leaves the  *)
(* batch before they have landed.                                          *)
PutsLanded ==
  transport = "put" =>
    /\ \A m \in puts : Putting(m.of.src) /\ m.of.round = round[m.of.src] + 1
    /\ \A p, q \in PE : Putting(p) => InBatch(q)
    /\ \A p \in PE, s \in Side :
         LET q == Neighbour(p, s)
         IN  /\ Putting(q) /\ issued[q] > 0 =>
                  \/ recv[p][s] = Expected(p, s, round[p] + 1)
                  \/ \E m \in puts : m.of.src = q /\ m.of.end = Opp(s)
             /\ InBatch(p) /\ ~Putting(q) => recv[p][s] = Expected(p, s, round[p] + 1)
             /\ host[p] = "after" => recv[p][s] = Expected(p, s, round[p])

IInv == Types /\ SameBatch /\ Stages /\ Requests /\ Queues /\ Halos /\ PutsLanded

-----------------------------------------------------------------------------
(* Types.                                                                  *)

LEMMA Shape ==
  ASSUME Types, NEW p \in PE
  PROVE  /\ Samples(bench[p]) \in Nat \ {0}
         /\ BatchLen(p) \in Nat \ {0}
         /\ \A s \in Side : Mine(p, s) \in Boundary
         /\ {batch[p], issued[p], it[p], round[p]} \subseteq Nat
         /\ bench[p] \in 1 .. Cases
<1>1. bench[p] \in 1 .. Cases /\ {batch[p], issued[p], it[p], round[p]} \subseteq Nat
  BY DEF Types
<1>2. bench[p] \in Nat \ {0}
  BY <1>1, CasesType, SMT
<1>3. \A s \in Side : Mine(p, s) \in Boundary
  <2>1. round[p] + 1 \in Nat
    BY <1>1, SMT
  <2> QED
    BY <2>1 DEF Mine, Boundary
<1> QED
  BY <1>1, <1>2, <1>3, BatchShape DEF BatchLen

LEMMA ChannelTypes ==
  ASSUME Types, NEW p \in PE, NEW q \in PE, NEW t \in {0, 1}
  PROVE  /\ chan[p] \in [PE -> [{0, 1} -> Seq(Boundary)]]
         /\ chan[p][q] \in [{0, 1} -> Seq(Boundary)]
         /\ chan[p][q][t] \in Seq(Boundary)
<1>1. chan \in [PE -> [PE -> [{0, 1} -> Seq(Boundary)]]]
  BY DEF Types
<1>2. chan[p] \in [PE -> [{0, 1} -> Seq(Boundary)]]
  BY <1>1
<1>3. chan[p][q] \in [{0, 1} -> Seq(Boundary)]
  BY <1>2
<1> QED
  BY <1>2, <1>3

LEMMA PoisonType == Poison \in Boundary
BY RingSize, SMT DEF Poison, Boundary, PE, Side

LEMMA TransportKept ==
  ASSUME [Next]_vars
  PROVE  transport' = transport
<1> USE DEF loopVars
<1>1. ASSUME NEW p \in PE, RankStep(p)
      PROVE  transport' = transport
  <2>1. CASE Issue(p) \/ Quiet(p) \/ PoisonHalos(p)
    BY <2>1 DEF Issue, Quiet, PoisonHalos
  <2>2. CASE Wait(p) \/ LeaveBatch(p) \/ Validate(p)
    BY <2>2 DEF Wait, LeaveBatch, Validate
  <2> QED
    BY <1>1, <2>1, <2>2 DEF RankStep
<1>2. ASSUME NEW p \in PE, Begin(p) \/ EndExchange(p)
      PROVE  transport' = transport
  BY <1>2 DEF Begin, EndExchange
<1>3. ASSUME NEW p \in PE, NEW s \in Side, Inject(p, s) \/ Match(p, s)
      PROVE  transport' = transport
  BY <1>3 DEF Inject, Match
<1>4. ASSUME NEW m \in puts, Deliver(m)
      PROVE  transport' = transport
  BY <1>4 DEF Deliver
<1>5. CASE Barrier \/ Verdict
  BY <1>5 DEF Barrier, Verdict
<1>6. CASE UNCHANGED vars
  BY <1>6 DEF vars
<1> QED
  BY <1>1, <1>2, <1>3, <1>4, <1>5, <1>6 DEF Next, Progress

(* A batch of puts starts no requests.                                     *)
LEMMA PutsOnly ==
  ASSUME Requests, transport = "put", NEW p \in PE
  PROVE  /\ ~Wait(p) /\ ~Begin(p) /\ ~EndExchange(p)
         /\ \A s \in Side : ~Inject(p, s) /\ ~Match(p, s)
<1>1. \A s \in Side : sendReq[p][s] = "inactive" /\ recvReq[p][s] = "inactive"
  BY DEF Requests
<1>2. ~Wait(p) /\ ~Begin(p)
  BY DEF Wait, Begin
<1>3. ~EndExchange(p)
  BY <1>1 DEF EndExchange, Side
<1>4. \A s \in Side : ~Inject(p, s)
  BY <1>1 DEF Inject
<1>5. \A s \in Side : ~Match(p, s)
  BY <1>1 DEF Match
<1> QED
  BY <1>2, <1>3, <1>4, <1>5

LEMMA TypesInit == Init => Types
<1>1. Cases \in Nat \ {0}
  <2>1. Len(BatchCounts) \in Nat \ {0} /\ Sizes \in Nat \ {0}
    BY BatchAssumption, SMT DEF BatchCounts
  <2> QED
    BY <2>1, SMT DEF Cases
<1>2. 1 \in 1 .. Cases
  BY <1>1, SMT
<1>3. <<>> \in Seq(Boundary)
  OBVIOUS
<1> QED
  BY <1>2, <1>3, PoisonType DEF Init, LoopStart, WireIdle, Types, HostPC, ReqState

LEMMA TypesStep == Types /\ [Next]_vars => Types'
<1> SUFFICES ASSUME Types, [Next]_vars
             PROVE  Types'
  OBVIOUS
<1> USE DEF HostPC, loopVars, okVars, countVars, wireVars
<1>0. \A p \in PE : round[p] + 1 \in Nat /\ it[p] + 1 \in Nat /\ issued[p] + 1 \in Nat /\ batch[p] + 1 \in Nat
  BY Shape, SMT
<1>1. ASSUME NEW p \in PE, Issue(p)
      PROVE  Types'
  <2>1. issued' \in [PE -> Nat] /\ host' \in [PE -> HostPC]
    BY <1>0, <1>1 DEF Issue, Types
  <2>2. puts' \subseteq Put
    <3>1. \A s \in Side : [of |-> Mine(p, s), nth |-> issued[p] + 1] \in Put
      BY <1>0, Shape DEF Put
    <3> QED
      BY <1>1, <3>1 DEF Issue, Types
  <2> QED
    BY <1>1, <2>1, <2>2 DEF Issue, Types
<1>2. ASSUME NEW p \in PE, Begin(p)
      PROVE  Types'
  BY <1>2 DEF Begin, Types, ReqState
<1>3. ASSUME NEW p \in PE, NEW s \in Side, Inject(p, s)
      PROVE  Types'
  <2>1. PICK done \in {"sent", "complete"} : sendReq' = [sendReq EXCEPT ![p][s] = done]
    BY <1>3 DEF Inject
  <2>2. sendReq' \in [PE -> [Side -> ReqState]]
    BY <2>1 DEF Types, ReqState
  <2>3. chan' \in [PE -> [PE -> [{0, 1} -> Seq(Boundary)]]]
    <3> DEFINE q == Neighbour(p, s)
               t == Tag(s)
               sent == Append(chan[p][q][t], Mine(p, s))
    <3>1. q \in PE /\ t \in {0, 1}
      BY RingNeighbours DEF Tag
    <3>4. chan' = [chan EXCEPT ![p] = [chan[p] EXCEPT ![q] = [chan[p][q] EXCEPT ![t] = sent]]]
      BY <1>3 DEF Inject
    <3> HIDE DEF q, t
    <3>2. chan[p] \in [PE -> [{0, 1} -> Seq(Boundary)]] /\ chan[p][q] \in [{0, 1} -> Seq(Boundary)]
          /\ chan[p][q][t] \in Seq(Boundary)
      BY <3>1, ChannelTypes
    <3>3. sent \in Seq(Boundary)
      BY <3>2, Shape
    <3> HIDE DEF sent
    <3>5. [chan[p][q] EXCEPT ![t] = sent] \in [{0, 1} -> Seq(Boundary)]
      BY <3>1, <3>2, <3>3
    <3>6. [chan[p] EXCEPT ![q] = [chan[p][q] EXCEPT ![t] = sent]] \in [PE -> [{0, 1} -> Seq(Boundary)]]
      BY <3>1, <3>2, <3>5
    <3>7. chan \in [PE -> [PE -> [{0, 1} -> Seq(Boundary)]]]
      BY DEF Types
    <3> QED
      BY <3>4, <3>6, <3>7
  <2> QED
    BY <1>3, <2>2, <2>3 DEF Inject, Types
<1>4. ASSUME NEW p \in PE, NEW s \in Side, Match(p, s)
      PROVE  Types'
  <2> DEFINE q == Neighbour(p, s)
             t == Tag(Opp(s))
             m == Head(chan[q][p][t])
  <2>1. q \in PE /\ t \in {0, 1}
    BY RingNeighbours DEF Tag
  <2>2. chan[q] \in [PE -> [{0, 1} -> Seq(Boundary)]] /\ chan[q][p] \in [{0, 1} -> Seq(Boundary)]
        /\ chan[q][p][t] \in Seq(Boundary)
    <3> HIDE DEF q, t
    <3> QED
      BY <2>1, ChannelTypes
  <2>3. chan[q][p][t] # <<>>
    BY <1>4 DEF Match
  <2>4. Tail(chan[q][p][t]) \in Seq(Boundary) /\ m \in Boundary
    BY <2>2, <2>3
  <2>5. recv' \in [PE -> [Side -> Boundary]]
    <3>1. recv' = [recv EXCEPT ![p] = [recv[p] EXCEPT ![s] = m]]
      BY <1>4 DEF Match
    <3> HIDE DEF m
    <3> QED
      BY <2>4, <3>1 DEF Types
  <2>6. sendReq' \in [PE -> [Side -> ReqState]]
    <3> DEFINE req == IF m.round = round[q] + 1 THEN "complete" ELSE sendReq[q][m.end]
    <3>1. sendReq' = [sendReq EXCEPT ![q] = [sendReq[q] EXCEPT ![m.end] = req]]
      BY <1>4 DEF Match
    <3>2. m.end \in Side
      BY <2>4 DEF Boundary
    <3> HIDE DEF m, q
    <3>3. req \in ReqState
      <4>1. sendReq \in [PE -> [Side -> ReqState]]
        BY DEF Types
      <4>2. sendReq[q][m.end] \in ReqState
        BY <2>1, <3>2, <4>1
      <4> QED
        BY <4>2 DEF ReqState
    <3> HIDE DEF req
    <3> QED
      BY <2>1, <3>1, <3>2, <3>3 DEF Types
  <2>7. recvReq' \in [PE -> [Side -> ReqState \ {"sent"}]]
    <3>1. recvReq' = [recvReq EXCEPT ![p][s] = "complete"]
      BY <1>4 DEF Match
    <3> QED
      BY <3>1 DEF Types, ReqState
  <2>8. chan' \in [PE -> [PE -> [{0, 1} -> Seq(Boundary)]]]
    <3> DEFINE rest == Tail(chan[q][p][t])
    <3>1. chan' = [chan EXCEPT ![q] = [chan[q] EXCEPT ![p] = [chan[q][p] EXCEPT ![t] = rest]]]
      BY <1>4 DEF Match
    <3>2. rest \in Seq(Boundary)
      BY <2>4
    <3> HIDE DEF q, t, rest
    <3>3. [chan[q][p] EXCEPT ![t] = rest] \in [{0, 1} -> Seq(Boundary)]
      BY <2>1, <2>2, <3>2
    <3>4. [chan[q] EXCEPT ![p] = [chan[q][p] EXCEPT ![t] = rest]] \in [PE -> [{0, 1} -> Seq(Boundary)]]
      BY <2>1, <2>2, <3>3
    <3> QED
      BY <2>1, <3>1, <3>4 DEF Types
  <2>9. UNCHANGED <<host, loopVars, okVars, countVars, puts>>
    BY <1>4 DEF Match
  <2> HIDE DEF q, t, m
  <2> QED
    BY <2>5, <2>6, <2>7, <2>8, <2>9 DEF Types
<1>5. ASSUME NEW p \in PE, EndExchange(p)
      PROVE  Types'
  <2>1. it' \in [PE -> Nat] /\ round' \in [PE -> Nat]
    BY <1>0, <1>5 DEF EndExchange, Types
  <2>2. sendReq' \in [PE -> [Side -> ReqState]]
    BY <1>5 DEF EndExchange, Types, ReqState
  <2>3. recvReq' \in [PE -> [Side -> ReqState \ {"sent"}]]
    BY <1>5 DEF EndExchange, Types, ReqState
  <2>4. UNCHANGED <<host, loopVars, okVars, issued, chan, puts, recv>>
    BY <1>5 DEF EndExchange
  <2> QED
    BY <2>1, <2>2, <2>3, <2>4 DEF Types
<1>6. ASSUME NEW m \in puts, Deliver(m)
      PROVE  Types'
  <2>1. m.of \in Boundary /\ m.of.src \in PE /\ m.of.end \in Side
    BY DEF Types, Put, Boundary
  <2>2. Neighbour(m.of.src, m.of.end) \in PE /\ Opp(m.of.end) \in Side
    BY <2>1, RingNeighbours
  <2>3. recv' = [recv EXCEPT ![Neighbour(m.of.src, m.of.end)] =
                   [recv[Neighbour(m.of.src, m.of.end)] EXCEPT ![Opp(m.of.end)] = m.of]]
    BY <1>6 DEF Deliver
  <2>4. recv' \in [PE -> [Side -> Boundary]]
    BY <2>1, <2>2, <2>3 DEF Types
  <2> QED
    BY <1>6, <2>4 DEF Deliver, Types
<1>7. ASSUME NEW p \in PE, Wait(p) \/ LeaveBatch(p)
      PROVE  Types'
  <2>1. EndBatch(p) => /\ {batch', issued', it'} \subseteq [PE -> Nat]
                       /\ host' \in [PE -> HostPC]
    <3>1. batch \in [PE -> Nat] /\ issued \in [PE -> Nat] /\ it \in [PE -> Nat] /\ host \in [PE -> HostPC]
      BY DEF Types
    <3>2. SUFFICES ASSUME EndBatch(p)
                   PROVE  /\ {batch', issued', it'} \subseteq [PE -> Nat]
                          /\ host' \in [PE -> HostPC]
      OBVIOUS
    <3>3. batch' \in [PE -> Nat]
      BY <3>1, <3>2 DEF EndBatch
    <3>4. issued' \in [PE -> Nat] /\ it' \in [PE -> Nat]
      BY <3>1, <3>2 DEF EndBatch
    <3>5. host' \in [PE -> HostPC]
      BY <3>1, <3>2 DEF EndBatch
    <3> QED
      BY <3>3, <3>4, <3>5
  <2>2. \/ EndBatch(p)
        \/ host' = [host EXCEPT ![p] = "body"] /\ UNCHANGED <<batch, issued, it>>
    BY <1>7 DEF Wait, LeaveBatch
  <2>3. /\ {batch', issued', it'} \subseteq [PE -> Nat]
        /\ host' \in [PE -> HostPC]
    <3>1. CASE EndBatch(p)
      BY <2>1, <3>1
    <3>2. CASE host' = [host EXCEPT ![p] = "body"] /\ UNCHANGED <<batch, issued, it>>
      <4>1. {batch, issued, it} \subseteq [PE -> Nat] /\ host \in [PE -> HostPC]
        BY DEF Types
      <4> QED
        BY <3>2, <4>1
    <3> QED
      BY <2>2, <3>1, <3>2
  <2>4. round' \in [PE -> Nat]
    <3>1. round \in [PE -> Nat]
      BY DEF Types
    <3>2. round' = round \/ round' = [round EXCEPT ![p] = @ + 1]
      BY <1>7 DEF Wait, LeaveBatch
    <3> QED
      BY <1>0, <3>1, <3>2
  <2>5. UNCHANGED <<transport, bench, okVars, wireVars, recv>>
    BY <1>7 DEF Wait, LeaveBatch
  <2> QED
    BY <2>3, <2>4, <2>5 DEF Types
<1>8. ASSUME NEW p \in PE, Quiet(p)
      PROVE  Types'
  BY <1>8 DEF Quiet, Types
<1>9. ASSUME NEW p \in PE, PoisonHalos(p)
      PROVE  Types'
  BY <1>9, PoisonType DEF PoisonHalos, Types
<1>10. CASE Barrier
  BY <1>10 DEF Barrier, Types
<1>11. ASSUME NEW p \in PE, Validate(p)
       PROVE  Types'
  <2>1. /\ batch' \in [PE -> Nat] /\ host' \in [PE -> HostPC]
    <3>1. \/ /\ host' = [host EXCEPT ![p] = "before"]
             /\ batch' = [batch EXCEPT ![p] = @ + 1]
          \/ host' = [host EXCEPT ![p] = "verdict"] /\ UNCHANGED batch
      BY <1>11 DEF Validate
    <3>2. batch \in [PE -> Nat] /\ host \in [PE -> HostPC]
      BY DEF Types
    <3>3. host' \in [PE -> HostPC]
      BY <3>1, <3>2
    <3>4. batch' \in [PE -> Nat]
      BY <1>0, <3>1, <3>2
    <3> QED
      BY <3>3, <3>4
  <2>2. ok' \in [PE -> BOOLEAN]
    BY <1>11 DEF Validate, Types, HoldsMarkers
  <2> QED
    BY <1>11, <2>1, <2>2 DEF Validate, Types
<1>12. CASE Verdict
  <2>1. \A p \in PE : bench[p] \in 1 .. Cases /\ (bench[p] # Cases => bench[p] + 1 \in 1 .. Cases)
    BY CasesType, SMT DEF Types
  <2>2. bench' \in [PE -> 1 .. Cases]
    BY <1>12, <2>1 DEF Verdict
  <2>3. batch' \in [PE -> Nat] /\ host' \in [PE -> HostPC]
    BY <1>12 DEF Verdict, Types
  <2>4. {ok', all_ok'} \subseteq [PE -> BOOLEAN]
    BY <1>12 DEF Verdict, Types, GlobalOk
  <2>5. UNCHANGED <<transport, countVars, wireVars, recv>>
    BY <1>12 DEF Verdict
  <2> QED
    BY <2>2, <2>3, <2>4, <2>5 DEF Types
<1>13. CASE UNCHANGED vars
  BY <1>13 DEF vars, Types
<1> QED
  BY <1>1, <1>2, <1>3, <1>4, <1>5, <1>6, <1>7, <1>8, <1>9, <1>10, <1>11, <1>12, <1>13
  DEF Next, RankStep, Progress

-----------------------------------------------------------------------------
(* The loop: one rank at a time, but for the collective calls.             *)

loopState == <<transport, host, bench, batch, issued, it, round>>

LEMMA LoopKept ==
  ASSUME SameBatch, Stages, UNCHANGED loopState
  PROVE  SameBatch' /\ Stages'
BY DEF SameBatch, Stages, Stage, Begun, EndRound, InBatch, BatchLen, loopState

(* A rank that goes on by itself ends up in the same batch of the same     *)
(* case.                                                                   *)
LEMMA OneGoesOn ==
  ASSUME SameBatch, Stages, NEW p \in PE,
         transport' = transport,
         \A q \in PE \ {p} : /\ host'[q] = host[q] /\ batch'[q] = batch[q] /\ issued'[q] = issued[q]
                             /\ it'[q] = it[q] /\ round'[q] = round[q],
         bench' = bench, Begun(p)' = Begun(p), EndRound(p)' = EndRound(p), Stage(p)'
  PROVE  SameBatch' /\ Stages'
<1>1. \A q \in PE \ {p} : Begun(q)' = Begun(q) /\ EndRound(q)' = EndRound(q) /\ Stage(q)'
  BY DEF Stages, Stage, Begun, EndRound, InBatch, BatchLen
<1>2. \A q \in PE : Begun(q)' = Begun(q) /\ EndRound(q)' = EndRound(q) /\ bench'[q] = bench[q]
  BY <1>1
<1> QED
  BY <1>1, <1>2 DEF SameBatch, Stages

LEMMA EndBatchMoves ==
  ASSUME Types, NEW p \in PE, EndBatch(p)
  PROVE  /\ \A q \in PE \ {p} : /\ host'[q] = host[q] /\ batch'[q] = batch[q]
                                /\ issued'[q] = issued[q] /\ it'[q] = it[q]
         /\ issued'[p] = 0 /\ it'[p] = 0
         /\ \/ batch[p] = 0 /\ batch'[p] = 1 /\ host'[p] = "before"
            \/ batch[p] # 0 /\ batch'[p] = batch[p] /\ host'[p] = "after"
BY DEF EndBatch, Types

LEMMA LoopStep ==
  ASSUME IInv, [Next]_vars
  PROVE  SameBatch' /\ Stages'
<1> USE DEF loopVars, okVars, countVars, wireVars
<1>0. Types /\ SameBatch /\ Stages /\ Requests /\ \A p \in PE : Stage(p)
  BY DEF IInv, Stages
<1>1. ASSUME NEW p \in PE, Issue(p)
      PROVE  SameBatch' /\ Stages'
  <2>1. /\ host[p] = "body" /\ issued'[p] = issued[p] + 1
        /\ \A q \in PE \ {p} : host'[q] = host[q] /\ issued'[q] = issued[q]
        /\ host'[p] = IF transport = "mpi" \/ issued[p] + 1 = BatchLen(p) THEN "wait" ELSE "body"
        /\ UNCHANGED <<transport, bench, batch, it, round>>
    BY <1>0, <1>1 DEF Issue, Types
  <2>2. issued[p] \in Nat /\ it[p] \in Nat /\ BatchLen(p) \in Nat /\ BatchLen(p)' = BatchLen(p)
    BY <1>0, <2>1, Shape DEF BatchLen
  <2>3. Begun(p)' = Begun(p) /\ EndRound(p)' = EndRound(p)
    BY <2>1, <2>2 DEF Begun, EndRound, InBatch
  <2>4. Stage(p)'
    BY <1>0, <2>1, <2>2 DEF Stage, InBatch
  <2> QED
    BY <1>0, <2>1, <2>3, <2>4, OneGoesOn
<1>2. ASSUME NEW p \in PE, EndExchange(p)
      PROVE  SameBatch' /\ Stages'
  <2>1. /\ it'[p] = it[p] + 1 /\ round'[p] = round[p] + 1
        /\ \A q \in PE \ {p} : it'[q] = it[q] /\ round'[q] = round[q]
        /\ UNCHANGED <<transport, host, bench, batch, issued>>
        /\ sendReq[p]["left"] # "inactive"
    BY <1>0, <1>2 DEF EndExchange, Types, Side
  <2>2. transport # "put" /\ it[p] # issued[p]
    BY <1>0, <2>1 DEF Requests, Side
  <2>3. issued[p] \in Nat /\ it[p] \in Nat /\ round[p] \in Nat /\ BatchLen(p) \in Nat /\ BatchLen(p)' = BatchLen(p)
    BY <1>0, <2>1, Shape DEF BatchLen
  <2>4. InBatch(p)
    BY <1>0, <2>2, <2>3, SMT DEF Stage
  <2>5. Begun(p)' = Begun(p)
    BY <2>1 DEF Begun
  <2>6. EndRound(p)' = EndRound(p)
    <3>1. (round[p] + 1) + (BatchLen(p) - (it[p] + 1)) = round[p] + (BatchLen(p) - it[p])
      BY <2>3, SMT
    <3> QED
      BY <2>1, <2>2, <2>3, <2>4, <3>1 DEF EndRound, InBatch
  <2>7. Stage(p)'
    <3>1. it[p] + 1 <= issued[p]
      BY <1>0, <2>2, <2>3, SMT DEF Stage
    <3> QED
      BY <1>0, <2>1, <2>2, <2>3, <3>1 DEF Stage, InBatch
  <2> QED
    BY <1>0, <2>1, <2>5, <2>6, <2>7, OneGoesOn
<1>3. ASSUME NEW p \in PE, Wait(p)
      PROVE  SameBatch' /\ Stages'
  <2>1. /\ host[p] = "wait" /\ transport # "put" /\ it[p] = issued[p]
        /\ UNCHANGED <<transport, bench, round>>
    BY <1>3 DEF Wait
  <2>2. /\ issued[p] \in Nat /\ round[p] \in Nat /\ BatchLen(p) \in Nat /\ batch[p] \in Nat
        /\ Samples(bench[p]) \in Nat \ {0} /\ issued[p] <= BatchLen(p)
    BY <1>0, Shape DEF Stage
  <2>3. CASE issued[p] < BatchLen(p)
    <3>1. /\ host'[p] = "body" /\ \A q \in PE \ {p} : host'[q] = host[q]
          /\ UNCHANGED <<batch, issued, it>>
      BY <1>0, <1>3, <2>3 DEF Wait, Types
    <3>2. Begun(p)' = Begun(p) /\ EndRound(p)' = EndRound(p) /\ Stage(p)'
      BY <1>0, <2>1, <2>3, <3>1 DEF Begun, EndRound, InBatch, Stage, BatchLen
    <3> QED
      BY <1>0, <2>1, <3>1, <3>2, OneGoesOn
  <2>4. CASE ~(issued[p] < BatchLen(p))
    <3>1. EndBatch(p)
      BY <1>3, <2>4 DEF Wait
    <3>2. Begun(p)' = Begun(p)
      BY <1>0, <2>1, <2>2, <3>1, EndBatchMoves, SMT DEF Begun
    <3>3. EndRound(p)' = EndRound(p)
      <4>1. EndRound(p)' = round[p]
        BY <1>0, <2>1, <3>1, EndBatchMoves DEF EndRound, InBatch
      <4>2. EndRound(p) = round[p] + (BatchLen(p) - it[p])
        BY <2>1 DEF EndRound, InBatch
      <4>3. round[p] + (BatchLen(p) - it[p]) = round[p]
        BY <2>1, <2>2, <2>4, SMT
      <4> QED
        BY <4>1, <4>2, <4>3
    <3>4. Stage(p)'
      <4>1. BatchLen(p)' \in Nat
        <5>1. BatchLen(p)' = Count(bench[p], batch'[p]) /\ batch'[p] \in Nat
          BY <1>0, <2>1, <2>2, <3>1, EndBatchMoves DEF BatchLen
        <5>2. bench[p] \in Nat \ {0}
          BY <1>0, Shape, CasesType, SMT
        <5> QED
          BY <5>1, <5>2, BatchShape
      <4>2. batch'[p] <= Samples(bench[p])
        BY <1>0, <2>2, <3>1, EndBatchMoves, SMT DEF Stage
      <4>3. /\ issued'[p] = 0 /\ it'[p] = 0 /\ host'[p] \in {"before", "after"}
            /\ UNCHANGED <<transport, bench>>
        BY <1>0, <2>1, <3>1, EndBatchMoves
      <4> QED
        BY <4>1, <4>2, <4>3 DEF Stage, InBatch
    <3> QED
      BY <1>0, <2>1, <3>1, <3>2, <3>3, <3>4, EndBatchMoves, OneGoesOn
  <2> QED
    BY <2>3, <2>4
<1>4. ASSUME NEW p \in PE, Quiet(p)
      PROVE  SameBatch' /\ Stages'
  <2>1. /\ host[p] = "wait" /\ transport = "put" /\ host'[p] = "arrived"
        /\ \A q \in PE \ {p} : host'[q] = host[q]
        /\ UNCHANGED <<transport, bench, batch, issued, it, round>>
    BY <1>0, <1>4 DEF Quiet, Types
  <2>2. Begun(p)' = Begun(p) /\ EndRound(p)' = EndRound(p) /\ Stage(p)'
    BY <1>0, <2>1 DEF Begun, EndRound, InBatch, Stage, BatchLen
  <2> QED
    BY <1>0, <2>1, <2>2, OneGoesOn
<1>5. ASSUME NEW p \in PE, LeaveBatch(p)
      PROVE  SameBatch' /\ Stages'
  <2>1. /\ host[p] = "arrived" /\ EndBatch(p) /\ UNCHANGED <<transport, bench>>
        /\ round'[p] = round[p] + 1 /\ \A q \in PE \ {p} : round'[q] = round[q]
    BY <1>0, <1>5 DEF LeaveBatch, Types
  <2>2. /\ batch[p] \in Nat /\ Samples(bench[p]) \in Nat \ {0}
        /\ transport = "put"
    BY <1>0, <2>1, Shape DEF Stage
  <2>3. Begun(p)' = Begun(p)
    BY <1>0, <2>1, <2>2, EndBatchMoves, SMT DEF Begun
  <2>4. EndRound(p)' = EndRound(p)
    BY <1>0, <2>1, <2>2, EndBatchMoves DEF EndRound, InBatch
  <2>5. Stage(p)'
    <3>1. BatchLen(p)' \in Nat
      <4>1. BatchLen(p)' = Count(bench[p], batch'[p]) /\ batch'[p] \in Nat
        BY <1>0, <2>1, <2>2, EndBatchMoves DEF BatchLen
      <4>2. bench[p] \in Nat \ {0}
        BY <1>0, Shape, CasesType, SMT
      <4> QED
        BY <4>1, <4>2, BatchShape
    <3>2. batch'[p] <= Samples(bench[p])
      BY <1>0, <2>1, <2>2, EndBatchMoves, SMT DEF Stage
    <3>3. /\ issued'[p] = 0 /\ it'[p] = 0 /\ host'[p] \in {"before", "after"}
          /\ UNCHANGED <<transport, bench>>
      BY <1>0, <2>1, EndBatchMoves
    <3> QED
      BY <3>1, <3>2, <3>3 DEF Stage, InBatch
  <2> QED
    BY <1>0, <2>1, <2>3, <2>4, <2>5, EndBatchMoves, OneGoesOn
<1>6. ASSUME NEW p \in PE, PoisonHalos(p)
      PROVE  SameBatch' /\ Stages'
  <2>1. /\ host[p] = "before" /\ host'[p] = "aligned"
        /\ \A q \in PE \ {p} : host'[q] = host[q]
        /\ UNCHANGED <<transport, bench, batch, issued, it, round>>
    BY <1>0, <1>6 DEF PoisonHalos, Types
  <2>2. Begun(p)' = Begun(p) /\ EndRound(p)' = EndRound(p) /\ Stage(p)'
    BY <1>0, <2>1 DEF Begun, EndRound, InBatch, Stage, BatchLen
  <2> QED
    BY <1>0, <2>1, <2>2, OneGoesOn
<1>7. ASSUME NEW p \in PE, Validate(p)
      PROVE  SameBatch' /\ Stages'
  <2>1. /\ host[p] = "after" /\ UNCHANGED <<transport, bench, issued, it, round>>
        /\ \A q \in PE \ {p} : host'[q] = host[q] /\ batch'[q] = batch[q]
        /\ \/ batch[p] < Samples(bench[p]) /\ host'[p] = "before" /\ batch'[p] = batch[p] + 1
           \/ host'[p] = "verdict" /\ batch'[p] = batch[p]
    BY <1>0, <1>7 DEF Validate, Types
  <2>2. batch[p] \in Nat /\ Samples(bench[p]) \in Nat /\ issued[p] = 0 /\ it[p] \in Nat /\ it[p] <= issued[p]
    BY <1>0, <2>1, Shape DEF Stage, InBatch
  <2>3. Begun(p)' = Begun(p) /\ EndRound(p)' = EndRound(p)
    BY <2>1 DEF Begun, EndRound, InBatch
  <2>4. Stage(p)'
    <3>1. BatchLen(p)' \in Nat
      <4>1. BatchLen(p)' = Count(bench[p], batch'[p]) /\ batch'[p] \in Nat
        BY <2>1, <2>2 DEF BatchLen
      <4>2. bench[p] \in Nat \ {0}
        BY <1>0, Shape, CasesType, SMT
      <4> QED
        BY <4>1, <4>2, BatchShape
    <3>2. batch'[p] <= Samples(bench[p])
      BY <1>0, <2>1, <2>2, SMT DEF Stage
    <3>3. it[p] <= 0 /\ 0 <= BatchLen(p)'
      BY <2>2, <3>1, SMT
    <3> QED
      BY <1>0, <2>1, <2>2, <3>2, <3>3 DEF Stage, InBatch
  <2> QED
    BY <1>0, <2>1, <2>3, <2>4, OneGoesOn
<1>8. CASE Barrier
  <2>1. /\ \A p \in PE : host[p] = "aligned" /\ host'[p] = "body"
        /\ UNCHANGED <<transport, bench, batch, issued, it, round>>
    BY <1>8 DEF Barrier
  <2>2. \A p \in PE : /\ batch[p] \in Nat /\ issued[p] = 0 /\ it[p] = 0 /\ BatchLen(p) \in Nat \ {0}
                      /\ BatchLen(p)' = BatchLen(p) /\ batch[p] <= Samples(bench[p])
    BY <1>0, <2>1, Shape, SMT DEF Stage, InBatch, BatchLen
  <2>3. \A p, q \in PE : bench[p] = bench[q] /\ batch[p] = batch[q] /\ round[p] = round[q]
    BY <1>0, <2>1 DEF SameBatch, Begun, EndRound, InBatch
  <2>4. \A p \in PE : /\ Begun(p)' = batch[p] + 1
                      /\ EndRound(p)' = IF transport = "put" THEN round[p] + 1 ELSE round[p] + (BatchLen(p) - 0)
    BY <2>1, <2>2 DEF Begun, EndRound, InBatch
  <2>5. \A p, q \in PE : BatchLen(p) = BatchLen(q)
    BY <2>3 DEF BatchLen
  <2>6. SameBatch'
    BY <2>1, <2>3, <2>4, <2>5 DEF SameBatch
  <2>7. \A p \in PE : Stage(p)'
    BY <2>1, <2>2, SMT DEF Stage, InBatch
  <2> QED
    BY <2>6, <2>7 DEF Stages
<1>9. CASE Verdict
  <2>1. /\ \A p \in PE : host[p] = "verdict"
        /\ \A p \in PE : \/ bench[p] = Cases /\ host'[p] = "exit" /\ bench'[p] = bench[p] /\ batch'[p] = batch[p]
                         \/ /\ bench[p] # Cases /\ host'[p] = "before"
                            /\ bench'[p] = bench[p] + 1 /\ batch'[p] = 0
        /\ UNCHANGED <<transport, issued, it, round>>
    BY <1>9 DEF Verdict
  <2>2. \A p, q \in PE : /\ bench[p] = bench[q] /\ batch[p] + 1 = batch[q] + 1 /\ round[p] = round[q]
    BY <1>0, <2>1 DEF SameBatch, Begun, EndRound, InBatch
  <2>3. SameBatch'
    BY <2>1, <2>2 DEF SameBatch, Begun, EndRound, InBatch
  <2>4. ASSUME NEW p \in PE
        PROVE  Stage(p)'
    <3>1. issued[p] = 0 /\ it[p] \in Nat /\ it[p] <= 0 /\ it[p] = 0
      BY <1>0, <2>1, Shape, SMT DEF Stage, InBatch
    <3>2. bench'[p] \in Nat \ {0} /\ batch'[p] \in Nat
      BY <1>0, <2>1, Shape, CasesType, SMT
    <3>3. BatchLen(p)' \in Nat /\ Samples(bench'[p]) \in Nat
      BY <3>2, BatchShape DEF BatchLen
    <3>4. batch'[p] <= Samples(bench'[p])
      BY <1>0, <2>1, <3>3, SMT DEF Stage
    <3> QED
      BY <2>1, <3>1, <3>3, <3>4, SMT DEF Stage, InBatch
  <2> QED
    BY <2>3, <2>4 DEF Stages
<1>10. CASE UNCHANGED vars \/ \E p \in PE : Begin(p) \/ \E s \in Side : Inject(p, s) \/ Match(p, s)
  <2>1. CASE UNCHANGED vars
    BY <1>0, <2>1, LoopKept DEF vars, loopState
  <2>2. ASSUME NEW p \in PE, Begin(p)
        PROVE  SameBatch' /\ Stages'
    BY <1>0, <2>2, LoopKept DEF loopState, Begin
  <2>3. ASSUME NEW p \in PE, NEW s \in Side, Inject(p, s) \/ Match(p, s)
        PROVE  SameBatch' /\ Stages'
    <3>1. UNCHANGED <<host, loopVars, okVars, countVars>>
      BY <2>3 DEF Inject, Match
    <3> QED
      BY <1>0, <3>1, LoopKept DEF loopState
  <2> QED
    BY <1>10, <2>1, <2>2, <2>3
<1>11. CASE \E m \in puts : Deliver(m)
  BY <1>0, <1>11, LoopKept DEF loopState, Deliver
<1> QED
  BY <1>1, <1>2, <1>3, <1>4, <1>5, <1>6, <1>7, <1>8, <1>9, <1>10, <1>11 DEF Next, RankStep, Progress

LEMMA InvInit == Init => IInv
<1> SUFFICES ASSUME Init
             PROVE  IInv
  OBVIOUS
<1>0. Types
  BY TypesInit
<1>1. \A p \in PE : /\ host[p] = "before" /\ bench[p] = 1 /\ batch[p] = 0 /\ issued[p] = 0
                    /\ it[p] = 0 /\ round[p] = 0
                    /\ \A s \in Side : sendReq[p][s] = "inactive" /\ recvReq[p][s] = "inactive"
  BY DEF Init, LoopStart, WireIdle
<1>2. \A p, q \in PE, t \in {0, 1} : chan[p][q][t] = <<>>
  BY DEF Init, WireIdle
<1>3. puts = {}
  BY DEF Init, WireIdle
<1>4. SameBatch
  BY <1>1 DEF SameBatch, Begun, EndRound, InBatch
<1>5. Stages
  <2>1. \A p \in PE : Samples(bench[p]) \in Nat /\ BatchLen(p) \in Nat
    BY <1>0, Shape
  <2> QED
    BY <1>1, <2>1, SMT DEF Stages, Stage, InBatch
<1>6. Requests
  BY <1>1 DEF Requests, Posted, Side
<1>7. Queues
  <2>1. \A p \in PE, s \in Side : Sent(p, s) = 0 /\ Received(p, s) = 0
    BY <1>1 DEF Sent, Received, Posted
  <2>2. ASSUME NEW p \in PE, NEW s \in Side
        PROVE  QueueHolds(p, s)
    <3>1. Queue(p, s) = <<>>
      BY <1>2, RingNeighbours DEF Queue, Tag
    <3>2. SentNo(p, s) = 0 /\ RecvNo(Neighbour(p, s), Opp(s)) = 0
      BY <2>1, RingNeighbours, SMT DEF SentNo, RecvNo, Side
    <3> QED
      BY <3>1, <3>2, SMT DEF QueueHolds
  <2> QED
    BY <1>2, <1>3, <2>2 DEF Queues
<1>8. Halos
  BY <1>1 DEF Halos
<1>9. PutsLanded
  BY <1>1, <1>3, RingNeighbours DEF PutsLanded, Putting, InBatch
<1> QED
  BY <1>0, <1>4, <1>5, <1>6, <1>7, <1>8, <1>9 DEF IInv

-----------------------------------------------------------------------------
(* The queues.                                                             *)

(* What is sent goes to the end of a queue, what is received is its head.  *)
Holds(q, got, sent, f) ==
  /\ Len(q) = sent - got
  /\ \A i \in 1 .. Len(q) : q[i] = f[got + i]

LEMMA Appended ==
  ASSUME NEW S, NEW q \in Seq(S), NEW got \in Nat, NEW sent \in Nat, NEW f,
         Holds(q, got, sent, f), NEW m \in S, m = f[sent + 1]
  PROVE  Holds(Append(q, m), got, sent + 1, f)
<1>1. Len(q) = sent - got /\ Len(q) \in Nat /\ Len(Append(q, m)) = Len(q) + 1
  BY DEF Holds
<1>2. ASSUME NEW i \in 1 .. Len(Append(q, m))
      PROVE  Append(q, m)[i] = f[got + i]
  <2>1. CASE i = Len(q) + 1
    <3>1. Append(q, m)[i] = m
      BY <2>1
    <3>2. got + i = sent + 1
      BY <1>1, <2>1, SMT
    <3> QED
      BY <3>1, <3>2
  <2>2. CASE i # Len(q) + 1
    <3>1. i \in 1 .. Len(q)
      BY <1>1, <2>2, SMT
    <3>2. Append(q, m)[i] = q[i]
      BY <3>1
    <3> QED
      BY <3>1, <3>2 DEF Holds
  <2> QED
    BY <2>1, <2>2
<1>3. Len(Append(q, m)) = (sent + 1) - got
  BY <1>1, SMT
<1> QED
  BY <1>2, <1>3 DEF Holds

LEMMA TakenOff ==
  ASSUME NEW S, NEW q \in Seq(S), NEW got \in Nat, NEW sent \in Nat, NEW f,
         Holds(q, got, sent, f), q # <<>>
  PROVE  /\ Head(q) = f[got + 1]
         /\ got < sent
         /\ Holds(Tail(q), got + 1, sent, f)
<1>1. Len(q) = sent - got /\ Len(q) \in Nat \ {0} /\ Len(Tail(q)) = Len(q) - 1
  BY DEF Holds
<1>2. Head(q) = q[1] /\ 1 \in 1 .. Len(q)
  BY <1>1, SMT
<1>3. ASSUME NEW i \in 1 .. Len(Tail(q))
      PROVE  Tail(q)[i] = f[(got + 1) + i]
  <2>1. i + 1 \in 1 .. Len(q) /\ Tail(q)[i] = q[i + 1]
    BY <1>1
  <2>2. got + (i + 1) = (got + 1) + i
    BY SMT
  <2> QED
    BY <2>1, <2>2 DEF Holds
<1>4. Len(Tail(q)) = sent - (got + 1) /\ got < sent
  BY <1>1, SMT
<1> QED
  BY <1>2, <1>3, <1>4 DEF Holds

(* Counts are natural numbers; messages are what QueueHolds says they are. *)
LEMMA Counts ==
  ASSUME Types, NEW p \in PE, NEW s \in Side
  PROVE  /\ Sent(p, s) \in Nat /\ Received(p, s) \in Nat
         /\ SentNo(p, s) \in Nat /\ RecvNo(p, s) \in Nat
         /\ RecvNo(Neighbour(p, s), Opp(s)) \in Nat
<1>1. \A q \in PE, t \in Side : Sent(q, t) \in Nat /\ Received(q, t) \in Nat
  <2>1. \A q \in PE : round[q] \in Nat /\ round[q] + 1 \in Nat
    BY Shape, SMT
  <2> QED
    BY <2>1 DEF Sent, Received
<1>2. \A q \in PE, t \in Side : SentNo(q, t) \in Nat /\ RecvNo(q, t) \in Nat
  BY <1>1, SMT DEF SentNo, RecvNo, Side
<1> QED
  BY <1>1, <1>2, RingNeighbours

Messages(p, s) == [n \in Nat |-> MsgNo(p, s, n)]

LEMMA QueueIs ==
  ASSUME Types, NEW p \in PE, NEW s \in Side
  PROVE  /\ Queue(p, s) \in Seq(Boundary)
         /\ QueueHolds(p, s) <=>
              Holds(Queue(p, s), RecvNo(Neighbour(p, s), Opp(s)), SentNo(p, s), Messages(p, s))
<1>1. Queue(p, s) \in Seq(Boundary)
  <2>1. Neighbour(p, s) \in PE /\ Tag(s) \in {0, 1}
    BY RingNeighbours DEF Tag
  <2>2. chan \in [PE -> [PE -> [{0, 1} -> Seq(Boundary)]]]
    BY DEF Types
  <2> QED
    BY <2>1, <2>2 DEF Queue
<1> DEFINE got == RecvNo(Neighbour(p, s), Opp(s))
<1>2. got \in Nat /\ \A i \in 1 .. Len(Queue(p, s)) : got + i \in Nat
  BY <1>1, Counts, SMT
<1> HIDE DEF got
<1>3. \A i \in 1 .. Len(Queue(p, s)) : MsgNo(p, s, got + i) = Messages(p, s)[got + i]
  BY <1>2 DEF Messages
<1>4. QueueHolds(p, s) <=> Holds(Queue(p, s), got, SentNo(p, s), Messages(p, s))
  BY <1>3 DEF QueueHolds, Holds, got
<1> QED
  BY <1>1, <1>4 DEF got

(* Two sides of a rank have one queue only in a group of two.              *)
LEMMA OneQueue ==
  ASSUME Types, NEW p \in PE
  PROVE  /\ Shared => /\ Neighbour(p, "left") = Neighbour(p, "right")
                      /\ Tag("left") = Tag("right")
         /\ transport # "put" /\ ~Shared =>
              \/ Neighbour(p, "left") # Neighbour(p, "right")
              \/ Tag("left") # Tag("right")
<1>1. transport = "mpi" => Tag("left") = 1 /\ Tag("right") = 0
  BY DEF Tag
<1>2. transport # "mpi" => Tag("left") = 0 /\ Tag("right") = 0
  BY DEF Tag
<1>3. Neighbour(p, "left") = Neighbour(p, "right") <=> N = 2
  <2>1. p \in Nat /\ p <= N - 1 /\ N \in Nat /\ N >= 2
    BY RingSize, SMT DEF PE
  <2>2. (p + 1) % N = (IF p = N - 1 THEN 0 ELSE p + 1)
    BY <2>1
  <2>3. (p - 1 + N) % N = (IF p = 0 THEN N - 1 ELSE p - 1)
    BY <2>1
  <2>4. (p - 1 + N) % N = (p + 1) % N <=> N = 2
    BY <2>1, <2>2, <2>3
  <2> QED
    BY <2>4 DEF Neighbour
<1>4. transport \in {"mpi", "group", "put"}
  BY DEF Types
<1> QED
  BY <1>1, <1>2, <1>3, <1>4 DEF Shared

(* In a queue of two ranks' groups the messages alternate.                 *)
LEMMA Alternate ==
  ASSUME Shared, NEW p \in PE, NEW s \in Side, NEW r \in Nat
  PROVE  /\ MsgNo(p, s, 2 * r + 1) = [src |-> p, end |-> "right", round |-> r + 1]
         /\ MsgNo(p, s, 2 * r + 2) = [src |-> p, end |-> "left", round |-> r + 1]
<1>1. (2 * r + 1) % 2 = 1 /\ ((2 * r + 1) + 1) \div 2 = r + 1
  BY SMT
<1>2. (2 * r + 2) % 2 = 0 /\ (2 * r + 2) \div 2 = r + 1
  BY SMT
<1> QED
  BY <1>1, <1>2 DEF MsgNo

LEMMA Apart == ~Shared => \A p \in PE, s \in Side, n \in Nat :
                 MsgNo(p, s, n) = [src |-> p, end |-> s, round |-> n]
BY DEF MsgNo

(* A request under way belongs to a program that sends messages, and the   *)
(* other requests of its exchange are under way too.                       *)
LEMMA UnderWay ==
  ASSUME Types, Requests, NEW p \in PE, NEW s \in Side,
         sendReq[p][s] # "inactive" \/ recvReq[p][s] # "inactive"
  PROVE  /\ transport # "put" /\ it[p] # issued[p]
         /\ sendReq[p][s] # "inactive" => \A o \in Side : sendReq[p][o] # "inactive"
         /\ recvReq[p][s] # "inactive" => \A o \in Side : recvReq[p][o] # "inactive"
BY DEF Requests

(* The message a send adds is the next one of its queue.                   *)
LEMMA SendIsNext ==
  ASSUME Types, Requests, NEW p \in PE, NEW s \in Side,
         sendReq[p][s] = "active", ~WaitsForCall(p, s, FirstSend, sendReq)
  PROVE  /\ Mine(p, s) = MsgNo(p, s, SentNo(p, s) + 1)
         /\ Shared /\ s = "left" => Posted(p, "right")
         /\ Shared /\ s = "right" => ~Posted(p, "left")
<1>1. round[p] \in Nat /\ ~Posted(p, s)
  BY Shape DEF Posted
<1>2. CASE ~Shared
  <2>1. SentNo(p, s) = round[p]
    BY <1>1, <1>2, SMT DEF SentNo, Sent
  <2> QED
    BY <1>1, <1>2, <2>1, Apart DEF Mine
<1>3. CASE Shared
  <2>1. Neighbour(p, "left") = Neighbour(p, "right") /\ transport = "group"
    BY <1>3, OneQueue DEF Shared
  <2>2. CASE s = "right"
    <3>1. ~Posted(p, "left")
      BY <1>1, <1>3, <2>2 DEF Requests
    <3>2. SentNo(p, s) + 1 = 2 * round[p] + 1
      BY <1>1, <1>3, <2>2, <3>1, SMT DEF SentNo, Sent
    <3> QED
      BY <1>1, <1>3, <2>2, <3>1, <3>2, Alternate DEF Mine
  <2>3. CASE s = "left"
    <3>1. sendReq[p]["right"] # "active"
      BY <2>1, <2>3 DEF WaitsForCall, FirstSend
    <3>2. sendReq[p]["right"] # "inactive"
      BY <2>3, UnderWay DEF Side
    <3>3. Posted(p, "right")
      <4>1. sendReq[p]["right"] \in ReqState
        BY DEF Types, Side
      <4> QED
        BY <3>1, <3>2, <4>1 DEF Posted, ReqState
    <3>4. SentNo(p, s) + 1 = 2 * round[p] + 2
      BY <1>1, <1>3, <2>3, <3>3, SMT DEF SentNo, Sent
    <3> QED
      BY <1>1, <1>3, <2>3, <3>3, <3>4, Alternate DEF Mine
  <2> QED
    BY <2>2, <2>3 DEF Side
<1> QED
  BY <1>2, <1>3

(* The message a receive takes is the one its halo expects, and the send   *)
(* it belongs to has been taken up if its exchange is still under way.     *)
LEMMA ReceiveIsExpected ==
  ASSUME Types, Requests, NEW p \in PE, NEW s \in Side,
         recvReq[p][s] = "active", ~WaitsForCall(p, s, FirstRecv, recvReq)
  PROVE  LET q == Neighbour(p, s)
             o == Opp(s)
         IN  /\ Expected(p, s, round[p] + 1) = MsgNo(q, o, RecvNo(p, s) + 1)
             /\ RecvNo(p, s) < SentNo(q, o) /\ round[p] = round[q] => Posted(q, o)
             /\ Shared /\ s = "right" => recvReq[p]["left"] = "complete"
             /\ Shared /\ s = "left" => recvReq[p]["right"] # "complete"
<1> DEFINE q == Neighbour(p, s)
           o == Opp(s)
<1>0. q \in PE /\ o \in Side
  BY RingNeighbours
<1>1. round[p] \in Nat /\ round[q] \in Nat /\ recvReq[p][s] # "complete"
  BY <1>0, Shape
<1>2. CASE ~Shared
  <2>1. RecvNo(p, s) = round[p] /\ SentNo(q, o) = round[q] + (IF Posted(q, o) THEN 1 ELSE 0)
    BY <1>1, <1>2 DEF RecvNo, Received, SentNo, Sent
  <2>2. RecvNo(p, s) < SentNo(q, o) /\ round[p] = round[q] => Posted(q, o)
    BY <1>1, <2>1, SMT
  <2> QED
    BY <1>0, <1>1, <1>2, <2>1, <2>2, Apart DEF Expected
<1>3. CASE Shared
  <2>1. Neighbour(p, "left") = Neighbour(p, "right") /\ transport = "group"
    BY <1>3, OneQueue DEF Shared
  <2>2. SentNo(q, o) = (round[q] + (IF Posted(q, "right") THEN 1 ELSE 0))
                       + (round[q] + (IF Posted(q, "left") THEN 1 ELSE 0))
    BY <1>3 DEF SentNo, Sent
  <2>3. Posted(q, "left") => Posted(q, "right")
    BY <1>0, <1>3 DEF Requests
  <2>4. CASE s = "left"
    <3>1. recvReq[p]["right"] # "complete"
      BY <1>1, <1>3, <2>4 DEF Requests
    <3>2. RecvNo(p, s) = 2 * round[p]
      BY <1>1, <1>3, <2>4, <3>1, SMT DEF RecvNo, Received
    <3>3. MsgNo(q, o, RecvNo(p, s) + 1) = [src |-> q, end |-> "right", round |-> round[p] + 1]
      BY <1>0, <1>1, <1>3, <3>2, Alternate
    <3>4. o = "right"
      BY <2>4 DEF Opp
    <3>5. RecvNo(p, s) < SentNo(q, o) /\ round[p] = round[q] => Posted(q, o)
      BY <1>1, <2>2, <2>3, <3>2, <3>4, SMT
    <3>6. Expected(p, s, round[p] + 1) = [src |-> q, end |-> "right", round |-> round[p] + 1]
      BY <3>4 DEF Expected
    <3> QED
      BY <2>4, <3>1, <3>3, <3>5, <3>6
  <2>5. CASE s = "right"
    <3>1. recvReq[p]["left"] # "active"
      BY <2>1, <2>5 DEF WaitsForCall, FirstRecv
    <3>2. recvReq[p]["left"] # "inactive"
      BY <2>5, UnderWay DEF Side
    <3>3. recvReq[p]["left"] = "complete"
      <4>1. recvReq[p]["left"] \in ReqState \ {"sent"}
        BY DEF Types, Side
      <4> QED
        BY <3>1, <3>2, <4>1 DEF ReqState
    <3>4. RecvNo(p, s) = 2 * round[p] + 1 /\ RecvNo(p, s) + 1 = 2 * round[p] + 2
      BY <1>1, <1>3, <2>5, <3>3, SMT DEF RecvNo, Received
    <3>5. MsgNo(q, o, RecvNo(p, s) + 1) = [src |-> q, end |-> "left", round |-> round[p] + 1]
      BY <1>0, <1>1, <1>3, <3>4, Alternate
    <3>6. o = "left"
      BY <2>5 DEF Opp
    <3>7. RecvNo(p, s) < SentNo(q, o) /\ round[p] = round[q] => Posted(q, o)
      BY <1>1, <2>2, <2>3, <3>4, <3>6, SMT
    <3>8. Expected(p, s, round[p] + 1) = [src |-> q, end |-> "left", round |-> round[p] + 1]
      BY <3>6 DEF Expected
    <3> QED
      BY <2>5, <3>3, <3>5, <3>7, <3>8
  <2> QED
    BY <2>4, <2>5 DEF Side
<1> QED
  BY <1>2, <1>3

(* The receive side of a step of the library: the oldest message of the    *)
(* queue goes into the halo it was meant for, and no send is taken up or   *)
(* given back by it.                                                       *)
LEMMA MatchMoves ==
  ASSUME IInv, NEW p \in PE, NEW s \in Side, Match(p, s)
  PROVE  LET q == Neighbour(p, s)
             o == Opp(s)
         IN  /\ transport # "put" /\ recvReq[p][s] = "active"
             /\ recv' = [recv EXCEPT ![p][s] = Expected(p, s, round[p] + 1)]
             /\ recvReq' = [recvReq EXCEPT ![p][s] = "complete"]
             /\ \A r \in PE, t \in Side :
                  /\ sendReq'[r][t] \in {"sent", "complete"} <=> Posted(r, t)
                  /\ sendReq'[r][t] = "inactive" <=> sendReq[r][t] = "inactive"
             /\ Queue(q, o) \in Seq(Boundary)
             /\ Holds(Tail(Queue(q, o)), RecvNo(p, s) + 1, SentNo(q, o), Messages(q, o))
             /\ chan' = [chan EXCEPT ![q][p][Tag(o)] = Tail(Queue(q, o))]
             /\ Shared /\ s = "right" => recvReq[p]["left"] = "complete"
             /\ UNCHANGED <<transport, round, host, issued, it, puts>>
<1> DEFINE q == Neighbour(p, s)
           o == Opp(s)
           c == Queue(q, o)
           m == Head(c)
<1>0. Types /\ Requests /\ Queues
  BY DEF IInv
<1>1. q \in PE /\ o \in Side /\ Opp(o) = s /\ Neighbour(q, o) = p
  BY RingNeighbours
<1>2. c = chan[q][p][Tag(o)]
  BY <1>1 DEF Queue
<1>3. /\ recvReq[p][s] = "active" /\ ~WaitsForCall(p, s, FirstRecv, recvReq) /\ c # <<>>
      /\ recv' = [recv EXCEPT ![p][s] = m]
      /\ sendReq' = [sendReq EXCEPT ![q][m.end] = IF m.round = round[q] + 1 THEN "complete" ELSE @]
      /\ chan' = [chan EXCEPT ![q][p][Tag(o)] = Tail(c)]
      /\ recvReq' = [recvReq EXCEPT ![p][s] = "complete"]
      /\ UNCHANGED <<transport, round, host, issued, it, puts>>
  BY <1>2 DEF Match, loopVars, countVars
<1>4. transport # "put"
  BY <1>0, <1>3, UnderWay
<1>5. QueueHolds(q, o)
  BY <1>0, <1>1, <1>4 DEF Queues
<1>6. /\ c \in Seq(Boundary)
      /\ Holds(c, RecvNo(p, s), SentNo(q, o), Messages(q, o))
  BY <1>0, <1>1, <1>5, QueueIs
<1>7. RecvNo(p, s) \in Nat /\ SentNo(q, o) \in Nat
  BY <1>0, <1>1, Counts
<1>8. /\ m = Messages(q, o)[RecvNo(p, s) + 1] /\ RecvNo(p, s) < SentNo(q, o)
      /\ Holds(Tail(c), RecvNo(p, s) + 1, SentNo(q, o), Messages(q, o))
  <2> HIDE DEF q, o, c
  <2> QED
    BY <1>3, <1>6, <1>7, TakenOff
<1>9. m = Expected(p, s, round[p] + 1)
  <2>1. RecvNo(p, s) + 1 \in Nat
    BY <1>7, SMT
  <2>2. m = MsgNo(q, o, RecvNo(p, s) + 1)
    BY <1>8, <2>1 DEF Messages
  <2>3. Expected(p, s, round[p] + 1) = MsgNo(q, o, RecvNo(p, s) + 1)
    BY <1>0, <1>3, ReceiveIsExpected
  <2> HIDE DEF m, q, o
  <2> QED
    BY <2>2, <2>3
<1>10. m.end = o /\ m.round = round[p] + 1
  BY <1>9 DEF Expected
<1>11. \A r \in PE, t \in Side :
         /\ sendReq'[r][t] \in {"sent", "complete"} <=> Posted(r, t)
         /\ sendReq'[r][t] = "inactive" <=> sendReq[r][t] = "inactive"
  <2>0. round[p] \in Nat /\ round[q] \in Nat
    BY <1>0, <1>1, Shape
  <2>1. m.round = round[q] + 1 => Posted(q, o)
    <3>1. RecvNo(p, s) < SentNo(q, o) /\ round[p] = round[q] => Posted(q, o)
      BY <1>0, <1>3, ReceiveIsExpected
    <3>2. m.round = round[q] + 1 => round[p] = round[q]
      BY <1>10, <2>0, SMT
    <3> QED
      BY <1>8, <3>1, <3>2
  <2> DEFINE req == IF m.round = round[q] + 1 THEN "complete" ELSE sendReq[q][o]
  <2>2. sendReq' = [sendReq EXCEPT ![q] = [sendReq[q] EXCEPT ![o] = req]]
    BY <1>3, <1>10
  <2>3. /\ req \in {"sent", "complete"} <=> Posted(q, o)
        /\ req = "inactive" <=> sendReq[q][o] = "inactive"
    BY <2>1 DEF Posted
  <2>4. sendReq \in [PE -> [Side -> ReqState]]
    BY <1>0 DEF Types
  <2> HIDE DEF req, q, o, m
  <2>5. \A r \in PE, t \in Side : sendReq'[r][t] = IF r = q /\ t = o THEN req ELSE sendReq[r][t]
    BY <1>1, <2>2, <2>4
  <2> QED
    BY <2>3, <2>5 DEF Posted
<1>12. recv' = [recv EXCEPT ![p][s] = Expected(p, s, round[p] + 1)]
  BY <1>3, <1>9
<1>13. Shared /\ s = "right" => recvReq[p]["left"] = "complete"
  BY <1>0, <1>3, ReceiveIsExpected
<1> HIDE DEF m
<1> QED
  BY <1>3, <1>4, <1>6, <1>8, <1>11, <1>12, <1>13

(* The send side: the next message of the queue is appended to it.         *)
LEMMA InjectMoves ==
  ASSUME IInv, NEW p \in PE, NEW s \in Side, Inject(p, s)
  PROVE  /\ transport # "put" /\ sendReq[p][s] = "active"
         /\ \A r \in PE, t \in Side :
              /\ sendReq'[r][t] \in {"sent", "complete"} <=> (Posted(r, t) \/ (r = p /\ t = s))
              /\ sendReq'[r][t] = "inactive" <=> sendReq[r][t] = "inactive"
         /\ chan' = [chan EXCEPT ![p][Neighbour(p, s)][Tag(s)] = Append(Queue(p, s), Mine(p, s))]
         /\ Holds(Append(Queue(p, s), Mine(p, s)), RecvNo(Neighbour(p, s), Opp(s)),
                  SentNo(p, s) + 1, Messages(p, s))
         /\ Shared /\ s = "left" => Posted(p, "right")
         /\ UNCHANGED <<transport, round, host, issued, it, recvReq, puts, recv>>
<1>0. Types /\ Requests /\ Queues
  BY DEF IInv
<1>1. /\ sendReq[p][s] = "active" /\ ~WaitsForCall(p, s, FirstSend, sendReq)
      /\ chan' = [chan EXCEPT ![p][Neighbour(p, s)][Tag(s)] = Append(Queue(p, s), Mine(p, s))]
      /\ UNCHANGED <<transport, round, host, issued, it, recvReq, puts, recv>>
  BY DEF Inject, loopVars, countVars, Queue
<1>2. transport # "put"
  BY <1>0, <1>1, UnderWay
<1>3. PICK done \in {"sent", "complete"} : sendReq' = [sendReq EXCEPT ![p][s] = done]
  BY DEF Inject
<1>4. \A r \in PE, t \in Side : sendReq'[r][t] = IF r = p /\ t = s THEN done ELSE sendReq[r][t]
  <2>1. sendReq \in [PE -> [Side -> ReqState]]
    BY <1>0 DEF Types
  <2> QED
    BY <1>3, <2>1
<1>5. /\ Mine(p, s) = MsgNo(p, s, SentNo(p, s) + 1)
      /\ Shared /\ s = "left" => Posted(p, "right")
  BY <1>0, <1>1, SendIsNext
<1>6. Holds(Append(Queue(p, s), Mine(p, s)), RecvNo(Neighbour(p, s), Opp(s)),
            SentNo(p, s) + 1, Messages(p, s))
  <2>1. /\ SentNo(p, s) \in Nat /\ RecvNo(Neighbour(p, s), Opp(s)) \in Nat
    BY <1>0, Counts
  <2>2. SentNo(p, s) + 1 \in Nat
    BY <2>1, SMT
  <2>3. Mine(p, s) = Messages(p, s)[SentNo(p, s) + 1] /\ Mine(p, s) \in Boundary
    BY <1>0, <1>5, <2>2, Shape DEF Messages
  <2>4. QueueHolds(p, s)
    BY <1>0, <1>2 DEF Queues
  <2>5. /\ Queue(p, s) \in Seq(Boundary)
        /\ Holds(Queue(p, s), RecvNo(Neighbour(p, s), Opp(s)), SentNo(p, s), Messages(p, s))
    BY <1>0, <2>4, QueueIs
  <2> QED
    BY <2>1, <2>3, <2>5, Appended
<1>7. \A r \in PE, t \in Side :
        /\ sendReq'[r][t] \in {"sent", "complete"} <=> (Posted(r, t) \/ (r = p /\ t = s))
        /\ sendReq'[r][t] = "inactive" <=> sendReq[r][t] = "inactive"
  BY <1>1, <1>4 DEF Posted
<1> QED
  BY <1>1, <1>2, <1>5, <1>6, <1>7

LEMMA RequestsStep ==
  ASSUME IInv, [Next]_vars
  PROVE  Requests'
<1> USE DEF loopVars, okVars, countVars, wireVars
<1>0. /\ Types /\ Requests /\ Stages /\ \A p \in PE : Stage(p)
      /\ \A p \in PE : {issued[p], it[p]} \subseteq Nat
      /\ sendReq \in [PE -> [Side -> ReqState]]
      /\ recvReq \in [PE -> [Side -> ReqState \ {"sent"}]]
      /\ {issued, it} \subseteq [PE -> Nat]
  BY DEF IInv, Stages, Types
<1>1. ASSUME NEW p \in PE, Issue(p)
      PROVE  Requests'
  <2>1. /\ issued' = [issued EXCEPT ![p] = issued[p] + 1]
        /\ UNCHANGED <<transport, it, sendReq, recvReq>>
    BY <1>1 DEF Issue
  <2>2. \A q \in PE : it'[q] = issued'[q] => it[q] = issued[q]
    <3>1. it[p] # issued[p] + 1
      BY <1>0, SMT DEF Stage
    <3> QED
      BY <1>0, <2>1, <3>1
  <2> QED
    BY <1>0, <2>1, <2>2 DEF Requests, Posted, Shared
<1>2. ASSUME NEW p \in PE, Begin(p)
      PROVE  Requests'
  <2>1. /\ sendReq' = [sendReq EXCEPT ![p] = [s \in Side |-> "active"]]
        /\ recvReq' = [recvReq EXCEPT ![p] = [s \in Side |-> "active"]]
        /\ transport # "put" /\ it[p] # issued[p]
        /\ UNCHANGED <<transport, it, issued>>
    BY <1>0, <1>2, SMT DEF Begin
  <2>2. \A q \in PE \ {p} : sendReq'[q] = sendReq[q] /\ recvReq'[q] = recvReq[q]
    BY <1>0, <2>1
  <2>3. \A s \in Side : sendReq'[p][s] = "active" /\ recvReq'[p][s] = "active"
    BY <1>0, <2>1
  <2> QED
    BY <1>0, <2>1, <2>2, <2>3 DEF Requests, Posted, Shared, Side
<1>3. ASSUME NEW p \in PE, NEW s \in Side, Inject(p, s)
      PROVE  Requests'
  <2>1. /\ transport # "put" /\ sendReq[p][s] = "active"
        /\ \A r \in PE, t \in Side :
             /\ sendReq'[r][t] \in {"sent", "complete"} <=> (Posted(r, t) \/ (r = p /\ t = s))
             /\ sendReq'[r][t] = "inactive" <=> sendReq[r][t] = "inactive"
        /\ Shared /\ s = "left" => Posted(p, "right")
        /\ UNCHANGED <<transport, issued, it, recvReq>>
    BY <1>3, InjectMoves
  <2>2. \A r \in PE : Shared => (sendReq'[r]["left"] \in {"sent", "complete"}
                                   => sendReq'[r]["right"] \in {"sent", "complete"})
    BY <1>0, <2>1 DEF Requests, Side
  <2> QED
    BY <1>0, <2>1, <2>2 DEF Requests, Posted, Shared, Side
<1>4. ASSUME NEW p \in PE, NEW s \in Side, Match(p, s)
      PROVE  Requests'
  <2>1. /\ transport # "put" /\ recvReq[p][s] = "active"
        /\ recvReq' = [recvReq EXCEPT ![p][s] = "complete"]
        /\ \A r \in PE, t \in Side :
             /\ sendReq'[r][t] \in {"sent", "complete"} <=> Posted(r, t)
             /\ sendReq'[r][t] = "inactive" <=> sendReq[r][t] = "inactive"
        /\ Shared /\ s = "right" => recvReq[p]["left"] = "complete"
        /\ UNCHANGED <<transport, issued, it>>
    BY <1>4, MatchMoves
  <2>2. \A r \in PE, t \in Side : recvReq'[r][t] = IF r = p /\ t = s THEN "complete" ELSE recvReq[r][t]
    BY <1>0, <2>1
  <2>3. \A r \in PE, t \in Side : recvReq'[r][t] = "inactive" <=> recvReq[r][t] = "inactive"
    BY <2>1, <2>2
  <2>4. \A r \in PE : Shared => (recvReq'[r]["right"] = "complete" => recvReq'[r]["left"] = "complete")
    BY <1>0, <2>1, <2>2 DEF Requests, Side
  <2> QED
    BY <1>0, <2>1, <2>3, <2>4 DEF Requests, Posted, Shared, Side
<1>5. ASSUME NEW p \in PE, EndExchange(p)
      PROVE  Requests'
  <2>1. /\ sendReq' = [sendReq EXCEPT ![p] = [s \in Side |-> "inactive"]]
        /\ recvReq' = [recvReq EXCEPT ![p] = [s \in Side |-> "inactive"]]
        /\ it' = [it EXCEPT ![p] = it[p] + 1]
        /\ UNCHANGED <<transport, issued>>
    BY <1>5 DEF EndExchange
  <2>2. \A q \in PE \ {p} : sendReq'[q] = sendReq[q] /\ recvReq'[q] = recvReq[q] /\ it'[q] = it[q]
    BY <1>0, <2>1
  <2>3. \A s \in Side : sendReq'[p][s] = "inactive" /\ recvReq'[p][s] = "inactive"
    BY <1>0, <2>1
  <2> QED
    BY <1>0, <2>1, <2>2, <2>3 DEF Requests, Posted, Shared, Side
<1>6. ASSUME NEW p \in PE, Wait(p) \/ LeaveBatch(p)
      PROVE  Requests'
  <2>1. UNCHANGED <<transport, sendReq, recvReq>>
    BY <1>6 DEF Wait, LeaveBatch
  <2>2. transport = "put" \/ it[p] = issued[p]
    BY <1>0, <1>6 DEF Wait, LeaveBatch, Stage
  <2>3. \A q \in PE \ {p} : it'[q] = it[q] /\ issued'[q] = issued[q]
    BY <1>0, <1>6 DEF Wait, LeaveBatch, EndBatch
  <2>4. \A s \in Side : sendReq[p][s] = "inactive" /\ recvReq[p][s] = "inactive"
    BY <1>0, <2>2 DEF Requests
  <2> QED
    BY <1>0, <2>1, <2>3, <2>4 DEF Requests, Posted, Shared
<1>7. CASE UNCHANGED <<transport, sendReq, recvReq, issued, it>>
  BY <1>0, <1>7 DEF Requests, Posted, Shared
<1>8. CASE \/ UNCHANGED vars \/ Barrier \/ Verdict \/ \E m \in puts : Deliver(m)
           \/ \E p \in PE : Quiet(p) \/ PoisonHalos(p) \/ Validate(p)
  BY <1>7, <1>8 DEF vars, Barrier, Verdict, Deliver, Quiet, PoisonHalos, Validate
<1> QED
  BY <1>1, <1>2, <1>3, <1>4, <1>5, <1>6, <1>8 DEF Next, RankStep, Progress

(* What moves no count of messages leaves the queues as they are.          *)
LEMMA QueuesKept ==
  ASSUME Types, Queues, transport' = transport, chan' = chan,
         transport # "put" => /\ puts' = puts
                              /\ \A p \in PE, s \in Side : /\ Sent(p, s)' = Sent(p, s)
                                                           /\ Received(p, s)' = Received(p, s)
  PROVE  Queues'
<1>1. (Shared' <=> Shared) /\ \A s : Tag(s)' = Tag(s)
  BY DEF Shared, Tag
<1>2. ASSUME transport # "put", NEW p \in PE, NEW s \in Side
      PROVE  QueueHolds(p, s)'
  <2>1. Queue(p, s)' = Queue(p, s) /\ \A n : MsgNo(p, s, n)' = MsgNo(p, s, n)
    BY <1>1 DEF Queue, MsgNo
  <2>2. SentNo(p, s)' = SentNo(p, s)
    BY <1>1, <1>2 DEF SentNo, Side
  <2>3. RecvNo(Neighbour(p, s), Opp(s))' = RecvNo(Neighbour(p, s), Opp(s))
    BY <1>1, <1>2, RingNeighbours DEF RecvNo, Side
  <2>4. QueueHolds(p, s)
    BY <1>2 DEF Queues
  <2> QED
    BY <2>1, <2>2, <2>3, <2>4 DEF QueueHolds
<1> QED
  BY <1>1, <1>2 DEF Queues

LEMMA HoldsMeans ==
  ASSUME NEW q, NEW got \in Nat, NEW sent, NEW p, NEW s, Len(q) \in Nat,
         Holds(q, got, sent, Messages(p, s))
  PROVE  Len(q) = sent - got /\ \A i \in 1 .. Len(q) : q[i] = MsgNo(p, s, got + i)
<1>1. \A i \in 1 .. Len(q) : got + i \in Nat
  BY SMT
<1> QED
  BY <1>1 DEF Holds, Messages

(* Two boundaries go through one queue when they are the same, or the two  *)
(* of a rank in a group of two.                                            *)
LEMMA SameQueue ==
  ASSUME Types, transport # "put", NEW p \in PE, NEW s \in Side, NEW b \in Side
  PROVE  Neighbour(p, b) = Neighbour(p, s) /\ Tag(b) = Tag(s) <=> b = s \/ Shared
BY OneQueue DEF Side

(* The channels with one of them changed.                                  *)
WithChannel(p, q, t, c) == [chan EXCEPT ![p] = [chan[p] EXCEPT ![q] = [chan[p][q] EXCEPT ![t] = c]]]

LEMMA ChannelChanges ==
  ASSUME Types, NEW p \in PE, NEW q \in PE, NEW t \in {0, 1}, NEW c
  PROVE  \A a, r \in PE, u \in {0, 1} :
           WithChannel(p, q, t, c)[a][r][u] = IF a = p /\ r = q /\ u = t THEN c ELSE chan[a][r][u]
<1> DEFINE tags == [chan[p][q] EXCEPT ![t] = c]
           row == [chan[p] EXCEPT ![q] = tags]
<1>0. chan \in [PE -> [PE -> [{0, 1} -> Seq(Boundary)]]]
  BY DEF Types
<1>1. chan[p] \in [PE -> [{0, 1} -> Seq(Boundary)]] /\ chan[p][q] \in [{0, 1} -> Seq(Boundary)]
  BY <1>0
<1>2. \A u \in {0, 1} : tags[u] = IF u = t THEN c ELSE chan[p][q][u]
  BY <1>1
<1>3. \A r \in PE : row[r] = IF r = q THEN tags ELSE chan[p][r]
  BY <1>1
<1>4. WithChannel(p, q, t, c) = [chan EXCEPT ![p] = row]
  BY DEF WithChannel
<1> HIDE DEF tags, row
<1>5. \A a \in PE : WithChannel(p, q, t, c)[a] = IF a = p THEN row ELSE chan[a]
  BY <1>0, <1>4
<1> QED
  BY <1>2, <1>3, <1>5

LEMMA QueuesStep ==
  ASSUME IInv, [Next]_vars
  PROVE  Queues'
<1> USE DEF loopVars, okVars, countVars, wireVars
<1>0. /\ Types /\ Requests /\ Queues /\ Stages
      /\ round \in [PE -> Nat]
      /\ sendReq \in [PE -> [Side -> ReqState]]
      /\ recvReq \in [PE -> [Side -> ReqState \ {"sent"}]]
      /\ chan \in [PE -> [PE -> [{0, 1} -> Seq(Boundary)]]]
  BY DEF IInv, Types
<1>1. CASE UNCHANGED <<transport, chan, round, sendReq, recvReq, puts>>
  BY <1>0, <1>1, QueuesKept DEF Sent, Received, Posted
<1>2. ASSUME NEW p \in PE, Issue(p)
      PROVE  Queues'
  BY <1>0, <1>2, QueuesKept DEF Issue, Sent, Received, Posted
<1>3. ASSUME NEW p \in PE, Begin(p)
      PROVE  Queues'
  <2>1. /\ sendReq' = [sendReq EXCEPT ![p] = [s \in Side |-> "active"]]
        /\ recvReq' = [recvReq EXCEPT ![p] = [s \in Side |-> "active"]]
        /\ \A s \in Side : sendReq[p][s] = "inactive" /\ recvReq[p][s] = "inactive"
        /\ UNCHANGED <<transport, round, chan, puts>>
    BY <1>3 DEF Begin
  <2>2. \A q \in PE, s \in Side : Sent(q, s)' = Sent(q, s) /\ Received(q, s)' = Received(q, s)
    BY <1>0, <2>1 DEF Sent, Received, Posted
  <2> QED
    BY <1>0, <2>1, <2>2, QueuesKept
<1>4. ASSUME NEW p \in PE, EndExchange(p)
      PROVE  Queues'
  <2>1. /\ sendReq' = [sendReq EXCEPT ![p] = [s \in Side |-> "inactive"]]
        /\ recvReq' = [recvReq EXCEPT ![p] = [s \in Side |-> "inactive"]]
        /\ \A s \in Side : sendReq[p][s] = "complete" /\ recvReq[p][s] = "complete"
        /\ round' = [round EXCEPT ![p] = round[p] + 1]
        /\ UNCHANGED <<transport, chan, puts>>
    BY <1>4 DEF EndExchange
  <2>2. ASSUME NEW q \in PE, NEW s \in Side
        PROVE  Sent(q, s)' = Sent(q, s) /\ Received(q, s)' = Received(q, s)
    <3>1. CASE q = p
      <4>1. /\ Sent(p, s) = round[p] + 1 /\ Received(p, s) = round[p] + 1
            /\ Sent(p, s)' = (round[p] + 1) + 0 /\ Received(p, s)' = (round[p] + 1) + 0
        BY <1>0, <2>1 DEF Sent, Received, Posted
      <4>2. (round[p] + 1) + 0 = round[p] + 1
        BY <1>0, SMT
      <4> QED
        BY <3>1, <4>1, <4>2
    <3>2. CASE q # p
      BY <1>0, <2>1, <3>2 DEF Sent, Received, Posted
    <3> QED
      BY <3>1, <3>2
  <2> QED
    BY <1>0, <2>1, <2>2, QueuesKept
<1>5. ASSUME NEW p \in PE, LeaveBatch(p)
      PROVE  Queues'
  <2>1. transport = "put"
    BY <1>0, <1>5 DEF LeaveBatch, Stages, Stage
  <2> QED
    BY <1>0, <1>5, <2>1, QueuesKept DEF LeaveBatch
<1>6. ASSUME NEW m \in puts, Deliver(m)
      PROVE  Queues'
  <2>1. transport = "put"
    BY <1>0 DEF Queues
  <2> QED
    BY <1>0, <1>6, <2>1, QueuesKept DEF Deliver
<1>7. ASSUME NEW p \in PE, NEW s \in Side, Inject(p, s)
      PROVE  Queues'
  <2> DEFINE q == Neighbour(p, s)
             grown == Append(Queue(p, s), Mine(p, s))
  <2>1. /\ transport # "put" /\ sendReq[p][s] = "active"
        /\ \A r \in PE, t \in Side :
             sendReq'[r][t] \in {"sent", "complete"} <=> (Posted(r, t) \/ (r = p /\ t = s))
        /\ chan' = [chan EXCEPT ![p] = [chan[p] EXCEPT ![q] = [chan[p][q] EXCEPT ![Tag(s)] = grown]]]
        /\ Holds(grown, RecvNo(q, Opp(s)), SentNo(p, s) + 1, Messages(p, s))
        /\ UNCHANGED <<transport, round, recvReq, puts>>
    BY <1>7, InjectMoves
  <2>2. q \in PE /\ Tag(s) \in {0, 1}
    BY RingNeighbours DEF Tag
  <2>3. \A a, r \in PE, t \in {0, 1} :
          chan'[a][r][t] = IF a = p /\ r = q /\ t = Tag(s) THEN grown ELSE chan[a][r][t]
    <3>1. chan' = WithChannel(p, q, Tag(s), grown)
      BY <2>1 DEF WithChannel
    <3>2. Types
      BY <1>0
    <3> HIDE DEF q, grown
    <3> QED
      BY <2>2, <3>1, <3>2, ChannelChanges
  <2>4. (Shared' <=> Shared) /\ \A b : Tag(b)' = Tag(b)
    BY <2>1 DEF Shared, Tag
  <2>5. \A a \in PE, b \in Side : /\ Received(a, b)' = Received(a, b)
                                  /\ \A n : MsgNo(a, b, n)' = MsgNo(a, b, n)
    BY <2>1, <2>4 DEF Received, MsgNo
  <2>6. \A a \in PE, b \in Side : RecvNo(a, b)' = RecvNo(a, b)
    BY <2>4, <2>5 DEF RecvNo, Side
  <2>7. \A a \in PE, b \in Side :
          Sent(a, b)' = IF a = p /\ b = s THEN Sent(a, b) + 1 ELSE Sent(a, b)
    <3>1. \A a \in PE, b \in Side : Posted(a, b)' <=> (Posted(a, b) \/ (a = p /\ b = s))
      BY <2>1 DEF Posted
    <3>2. ~Posted(p, s)
      BY <2>1 DEF Posted
    <3> QED
      BY <1>0, <2>1, <3>1, <3>2, SMT DEF Sent
  <2>8. \A a \in PE, b \in Side :
          SentNo(a, b)' = IF a = p /\ (b = s \/ Shared) THEN SentNo(a, b) + 1 ELSE SentNo(a, b)
    <3>1. \A a \in PE, b \in Side : Sent(a, b) \in Nat
      BY <1>0, Counts
    <3> QED
      BY <2>4, <2>7, <3>1, SMT DEF SentNo, Side
  <2>9. ASSUME NEW a \in PE, NEW b \in Side
        PROVE  QueueHolds(a, b)'
    <3>0. Neighbour(a, b) \in PE /\ Opp(b) \in Side /\ Tag(b) \in {0, 1} /\ QueueHolds(a, b)
      BY <1>0, <2>1, RingNeighbours DEF Tag, Queues
    <3>1. RecvNo(Neighbour(a, b), Opp(b))' = RecvNo(Neighbour(a, b), Opp(b))
      BY <2>6, <3>0
    <3>2. CASE a = p /\ (b = s \/ Shared)
      <4>1. Neighbour(a, b) = q /\ Tag(b) = Tag(s)
        BY <1>0, <2>1, <3>2, SameQueue
      <4>2. Queue(a, b)' = grown
        BY <2>3, <2>4, <3>0, <3>2, <4>1 DEF Queue
      <4>3. SentNo(a, b) = SentNo(p, s) /\ \A n : MsgNo(a, b, n) = MsgNo(p, s, n)
        BY <3>2 DEF SentNo, MsgNo
      <4>4. RecvNo(Neighbour(a, b), Opp(b)) = RecvNo(q, Opp(s))
        BY <3>2, <4>1 DEF RecvNo
      <4>5. Len(grown) \in Nat /\ RecvNo(q, Opp(s)) \in Nat
        <5>1. grown \in Seq(Boundary)
          BY <1>0, QueueIs, Shape
        <5> QED
          BY <1>0, <5>1, Counts
      <4>6. /\ Len(grown) = (SentNo(p, s) + 1) - RecvNo(q, Opp(s))
            /\ \A i \in 1 .. Len(grown) : grown[i] = MsgNo(p, s, RecvNo(q, Opp(s)) + i)
        <5> HIDE DEF grown, q
        <5> QED
          BY <2>1, <4>5, HoldsMeans
      <4>7. SentNo(a, b)' = SentNo(p, s) + 1
        BY <2>8, <3>2, <4>3
      <4> HIDE DEF grown, q
      <4> QED
        BY <2>5, <3>1, <4>2, <4>3, <4>4, <4>6, <4>7 DEF QueueHolds
    <3>3. CASE ~(a = p /\ (b = s \/ Shared))
      <4>1. ~(a = p /\ Neighbour(a, b) = q /\ Tag(b) = Tag(s))
        BY <1>0, <2>1, <3>3, SameQueue
      <4>2. Queue(a, b)' = Queue(a, b)
        BY <2>3, <2>4, <3>0, <4>1 DEF Queue
      <4>3. SentNo(a, b)' = SentNo(a, b)
        BY <2>8, <3>3
      <4> QED
        BY <2>5, <3>0, <3>1, <4>2, <4>3 DEF QueueHolds
    <3> QED
      BY <3>2, <3>3
  <2>10. \A a, r \in PE, t \in {0, 1} :
           (\A b \in Side : r # Neighbour(a, b) \/ t # Tag(b)) => chan'[a][r][t] = <<>>
    <3> SUFFICES ASSUME NEW a \in PE, NEW r \in PE, NEW t \in {0, 1},
                        \A b \in Side : r # Neighbour(a, b) \/ t # Tag(b)
                 PROVE  chan'[a][r][t] = <<>>
      OBVIOUS
    <3>1. chan[a][r][t] = <<>>
      BY <1>0 DEF Queues
    <3>2. ~(a = p /\ r = q /\ t = Tag(s))
      OBVIOUS
    <3> QED
      BY <2>3, <3>1, <3>2
  <2> HIDE DEF q, grown
  <2> QED
    <3>1. puts' = {}
      BY <1>0, <2>1 DEF Queues
    <3> QED
      BY <2>1, <2>4, <2>9, <2>10, <3>1 DEF Queues
<1>8. ASSUME NEW p \in PE, NEW s \in Side, Match(p, s)
      PROVE  Queues'
  <2> DEFINE q == Neighbour(p, s)
             o == Opp(s)
             rest == Tail(Queue(q, o))
  <2>1. /\ transport # "put" /\ recvReq[p][s] = "active"
        /\ recvReq' = [recvReq EXCEPT ![p][s] = "complete"]
        /\ \A r \in PE, t \in Side : sendReq'[r][t] \in {"sent", "complete"} <=> Posted(r, t)
        /\ Queue(q, o) \in Seq(Boundary)
        /\ Holds(rest, RecvNo(p, s) + 1, SentNo(q, o), Messages(q, o))
        /\ chan' = [chan EXCEPT ![q] = [chan[q] EXCEPT ![p] = [chan[q][p] EXCEPT ![Tag(o)] = rest]]]
        /\ UNCHANGED <<transport, round, puts>>
    BY <1>8, MatchMoves
  <2>2. q \in PE /\ o \in Side /\ Tag(o) \in {0, 1} /\ Opp(o) = s /\ Neighbour(q, o) = p
    BY RingNeighbours DEF Tag
  <2>3. \A a, r \in PE, t \in {0, 1} :
          chan'[a][r][t] = IF a = q /\ r = p /\ t = Tag(o) THEN rest ELSE chan[a][r][t]
    <3>1. chan' = WithChannel(q, p, Tag(o), rest)
      BY <2>1 DEF WithChannel
    <3>2. Types
      BY <1>0
    <3> HIDE DEF q, o, rest
    <3> QED
      BY <2>2, <3>1, <3>2, ChannelChanges
  <2>4. (Shared' <=> Shared) /\ \A b : Tag(b)' = Tag(b)
    BY <2>1 DEF Shared, Tag
  <2>5. \A a \in PE, b \in Side : /\ Sent(a, b)' = Sent(a, b)
                                  /\ \A n : MsgNo(a, b, n)' = MsgNo(a, b, n)
    BY <2>1, <2>4 DEF Sent, Posted, MsgNo
  <2>6. \A a \in PE, b \in Side : SentNo(a, b)' = SentNo(a, b)
    BY <2>4, <2>5 DEF SentNo, Side
  <2>7. \A a \in PE, b \in Side :
          Received(a, b)' = IF a = p /\ b = s THEN Received(a, b) + 1 ELSE Received(a, b)
    BY <1>0, <2>1, SMT DEF Received
  <2>8. \A a \in PE, b \in Side :
          RecvNo(a, b)' = IF a = p /\ (b = s \/ Shared) THEN RecvNo(a, b) + 1 ELSE RecvNo(a, b)
    <3>1. \A a \in PE, b \in Side : Received(a, b) \in Nat
      BY <1>0, Counts
    <3> QED
      BY <2>4, <2>7, <3>1, SMT DEF RecvNo, Side
  <2>9. ASSUME NEW a \in PE, NEW b \in Side
        PROVE  QueueHolds(a, b)'
    <3>0. Neighbour(a, b) \in PE /\ Opp(b) \in Side /\ Tag(b) \in {0, 1} /\ QueueHolds(a, b)
      BY <1>0, <2>1, RingNeighbours DEF Tag, Queues
    <3>1. CASE a = q /\ (b = o \/ Shared)
      <4>1. Neighbour(a, b) = p /\ Tag(b) = Tag(o)
        BY <1>0, <2>1, <2>2, <3>1, SameQueue
      <4>2. Queue(a, b)' = rest
        BY <2>2, <2>3, <2>4, <3>0, <3>1, <4>1 DEF Queue
      <4>3. SentNo(a, b)' = SentNo(q, o) /\ \A n : MsgNo(a, b, n) = MsgNo(q, o, n)
        BY <2>6, <3>1 DEF SentNo, MsgNo
      <4>4. RecvNo(Neighbour(a, b), Opp(b))' = RecvNo(p, s) + 1
        <5>1. Opp(b) = s \/ Shared
          BY <2>2, <3>1
        <5>2. RecvNo(p, Opp(b)) = RecvNo(p, s)
          BY <5>1 DEF RecvNo
        <5> QED
          BY <2>8, <3>0, <4>1, <5>1, <5>2
      <4>5. Len(rest) \in Nat /\ RecvNo(p, s) + 1 \in Nat
        <5>1. RecvNo(p, s) \in Nat
          BY <1>0, Counts
        <5>2. Queue(q, o) # <<>>
          BY <1>8, <2>2 DEF Match, Queue
        <5>3. rest \in Seq(Boundary)
          BY <2>1, <5>2
        <5> HIDE DEF rest
        <5>4. Len(rest) \in Nat
          BY <5>3
        <5> QED
          BY <5>1, <5>4, SMT
      <4> HIDE DEF q, o, rest
      <4>6. /\ Len(rest) = SentNo(q, o) - (RecvNo(p, s) + 1)
            /\ \A i \in 1 .. Len(rest) : rest[i] = MsgNo(q, o, (RecvNo(p, s) + 1) + i)
        BY <2>1, <4>5, HoldsMeans
      <4> QED
        BY <2>5, <4>2, <4>3, <4>4, <4>6 DEF QueueHolds
    <3>2. CASE ~(a = q /\ (b = o \/ Shared))
      <4>1. ~(a = q /\ Neighbour(a, b) = p /\ Tag(b) = Tag(o))
        BY <1>0, <2>1, <2>2, <3>2, SameQueue
      <4>2. Queue(a, b)' = Queue(a, b)
        BY <2>3, <2>4, <3>0, <4>1 DEF Queue
      <4>3. RecvNo(Neighbour(a, b), Opp(b))' = RecvNo(Neighbour(a, b), Opp(b))
        <5>1. ~(Neighbour(a, b) = p /\ (Opp(b) = s \/ Shared))
          <6>1. SUFFICES ASSUME Neighbour(a, b) = p, Opp(b) = s \/ Shared
                         PROVE  FALSE
            OBVIOUS
          <6>2. Neighbour(p, Opp(b)) = a /\ Opp(Opp(b)) = b
            BY <6>1, RingNeighbours
          <6>3. Neighbour(p, Opp(b)) = q
            BY <1>0, <2>1, <3>0, <6>1, SameQueue
          <6>4. Opp(b) = s => b = o
            BY <6>2
          <6> QED
            BY <3>2, <6>1, <6>2, <6>3, <6>4
        <5> QED
          BY <2>8, <3>0, <5>1
      <4> QED
        BY <2>5, <2>6, <3>0, <4>2, <4>3 DEF QueueHolds
    <3> QED
      BY <3>1, <3>2
  <2>10. \A a, r \in PE, t \in {0, 1} :
           (\A b \in Side : r # Neighbour(a, b) \/ t # Tag(b)) => chan'[a][r][t] = <<>>
    <3> SUFFICES ASSUME NEW a \in PE, NEW r \in PE, NEW t \in {0, 1},
                        \A b \in Side : r # Neighbour(a, b) \/ t # Tag(b)
                 PROVE  chan'[a][r][t] = <<>>
      OBVIOUS
    <3>1. chan[a][r][t] = <<>>
      BY <1>0 DEF Queues
    <3>2. ~(a = q /\ r = p /\ t = Tag(o))
      BY <2>2
    <3> HIDE DEF q, o, rest
    <3> QED
      BY <2>3, <3>1, <3>2
  <2> HIDE DEF q, o, rest
  <2> QED
    <3>1. puts' = {}
      BY <1>0, <2>1 DEF Queues
    <3> QED
      BY <2>1, <2>4, <2>9, <2>10, <3>1 DEF Queues
<1>9. ASSUME \/ UNCHANGED vars \/ Barrier \/ Verdict
             \/ \E p \in PE : Wait(p) \/ Quiet(p) \/ PoisonHalos(p) \/ Validate(p)
      PROVE  Queues'
  BY <1>1, <1>9 DEF vars, Barrier, Verdict, Wait, Quiet, PoisonHalos, Validate
<1> QED
  BY <1>2, <1>3, <1>4, <1>5, <1>6, <1>7, <1>8, <1>9 DEF Next, RankStep, Progress

-----------------------------------------------------------------------------
(* What the halos hold.                                                    *)

LEMMA HalosStep ==
  ASSUME IInv, [Next]_vars
  PROVE  Halos'
<1> USE DEF loopVars, okVars, countVars, wireVars
<1>0. /\ Types /\ Requests /\ Queues /\ Halos /\ \A p \in PE : Stage(p)
      /\ \A p \in PE : {issued[p], it[p], round[p]} \subseteq Nat
      /\ host \in [PE -> HostPC] /\ {issued, it, round} \subseteq [PE -> Nat]
      /\ sendReq \in [PE -> [Side -> ReqState]]
      /\ recvReq \in [PE -> [Side -> ReqState \ {"sent"}]]
      /\ recv \in [PE -> [Side -> Boundary]]
  BY DEF IInv, Stages, Types
<1>1. SUFFICES ASSUME transport # "put", transport' # "put"
               PROVE  Halos'
  <2>1. transport' = transport
    BY TransportKept
  <2> QED
    BY <2>1 DEF Halos
<1>2. /\ \A p \in PE : host[p] # "arrived"
      /\ puts = {}
      /\ \A p \in PE : host[p] \notin {"body", "wait"} => issued[p] = 0 /\ it[p] = 0
  <2>1. \A p \in PE : host[p] # "arrived" /\ it[p] <= issued[p] /\ (~InBatch(p) => issued[p] = 0)
    BY <1>0, <1>1 DEF Stage
  <2>2. \A p \in PE : host[p] \notin {"body", "wait"} => issued[p] = 0 /\ it[p] = 0
    BY <1>0, <2>1, SMT DEF InBatch
  <2> QED
    BY <1>0, <1>1, <2>1, <2>2 DEF Queues
<1>3. \A p \in PE, s \in Side :
        /\ recvReq[p][s] = "complete" => recv[p][s] = Expected(p, s, round[p] + 1)
        /\ recvReq[p][s] # "complete" /\ (it[p] > 0 \/ host[p] = "after") =>
             recv[p][s] = Expected(p, s, round[p])
  BY <1>0, <1>1 DEF Halos
<1>4. ASSUME NEW p \in PE, Issue(p)
      PROVE  Halos'
  <2>1. /\ host[p] = "body" /\ host'[p] \in {"body", "wait"}
        /\ \A q \in PE \ {p} : host'[q] = host[q]
        /\ UNCHANGED <<it, round, recvReq, recv>>
    BY <1>0, <1>4 DEF Issue
  <2> QED
    BY <1>3, <2>1 DEF Halos, Expected
<1>5. ASSUME NEW p \in PE, Begin(p)
      PROVE  Halos'
  <2>1. /\ \A s \in Side : recvReq[p][s] = "inactive" /\ recvReq'[p][s] = "active"
        /\ \A q \in PE \ {p} : recvReq'[q] = recvReq[q]
        /\ UNCHANGED <<host, it, round, recv>>
    BY <1>0, <1>5 DEF Begin
  <2> QED
    BY <1>3, <2>1 DEF Halos, Expected
<1>6. ASSUME NEW p \in PE, NEW s \in Side, Match(p, s)
      PROVE  Halos'
  <2>1. /\ recv' = [recv EXCEPT ![p][s] = Expected(p, s, round[p] + 1)]
        /\ recvReq' = [recvReq EXCEPT ![p][s] = "complete"]
        /\ UNCHANGED <<host, it, round>>
    BY <1>6, MatchMoves
  <2>2. \A q \in PE, t \in Side :
          /\ recv'[q][t] = IF q = p /\ t = s THEN Expected(p, s, round[p] + 1) ELSE recv[q][t]
          /\ recvReq'[q][t] = IF q = p /\ t = s THEN "complete" ELSE recvReq[q][t]
    BY <1>0, <2>1
  <2> QED
    BY <1>3, <2>1, <2>2 DEF Halos, Expected
<1>7. ASSUME NEW p \in PE, EndExchange(p)
      PROVE  Halos'
  <2>1. /\ \A s \in Side : recvReq[p][s] = "complete" /\ recvReq'[p][s] = "inactive"
        /\ \A q \in PE \ {p} : recvReq'[q] = recvReq[q] /\ round'[q] = round[q] /\ it'[q] = it[q]
        /\ round'[p] = round[p] + 1
        /\ UNCHANGED <<host, recv>>
    BY <1>0, <1>7 DEF EndExchange
  <2>2. \A s \in Side : recv[p][s] = Expected(p, s, round'[p])
    BY <1>3, <2>1
  <2> QED
    BY <1>3, <2>1, <2>2 DEF Halos, Expected
<1>8. ASSUME NEW p \in PE, Wait(p)
      PROVE  Halos'
  <2>1. /\ host[p] = "wait" /\ it[p] = issued[p] /\ UNCHANGED <<round, recvReq, recv>>
        /\ \A q \in PE \ {p} : host'[q] = host[q] /\ it'[q] = it[q]
    BY <1>0, <1>8 DEF Wait, EndBatch
  <2>2. \A s \in Side : recvReq[p][s] = "inactive"
    BY <1>0, <2>1 DEF Requests
  <2>3. it[p] > 0
    BY <1>0, <2>1 DEF Stage
  <2>4. \A s \in Side : recv[p][s] = Expected(p, s, round[p])
    BY <1>3, <2>2, <2>3
  <2> QED
    BY <1>3, <2>1, <2>2, <2>4 DEF Halos, Expected
<1>9. ASSUME NEW p \in PE, PoisonHalos(p)
      PROVE  Halos'
  <2>1. /\ host[p] = "before" /\ host'[p] = "aligned" /\ UNCHANGED <<it, round, recvReq>>
        /\ \A q \in PE \ {p} : host'[q] = host[q] /\ recv'[q] = recv[q]
    BY <1>0, <1>9 DEF PoisonHalos
  <2>2. it[p] = 0 /\ it[p] = issued[p]
    BY <1>2, <2>1
  <2>3. \A s \in Side : recvReq[p][s] = "inactive"
    BY <1>0, <2>2 DEF Requests
  <2> QED
    BY <1>3, <2>1, <2>2, <2>3 DEF Halos, Expected
<1>10. ASSUME NEW p \in PE, Validate(p)
       PROVE  Halos'
  <2>1. /\ host[p] = "after" /\ host'[p] # "after" /\ UNCHANGED <<it, round, recvReq, recv>>
        /\ \A q \in PE \ {p} : host'[q] = host[q]
    BY <1>0, <1>10 DEF Validate
  <2> QED
    BY <1>3, <2>1 DEF Halos, Expected
<1>11. CASE Barrier \/ Verdict
  <2>1. /\ \A p \in PE : host'[p] # "after"
        /\ UNCHANGED <<it, round, recvReq, recv>>
    BY <1>11 DEF Barrier, Verdict
  <2> QED
    BY <1>3, <2>1 DEF Halos, Expected
<1>12. CASE UNCHANGED vars \/ \E p \in PE, s \in Side : Inject(p, s)
  <2>1. UNCHANGED <<host, it, round, recvReq, recv>>
    BY <1>12 DEF Inject, vars
  <2> QED
    BY <1>3, <2>1 DEF Halos, Expected
<1>13. /\ \A p \in PE : ~Quiet(p) /\ ~LeaveBatch(p)
       /\ ~ \E m \in puts : Deliver(m)
  BY <1>1, <1>2 DEF Quiet, LeaveBatch
<1> QED
  BY <1>4, <1>5, <1>6, <1>7, <1>8, <1>9, <1>10, <1>11, <1>12, <1>13 DEF Next, RankStep, Progress

(* PutsLanded, of one halo.                                                *)
Landed(p, s) ==
  LET q == Neighbour(p, s)
  IN  /\ Putting(q) /\ issued[q] > 0 =>
           \/ recv[p][s] = Expected(p, s, round[p] + 1)
           \/ \E m \in puts : m.of.src = q /\ m.of.end = Opp(s)
      /\ InBatch(p) /\ ~Putting(q) => recv[p][s] = Expected(p, s, round[p] + 1)
      /\ host[p] = "after" => recv[p][s] = Expected(p, s, round[p])

LEMMA PutsStep ==
  ASSUME IInv, [Next]_vars
  PROVE  PutsLanded'
<1> USE DEF loopVars, okVars, countVars, wireVars
<1>0. /\ Types /\ SameBatch /\ Requests /\ Queues /\ PutsLanded /\ \A p \in PE : Stage(p)
      /\ \A p \in PE : {issued[p], it[p], round[p]} \subseteq Nat
      /\ host \in [PE -> HostPC] /\ {issued, it, round} \subseteq [PE -> Nat]
      /\ recv \in [PE -> [Side -> Boundary]]
      /\ \A m \in puts : m.of.src \in PE /\ m.of.end \in Side
  <2>1. Types /\ SameBatch /\ Requests /\ Queues /\ PutsLanded /\ \A p \in PE : Stage(p)
    BY DEF IInv, Stages
  <2>2. \A m \in puts : m.of \in Boundary
    BY <2>1 DEF Types, Put
  <2>3. \A m \in puts : m.of.src \in PE /\ m.of.end \in Side
    BY <2>2 DEF Boundary
  <2> QED
    BY <2>1, <2>3 DEF Types
<1>1. SUFFICES ASSUME transport = "put", transport' = "put"
               PROVE  PutsLanded'
  <2>1. transport' = transport
    BY TransportKept
  <2> QED
    BY <2>1 DEF PutsLanded
<1>2. /\ \A m \in puts : Putting(m.of.src) /\ m.of.round = round[m.of.src] + 1
      /\ \A p, q \in PE : Putting(p) => InBatch(q)
      /\ \A p \in PE, s \in Side : Landed(p, s)
  BY <1>0, <1>1 DEF PutsLanded, Landed
<1>3. SUFFICES /\ \A m \in puts' : Putting(m.of.src)' /\ m.of.round = round'[m.of.src] + 1
               /\ \A p, q \in PE : Putting(p)' => InBatch(q)'
               /\ \A p \in PE, s \in Side : Landed(p, s)'
  BY DEF PutsLanded, Landed
<1>4. \A p \in PE, s \in Side : Neighbour(p, s) \in PE /\ Opp(s) \in Side
  BY RingNeighbours
<1>5. ASSUME NEW p \in PE, Issue(p)
      PROVE  <1>3!1
  <2> DEFINE added == {[of |-> Mine(p, s), nth |-> issued[p] + 1] : s \in Side}
  <2>1. /\ host[p] = "body" /\ host'[p] \in {"body", "wait"} /\ issued'[p] = issued[p] + 1
        /\ \A q \in PE \ {p} : host'[q] = host[q] /\ issued'[q] = issued[q]
        /\ puts' = puts \cup added
        /\ UNCHANGED <<round, recv>>
    BY <1>0, <1>1, <1>5 DEF Issue
  <2>2. \A q \in PE : Putting(q)' = Putting(q) /\ InBatch(q)' = InBatch(q)
                      /\ (host'[q] = "after" <=> host[q] = "after")
    BY <2>1 DEF Putting, InBatch
  <2>3. \A m \in added : Putting(p) /\ m.of.src = p /\ m.of.round = round[p] + 1
    BY <2>1 DEF Mine, Putting
  <2>4. ASSUME NEW s \in Side
        PROVE  \E m \in puts' : m.of.src = p /\ m.of.end = s
    <3> DEFINE m == [of |-> Mine(p, s), nth |-> issued[p] + 1]
    <3>1. m \in puts' /\ m.of.src = p /\ m.of.end = s
      BY <2>1 DEF Mine
    <3> HIDE DEF m
    <3> QED
      BY <3>1
  <2>5. \A m \in puts' : Putting(m.of.src)' /\ m.of.round = round'[m.of.src] + 1
    BY <1>0, <1>2, <2>1, <2>2, <2>3
  <2>6. ASSUME NEW q \in PE, NEW s \in Side
        PROVE  Landed(q, s)'
    <3>1. Landed(q, s) /\ Neighbour(q, s) \in PE /\ Opp(s) \in Side /\ puts \subseteq puts'
      BY <1>2, <1>4, <2>1
    <3>2. CASE Neighbour(q, s) = p
      BY <2>1, <2>2, <2>4, <3>1, <3>2 DEF Landed, Expected
    <3>3. CASE Neighbour(q, s) # p
      BY <2>1, <2>2, <3>1, <3>3 DEF Landed, Expected
    <3> QED
      BY <3>2, <3>3
  <2> QED
    BY <1>2, <2>2, <2>5, <2>6
<1>6. ASSUME NEW m \in puts, Deliver(m)
      PROVE  <1>3!1
  <2> DEFINE a == m.of.src
             e == m.of.end
             b == Neighbour(a, e)
  <2>1. a \in PE /\ e \in Side /\ b \in PE /\ Opp(e) \in Side /\ Neighbour(b, Opp(e)) = a /\ Opp(Opp(e)) = e
    BY <1>0, RingNeighbours
  <2>2. /\ puts' = puts \ {m}
        /\ recv' = [recv EXCEPT ![b] = [recv[b] EXCEPT ![Opp(e)] = m.of]]
        /\ UNCHANGED <<host, issued, round>>
    BY <1>6 DEF Deliver
  <2>3. \A p \in PE : Putting(p)' = Putting(p) /\ InBatch(p)' = InBatch(p)
    BY <2>2 DEF Putting, InBatch
  <2>4. \A p \in PE, s \in Side : recv'[p][s] = IF p = b /\ s = Opp(e) THEN m.of ELSE recv[p][s]
    <3> HIDE DEF a, b, e
    <3> QED
      BY <1>0, <2>1, <2>2
  <2>5. Putting(a) /\ InBatch(b) /\ InBatch(a) /\ m.of.round = round[a] + 1
    BY <1>2, <2>1
  <2>6. round[a] = round[b]
    <3>1. EndRound(a) = round[a] + 1 /\ EndRound(b) = round[b] + 1 /\ EndRound(a) = EndRound(b)
      BY <1>0, <1>1, <2>1, <2>5 DEF EndRound, SameBatch
    <3>2. round[a] \in Nat /\ round[b] \in Nat
      BY <1>0, <2>1
    <3> HIDE DEF a, b, e
    <3> QED
      BY <3>1, <3>2, SMT
  <2>7. m.of = Expected(b, Opp(e), round[b] + 1)
    <3>1. m.of \in Boundary
      BY <1>0 DEF Types, Put
    <3>2. m.of = [src |-> m.of.src, end |-> m.of.end, round |-> m.of.round]
      BY <3>1 DEF Boundary
    <3> QED
      BY <2>1, <2>5, <2>6, <3>2 DEF Expected
  <2>8. ASSUME NEW p \in PE, NEW s \in Side
        PROVE  Landed(p, s)'
    <3>1. Landed(p, s) /\ Neighbour(p, s) \in PE
      BY <1>2, <1>4
    <3>2. CASE p = b /\ s = Opp(e)
      <4>1. recv'[p][s] = Expected(p, s, round[p] + 1) /\ host[p] # "after"
        BY <2>4, <2>5, <2>7, <3>2 DEF InBatch
      <4>2. recv'[p][s] = Expected(p, s, round'[p] + 1) /\ host'[p] # "after"
        BY <2>2, <4>1
      <4> QED
        BY <4>2 DEF Landed, Expected
    <3>3. CASE ~(p = b /\ s = Opp(e))
      <4>1. recv'[p][s] = recv[p][s]
        BY <2>4, <3>3
      <4>2. ~(a = Neighbour(p, s) /\ e = Opp(s))
        <5>1. Neighbour(Neighbour(p, s), Opp(s)) = p /\ Opp(Opp(s)) = s
          BY RingNeighbours
        <5> QED
          BY <3>3, <5>1
      <4>3. \A x \in puts : x.of.src = Neighbour(p, s) /\ x.of.end = Opp(s) => x \in puts'
        BY <2>2, <4>2
      <4> HIDE DEF a, b, e
      <4> QED
        BY <2>2, <2>3, <3>1, <4>1, <4>3 DEF Landed, Expected
    <3> QED
      BY <3>2, <3>3
  <2>9. \A x \in puts' : Putting(x.of.src)' /\ x.of.round = round'[x.of.src] + 1
    BY <1>0, <1>2, <2>2, <2>3
  <2> QED
    BY <1>2, <2>3, <2>8, <2>9
<1>7. ASSUME NEW p \in PE, Quiet(p)
      PROVE  <1>3!1
  <2>1. /\ host[p] = "wait" /\ host'[p] = "arrived" /\ \A m \in puts : m.of.src # p
        /\ \A q \in PE \ {p} : host'[q] = host[q]
        /\ UNCHANGED <<round, recv, issued, puts>>
    BY <1>0, <1>7 DEF Quiet
  <2>2. \A q \in PE : /\ InBatch(q)' = InBatch(q)
                      /\ (Putting(q)' <=> (Putting(q) /\ q # p))
                      /\ (host'[q] = "after" <=> host[q] = "after")
    BY <2>1 DEF Putting, InBatch
  <2>3. Putting(p) /\ issued[p] > 0
    BY <1>0, <2>1 DEF Putting, Stage
  <2>4. ASSUME NEW q \in PE, NEW s \in Side
        PROVE  Landed(q, s)'
    <3>1. Landed(q, s) /\ Neighbour(q, s) \in PE
      BY <1>2, <1>4
    <3>2. CASE Neighbour(q, s) = p
      <4>1. recv[q][s] = Expected(q, s, round[q] + 1)
        BY <2>1, <2>3, <3>1, <3>2 DEF Landed
      <4> QED
        BY <2>1, <2>2, <3>1, <3>2, <4>1 DEF Landed, Expected
    <3>3. CASE Neighbour(q, s) # p
      BY <2>1, <2>2, <3>1, <3>3 DEF Landed, Expected
    <3> QED
      BY <3>2, <3>3
  <2> QED
    BY <1>0, <1>2, <2>1, <2>2, <2>4
<1>8. ASSUME NEW p \in PE, LeaveBatch(p)
      PROVE  <1>3!1
  <2>1. /\ host[p] = "arrived" /\ host'[p] \in {"before", "after"} /\ round'[p] = round[p] + 1
        /\ \A q \in PE : host[q] = "arrived" \/ round[q] > round[p]
        /\ \A q \in PE \ {p} : host'[q] = host[q] /\ round'[q] = round[q] /\ issued'[q] = issued[q]
        /\ UNCHANGED <<recv, puts>>
    BY <1>0, <1>8 DEF LeaveBatch, EndBatch
  <2>2. \A q \in PE : ~Putting(q)
    <3> SUFFICES ASSUME NEW q \in PE, Putting(q)
                 PROVE  FALSE
      OBVIOUS
    <3>1. InBatch(q) /\ InBatch(p) /\ host[q] # "arrived"
      BY <2>1 DEF Putting, InBatch
    <3>2. EndRound(q) = round[q] + 1 /\ EndRound(p) = round[p] + 1 /\ EndRound(p) = EndRound(q)
      BY <1>0, <1>1, <3>1 DEF EndRound, SameBatch
    <3>3. round[q] > round[p]
      BY <2>1, <3>1
    <3> QED
      BY <1>0, <3>2, <3>3, SMT
  <2>3. puts' = {}
    BY <1>0, <1>2, <2>1, <2>2
  <2>4. \A q \in PE : ~Putting(q)'
    BY <2>1, <2>2 DEF Putting
  <2>5. ASSUME NEW q \in PE, NEW s \in Side
        PROVE  Landed(q, s)'
    <3>1. Landed(q, s) /\ Neighbour(q, s) \in PE
      BY <1>2, <1>4
    <3>2. CASE q = p
      <4>1. recv[p][s] = Expected(p, s, round[p] + 1)
        BY <2>1, <2>2, <3>1, <3>2 DEF Landed, InBatch
      <4> QED
        BY <2>1, <2>4, <3>1, <3>2, <4>1 DEF Landed, Expected, InBatch
    <3>3. CASE q # p
      <4>1. InBatch(q)' = InBatch(q)
        BY <2>1, <3>3 DEF InBatch
      <4> QED
        BY <2>1, <2>2, <2>4, <3>1, <3>3, <4>1 DEF Landed, Expected
    <3> QED
      BY <3>2, <3>3
  <2> QED
    BY <2>3, <2>4, <2>5
<1>9. ASSUME NEW p \in PE, PoisonHalos(p)
      PROVE  <1>3!1
  <2>1. /\ host[p] = "before" /\ host'[p] = "aligned"
        /\ \A q \in PE \ {p} : host'[q] = host[q] /\ recv'[q] = recv[q]
        /\ UNCHANGED <<round, issued, puts>>
    BY <1>0, <1>9 DEF PoisonHalos
  <2>2. \A q \in PE : /\ InBatch(q)' = InBatch(q) /\ Putting(q)' = Putting(q)
                      /\ (host'[q] = "after" <=> host[q] = "after")
    BY <2>1 DEF Putting, InBatch
  <2>3. ~InBatch(p) /\ \A q \in PE : ~Putting(q)
    BY <1>2, <2>1 DEF InBatch
  <2>4. ASSUME NEW q \in PE, NEW s \in Side
        PROVE  Landed(q, s)'
    <3>1. Landed(q, s) /\ Neighbour(q, s) \in PE
      BY <1>2, <1>4
    <3>2. CASE q = p
      BY <2>1, <2>2, <2>3, <3>1, <3>2 DEF Landed
    <3>3. CASE q # p
      BY <2>1, <2>2, <2>3, <3>1, <3>3 DEF Landed, Expected
    <3> QED
      BY <3>2, <3>3
  <2> QED
    BY <1>0, <1>2, <2>1, <2>2, <2>4
<1>10. CASE Barrier
  <2>1. /\ \A p \in PE : host[p] = "aligned" /\ host'[p] = "body"
        /\ UNCHANGED <<round, issued, puts, recv>>
    BY <1>10 DEF Barrier
  <2>2. \A p \in PE : ~Putting(p) /\ issued[p] = 0 /\ Putting(p)' /\ InBatch(p)'
    BY <1>0, <2>1 DEF Putting, InBatch, Stage
  <2>3. puts' = {}
    BY <1>0, <1>2, <2>1, <2>2
  <2>4. \A p \in PE, s \in Side : Landed(p, s)'
    BY <1>4, <2>1, <2>2 DEF Landed
  <2> QED
    BY <2>2, <2>3, <2>4
<1>11. ASSUME NEW p \in PE, Validate(p)
       PROVE  <1>3!1
  <2>1. /\ host[p] = "after" /\ host'[p] \in {"before", "verdict"}
        /\ \A q \in PE \ {p} : host'[q] = host[q]
        /\ UNCHANGED <<round, issued, puts, recv>>
    BY <1>0, <1>11 DEF Validate
  <2>2. \A q \in PE : /\ InBatch(q)' = InBatch(q) /\ Putting(q)' = Putting(q)
                      /\ (host'[q] = "after" => host[q] = "after")
    BY <2>1 DEF Putting, InBatch
  <2>3. \A q \in PE, s \in Side : Landed(q, s)'
    BY <1>2, <1>4, <2>1, <2>2 DEF Landed, Expected
  <2> QED
    BY <1>0, <1>2, <2>1, <2>2, <2>3
<1>12. CASE Verdict
  <2>1. /\ \A p \in PE : host[p] = "verdict" /\ host'[p] \in {"before", "exit"}
        /\ UNCHANGED <<round, issued, puts, recv>>
    BY <1>12 DEF Verdict
  <2>2. \A p \in PE : ~Putting(p) /\ ~Putting(p)' /\ ~InBatch(p)' /\ host'[p] # "after"
    BY <2>1 DEF Putting, InBatch
  <2>3. puts' = {}
    BY <1>0, <1>2, <2>1, <2>2
  <2>4. \A p \in PE, s \in Side : Landed(p, s)'
    BY <1>4, <2>2 DEF Landed
  <2> QED
    BY <2>2, <2>3, <2>4
<1>13. CASE UNCHANGED vars
  BY <1>2, <1>13 DEF vars, Putting, InBatch, Landed, Expected
<1>14. \A p \in PE : /\ ~Wait(p) /\ ~Begin(p) /\ ~EndExchange(p)
                     /\ \A s \in Side : ~Inject(p, s) /\ ~Match(p, s)
  BY <1>0, <1>1, PutsOnly
<1> QED
  BY <1>5, <1>6, <1>7, <1>8, <1>9, <1>10, <1>11, <1>12, <1>13, <1>14 DEF Next, RankStep, Progress

-----------------------------------------------------------------------------
(* The theorems.                                                           *)

(* All of it is kept together: the barriers keep the ranks in one batch,   *)
(* so a queue's contents are told by the counts of its two ends.           *)
THEOREM Inductive == Spec => []IInv
<1>1. IInv /\ [Next]_vars => IInv'
  <2>1. IInv /\ [Next]_vars => Types'
    BY TypesStep DEF IInv
  <2> QED
    BY <2>1, LoopStep, RequestsStep, QueuesStep, HalosStep, PutsStep DEF IInv
<1> QED
  BY <1>1, InvInit, PTL DEF Spec

(* The state has its types, with every count within its batch.             *)
THEOREM TypeCorrect == Spec => []TypeOK
<1>1. IInv => TypeOK
  <2> SUFFICES ASSUME IInv
               PROVE  TypeOK
    OBVIOUS
  <2>1. Types /\ \A p \in PE : Stage(p)
    BY DEF IInv, Stages
  <2>2. ASSUME NEW p \in PE
        PROVE  /\ batch[p] \in 0 .. Samples(bench[p])
               /\ it[p] \in 0 .. issued[p] /\ issued[p] \in 0 .. BatchLen(p)
    <3>1. /\ batch[p] <= Samples(bench[p]) /\ it[p] <= issued[p] /\ issued[p] <= BatchLen(p)
      BY <2>1 DEF Stage
    <3>2. {batch[p], issued[p], it[p], BatchLen(p), Samples(bench[p])} \subseteq Nat
      BY <2>1, Shape
    <3> QED
      BY <3>1, <3>2, SMT
  <2>3. round \in [PE -> Nat] /\ ok \in [PE -> BOOLEAN] /\ all_ok \in [PE -> BOOLEAN]
    BY <2>1 DEF Types
  <2>4. \A p, q \in PE, t \in {0, 1} : chan[p][q][t] \in Seq(Boundary)
    <3>1. chan \in [PE -> [PE -> [{0, 1} -> Seq(Boundary)]]]
      BY <2>1 DEF Types
    <3> QED
      BY <3>1
  <2> QED
    BY <2>1, <2>2, <2>3, <2>4 DEF Types, TypeOK
<1> QED
  BY <1>1, Inductive, PTL

(* An idle request belongs to a rank that has seen all it issued end.      *)
LEMMA OutsideBatch ==
  ASSUME IInv, NEW p \in PE, ~InBatch(p)
  PROVE  it[p] = 0 /\ issued[p] = 0
<1>1. Types /\ Stage(p)
  BY DEF IInv, Stages
<1>2. issued[p] = 0 /\ it[p] \in Nat /\ it[p] <= 0
  BY <1>1, Shape DEF Stage
<1> QED
  BY <1>2, SMT

(* With one rank ahead of the other, with both messages of a ring of two   *)
(* from one neighbour, with puts in any order: what a halo holds once the  *)
(* host has waited is the boundary that faces it, of the round it has just *)
(* completed.                                                              *)
THEOREM HaloFacesNeighbourHolds == Spec => []HaloFacesNeighbour
<1>1. IInv => HaloFacesNeighbour
  <2> SUFFICES ASSUME IInv, NEW p \in PE, NEW s \in Side,
                      host[p] = "after" \/ (host[p] = "body" /\ it[p] = issued[p] /\ it[p] > 0)
               PROVE  recv[p][s] = Expected(p, s, round[p])
    BY DEF HaloFacesNeighbour
  <2>1. it[p] = issued[p] /\ (it[p] > 0 \/ host[p] = "after")
    BY OutsideBatch DEF InBatch
  <2>2. CASE transport = "put"
    <3>1. it[p] = 0
      BY <2>2 DEF IInv, Stages, Stage
    <3>2. host[p] = "after"
      BY <2>1, <3>1
    <3> QED
      BY <2>2, <3>2 DEF IInv, PutsLanded
  <2>3. CASE transport # "put"
    <3>1. recvReq[p][s] # "complete"
      BY <2>1 DEF IInv, Requests
    <3> QED
      BY <2>1, <2>3, <3>1 DEF IInv, Halos
  <2> QED
    BY <2>2, <2>3
<1> QED
  BY <1>1, Inductive, PTL

(* Nobody sends beyond the batch it is in.                                 *)
LEMMA SentInBatch ==
  ASSUME IInv, transport # "put", NEW p \in PE, NEW s \in Side
  PROVE  Sent(p, s) <= EndRound(p)
<1>0. Types /\ Stage(p) /\ Requests
  BY DEF IInv, Stages
<1>1. /\ {issued[p], it[p], round[p], BatchLen(p)} \subseteq Nat
      /\ it[p] <= issued[p] /\ issued[p] <= BatchLen(p)
  BY <1>0, Shape DEF Stage
<1>2. CASE Posted(p, s)
  <2>1. it[p] # issued[p]
    BY <1>0, <1>2 DEF Posted, Requests
  <2>2. InBatch(p)
    BY <2>1, OutsideBatch
  <2>3. EndRound(p) = round[p] + (BatchLen(p) - it[p])
    BY <2>2 DEF EndRound
  <2>4. Sent(p, s) = round[p] + 1
    BY <1>2 DEF Sent
  <2> QED
    BY <1>1, <2>1, <2>3, <2>4, SMT
<1>3. CASE ~Posted(p, s)
  <2>1. Sent(p, s) = round[p]
    BY <1>1, <1>3, SMT DEF Sent
  <2>2. EndRound(p) = round[p] \/ EndRound(p) = round[p] + (BatchLen(p) - it[p])
    BY DEF EndRound
  <2> QED
    BY <1>1, <2>1, <2>2, SMT
<1> QED
  BY <1>2, <1>3

(* While a rank clears or reads its halos, nothing is on its way to it.    *)
THEOREM BatchesSeparateHolds == Spec => []BatchesSeparate
<1>1. IInv => BatchesSeparate
  <2> SUFFICES ASSUME IInv, NEW p \in PE,
                      host[p] \in {"before", "aligned", "after", "verdict", "exit"}
               PROVE  /\ \A q \in PE, t \in {0, 1} : chan[q][p][t] = <<>>
                      /\ \A m \in puts : Neighbour(m.of.src, m.of.end) # p
                      /\ \A s \in Side : sendReq[p][s] = "inactive" /\ recvReq[p][s] = "inactive"
    BY DEF BatchesSeparate
  <2>0. Types /\ SameBatch /\ Requests /\ Queues /\ PutsLanded
    BY DEF IInv
  <2>1. ~InBatch(p) /\ it[p] = issued[p]
    BY OutsideBatch DEF InBatch
  <2>2. \A s \in Side : sendReq[p][s] = "inactive" /\ recvReq[p][s] = "inactive"
    BY <2>0, <2>1 DEF Requests
  <2>3. ASSUME NEW m \in puts
        PROVE  Neighbour(m.of.src, m.of.end) # p
    <3>1. m.of \in Boundary
      BY <2>0 DEF Types, Put
    <3>2. transport = "put" /\ m.of.src \in PE
      BY <2>0, <3>1 DEF Queues, Boundary
    <3>3. Putting(m.of.src) /\ \A q, r \in PE : Putting(q) => InBatch(r)
      BY <2>0, <3>2 DEF PutsLanded
    <3> QED
      BY <2>1, <3>2, <3>3
  <2>4. ASSUME NEW q \in PE, NEW t \in {0, 1}
        PROVE  chan[q][p][t] = <<>>
    <3>1. CASE transport = "put" \/ \A s \in Side : p # Neighbour(q, s) \/ t # Tag(s)
      BY <2>0, <3>1 DEF Queues
    <3>2. ASSUME transport # "put", NEW s \in Side, p = Neighbour(q, s), t = Tag(s)
          PROVE  chan[q][p][t] = <<>>
      <4>1. QueueHolds(q, s) /\ Queue(q, s) \in Seq(Boundary) /\ Queue(q, s) = chan[q][p][t]
        BY <2>0, <3>2, QueueIs DEF Queues, Queue
      <4>2. Len(Queue(q, s)) = SentNo(q, s) - RecvNo(p, Opp(s))
        BY <3>2, <4>1 DEF QueueHolds
      <4>3. EndRound(q) = round[p]
        BY <2>0, <2>1 DEF SameBatch, EndRound
      <4>4. round[p] \in Nat /\ \A u \in Side : Received(p, u) = round[p]
        <5>1. round[p] \in Nat
          BY <2>0, Shape
        <5>2. round[p] + 0 = round[p]
          BY <5>1, SMT
        <5> QED
          BY <2>2, <5>1, <5>2 DEF Received
      <4>5. \A u \in Side : Sent(q, u) \in Nat /\ Sent(q, u) <= round[p]
        BY <2>0, <3>2, <4>3, Counts, SentInBatch
      <4>6. SentNo(q, s) <= RecvNo(p, Opp(s)) /\ SentNo(q, s) \in Nat /\ RecvNo(p, Opp(s)) \in Nat
        BY <4>4, <4>5, RingNeighbours, SMT DEF SentNo, RecvNo, Side
      <4>7. Len(Queue(q, s)) = 0
        BY <4>1, <4>2, <4>6
      <4> QED
        BY <4>1, <4>7
    <3> QED
      BY <3>1, <3>2
  <2> QED
    BY <2>2, <2>3, <2>4
<1> QED
  BY <1>1, Inductive, PTL

-----------------------------------------------------------------------------
(* The refinement.                                                         *)

PostedTo(p, s) == round[p] + (IF HasPosted(p, s) THEN 1 ELSE 0)

(* What a step is to the abstract ring: nothing, a post, or a completion.  *)
RingStays ==
  round' = round /\ \A p \in PE, s \in Side : HasPosted(p, s)' <=> HasPosted(p, s)

RingPosts(p, d) ==
  /\ ~HasPosted(p, d) /\ round' = round
  /\ \A q \in PE, s \in Side : HasPosted(q, s)' <=> (HasPosted(q, s) \/ (q = p /\ s = d))

RingCompletes(p) ==
  /\ \A s \in Side : HasPosted(p, s) /\ PostedTo(Neighbour(p, s), Opp(s)) > round[p]
  /\ round' = [round EXCEPT ![p] = round[p] + 1]
  /\ \A q \in PE, s \in Side : HasPosted(q, s)' <=> (HasPosted(q, s) /\ q # p)

RingMoves ==
  \/ RingStays
  \/ \E p \in PE, d \in Side : RingPosts(p, d)
  \/ \E p \in PE : RingCompletes(p)

(* Both receives of an exchange are over: so are the sends that face them. *)
LEMMA BothFaced ==
  ASSUME IInv, transport # "put", NEW p \in PE, \A s \in Side : recvReq[p][s] = "complete"
  PROVE  \A s \in Side : Sent(Neighbour(p, s), Opp(s)) > round[p]
<1> SUFFICES ASSUME NEW s \in Side
             PROVE  Sent(Neighbour(p, s), Opp(s)) > round[p]
  OBVIOUS
<1> DEFINE q == Neighbour(p, s)
           o == Opp(s)
<1>0. Types /\ Requests /\ Queues
  BY DEF IInv
<1>1. q \in PE /\ o \in Side /\ Neighbour(q, o) = p /\ Opp(o) = s
  BY RingNeighbours
<1>2. QueueHolds(q, o) /\ Queue(q, o) \in Seq(Boundary)
  BY <1>0, <1>1, QueueIs DEF Queues
<1>3. Len(Queue(q, o)) = SentNo(q, o) - RecvNo(p, s) /\ Len(Queue(q, o)) \in Nat
  BY <1>1, <1>2 DEF QueueHolds
<1>4. \A u \in Side : Received(p, u) = round[p] + 1
  BY DEF Received
<1>5. round[p] \in Nat /\ round[q] \in Nat
  BY <1>0, <1>1, Shape
<1>6. CASE ~Shared
  <2>1. SentNo(q, o) = Sent(q, o) /\ RecvNo(p, s) = round[p] + 1 /\ Sent(q, o) \in Nat
    BY <1>0, <1>1, <1>4, <1>6, Counts DEF SentNo, RecvNo
  <2> QED
    BY <1>3, <1>5, <2>1, SMT
<1>7. CASE Shared
  <2>1. RecvNo(p, s) = (round[p] + 1) + (round[p] + 1)
    BY <1>4, <1>7 DEF RecvNo, Side
  <2>2. SentNo(q, o) = (round[q] + (IF Posted(q, "right") THEN 1 ELSE 0))
                       + (round[q] + (IF Posted(q, "left") THEN 1 ELSE 0))
    BY <1>7 DEF SentNo, Sent
  <2>3. Posted(q, "left") => Posted(q, "right")
    BY <1>0, <1>1, <1>7 DEF Requests
  <2>4. \A u \in Side : round[q] + (IF Posted(q, u) THEN 1 ELSE 0) > round[p]
    <3>1. round[q] + (IF Posted(q, "left") THEN 1 ELSE 0) > round[p]
      BY <1>3, <1>5, <2>1, <2>2, <2>3, SMT
    <3>2. round[q] + (IF Posted(q, "right") THEN 1 ELSE 0) > round[p]
      BY <1>3, <1>5, <2>1, <2>2, <2>3, SMT
    <3> QED
      BY <3>1, <3>2 DEF Side
  <2> QED
    BY <1>1, <2>4 DEF Sent
<1> QED
  BY <1>6, <1>7

LEMMA MessagesMove ==
  ASSUME IInv, [Next]_vars, transport # "put"
  PROVE  RingMoves
<1> USE DEF loopVars, okVars, countVars, wireVars
<1>0. /\ Types /\ Requests /\ Queues /\ \A p \in PE : Stage(p)
      /\ round \in [PE -> Nat]
      /\ sendReq \in [PE -> [Side -> ReqState]]
  BY DEF IInv, Stages, Types
<1>1. transport' = transport
  BY TransportKept
<1>2. \A p \in PE, s \in Side : /\ HasPosted(p, s) <=> Posted(p, s)
                                /\ HasPosted(p, s)' <=> sendReq'[p][s] \in {"sent", "complete"}
  BY <1>1 DEF HasPosted, Posted
<1>3. CASE round' = round /\ sendReq' = sendReq
  <2>1. RingStays
    BY <1>2, <1>3 DEF RingStays, Posted
  <2> QED
    BY <2>1 DEF RingMoves
<1>4. ASSUME NEW p \in PE, Begin(p)
      PROVE  RingMoves
  <2>1. /\ \A s \in Side : sendReq[p][s] = "inactive" /\ sendReq'[p][s] = "active"
        /\ \A q \in PE \ {p} : sendReq'[q] = sendReq[q]
        /\ round' = round
    BY <1>0, <1>4 DEF Begin
  <2>2. RingStays
    BY <1>2, <2>1 DEF RingStays, Posted
  <2> QED
    BY <2>2 DEF RingMoves
<1>5. ASSUME NEW p \in PE, NEW s \in Side, Inject(p, s)
      PROVE  RingMoves
  <2>1. /\ sendReq[p][s] = "active"
        /\ \A r \in PE, t \in Side :
             sendReq'[r][t] \in {"sent", "complete"} <=> (Posted(r, t) \/ (r = p /\ t = s))
        /\ round' = round
    BY <1>5, InjectMoves
  <2>2. RingPosts(p, s)
    BY <1>2, <2>1 DEF RingPosts, Posted
  <2> QED
    BY <2>2 DEF RingMoves
<1>6. ASSUME NEW p \in PE, NEW s \in Side, Match(p, s)
      PROVE  RingMoves
  <2>1. /\ \A r \in PE, t \in Side : sendReq'[r][t] \in {"sent", "complete"} <=> Posted(r, t)
        /\ round' = round
    BY <1>6, MatchMoves
  <2>2. RingStays
    BY <1>2, <2>1 DEF RingStays
  <2> QED
    BY <2>2 DEF RingMoves
<1>7. ASSUME NEW p \in PE, EndExchange(p)
      PROVE  RingMoves
  <2>1. /\ \A s \in Side : /\ sendReq[p][s] = "complete" /\ recvReq[p][s] = "complete"
                           /\ sendReq'[p][s] = "inactive"
        /\ \A q \in PE \ {p} : sendReq'[q] = sendReq[q]
        /\ round' = [round EXCEPT ![p] = round[p] + 1]
    BY <1>0, <1>7 DEF EndExchange
  <2>2. \A s \in Side : Sent(Neighbour(p, s), Opp(s)) > round[p]
    BY <2>1, BothFaced
  <2>3. \A s \in Side : PostedTo(Neighbour(p, s), Opp(s)) > round[p]
    BY <1>2, <2>2, RingNeighbours DEF PostedTo, Sent
  <2>4. RingCompletes(p)
    BY <1>2, <2>1, <2>3 DEF RingCompletes, Posted
  <2> QED
    BY <2>4 DEF RingMoves
<1>8. ASSUME \/ UNCHANGED vars \/ Barrier \/ Verdict
             \/ \E p \in PE : Issue(p) \/ Wait(p) \/ PoisonHalos(p) \/ Validate(p)
      PROVE  RingMoves
  BY <1>3, <1>8 DEF vars, Barrier, Verdict, Issue, Wait, PoisonHalos, Validate
<1>9. /\ \A p \in PE : ~Quiet(p) /\ ~LeaveBatch(p)
      /\ ~ \E m \in puts : Deliver(m)
  BY <1>0 DEF Quiet, LeaveBatch, Stage, Queues
<1> QED
  BY <1>4, <1>5, <1>6, <1>7, <1>8, <1>9 DEF Next, RankStep, Progress

LEMMA PutsMove ==
  ASSUME IInv, [Next]_vars, transport = "put"
  PROVE  RingMoves
<1> USE DEF loopVars, okVars, countVars, wireVars
<1>0. /\ Types /\ SameBatch /\ Requests /\ PutsLanded /\ \A p \in PE : Stage(p)
      /\ round \in [PE -> Nat] /\ host \in [PE -> HostPC]
  BY DEF IInv, Stages, Types
<1>1. transport' = transport
  BY TransportKept
<1> DEFINE Out(p, s) == \E m \in puts : m.of.src = p /\ m.of.end = s
           OutNext(p, s) == \E m \in puts' : m.of.src = p /\ m.of.end = s
<1>2. \A p \in PE, s \in Side :
        /\ HasPosted(p, s) <=> host[p] \in {"wait", "arrived"} /\ ~Out(p, s)
        /\ HasPosted(p, s)' <=> host'[p] \in {"wait", "arrived"} /\ ~OutNext(p, s)
  BY <1>1 DEF HasPosted
<1>3. CASE \/ UNCHANGED vars \/ Barrier \/ Verdict
           \/ \E p \in PE : Quiet(p) \/ PoisonHalos(p) \/ Validate(p)
  <2>1. round' = round /\ puts' = puts
    BY <1>3 DEF vars, Barrier, Verdict, Quiet, PoisonHalos, Validate
  <2>2. \A p \in PE : host'[p] \in {"wait", "arrived"} <=> host[p] \in {"wait", "arrived"}
    <3>1. CASE UNCHANGED vars
      BY <3>1 DEF vars
    <3>2. CASE Barrier \/ Verdict
      BY <3>2 DEF Barrier, Verdict
    <3>3. ASSUME NEW p \in PE, Quiet(p) \/ PoisonHalos(p) \/ Validate(p)
          PROVE  \A q \in PE : host'[q] \in {"wait", "arrived"} <=> host[q] \in {"wait", "arrived"}
      BY <1>0, <3>3 DEF Quiet, PoisonHalos, Validate
    <3> QED
      BY <1>3, <3>1, <3>2, <3>3
  <2>3. \A p \in PE, s \in Side : OutNext(p, s) <=> Out(p, s)
    BY <2>1
  <2> HIDE DEF Out, OutNext
  <2>4. RingStays
    BY <1>2, <2>1, <2>2, <2>3 DEF RingStays
  <2> QED
    BY <2>4 DEF RingMoves
<1>4. ASSUME NEW p \in PE, Issue(p)
      PROVE  RingMoves
  <2>1. /\ host[p] = "body" /\ \A q \in PE \ {p} : host'[q] = host[q]
        /\ puts' = puts \cup {[of |-> Mine(p, s), nth |-> issued[p] + 1] : s \in Side}
        /\ round' = round
    BY <1>0, <1>4 DEF Issue
  <2>2. ASSUME NEW s \in Side
        PROVE  OutNext(p, s)
    <3> DEFINE m == [of |-> Mine(p, s), nth |-> issued[p] + 1]
    <3>1. m \in puts' /\ m.of.src = p /\ m.of.end = s
      BY <2>1 DEF Mine
    <3> HIDE DEF m
    <3> QED
      BY <3>1
  <2>3. \A q \in PE \ {p}, s \in Side : OutNext(q, s) <=> Out(q, s)
    <3>1. \A s \in Side : [of |-> Mine(p, s), nth |-> issued[p] + 1].of.src = p
      BY DEF Mine
    <3>2. \A m \in puts' : m \in puts \/ m.of.src = p
      BY <2>1, <3>1
    <3> QED
      BY <2>1, <3>2
  <2> HIDE DEF Out, OutNext
  <2>4. RingStays
    BY <1>2, <2>1, <2>2, <2>3 DEF RingStays
  <2> QED
    BY <2>4 DEF RingMoves
<1>5. ASSUME NEW m \in puts, Deliver(m)
      PROVE  RingMoves
  <2> DEFINE a == m.of.src
             e == m.of.end
  <2>1. a \in PE /\ e \in Side
    <3>1. m.of \in Boundary
      BY <1>0 DEF Types, Put
    <3> QED
      BY <3>1 DEF Boundary
  <2>2. puts' = puts \ {m} /\ host' = host /\ round' = round
    BY <1>5 DEF Deliver
  <2>3. \A q \in PE, s \in Side : ~(q = a /\ s = e) => (OutNext(q, s) <=> Out(q, s))
    BY <2>2
  <2>4. Out(a, e)
    OBVIOUS
  <2> HIDE DEF Out, OutNext, a, e
  <2>5. ~HasPosted(a, e)
    BY <1>2, <2>1, <2>4
  <2>6. CASE HasPosted(a, e)'
    <3>1. RingPosts(a, e)
      BY <1>2, <2>1, <2>2, <2>3, <2>5, <2>6 DEF RingPosts
    <3> QED
      BY <2>1, <3>1 DEF RingMoves
  <2>7. CASE ~HasPosted(a, e)'
    <3>1. RingStays
      BY <1>2, <2>1, <2>2, <2>3, <2>5, <2>7 DEF RingStays
    <3> QED
      BY <3>1 DEF RingMoves
  <2> QED
    BY <2>6, <2>7
<1>6. ASSUME NEW p \in PE, LeaveBatch(p)
      PROVE  RingMoves
  <2>1. /\ host[p] = "arrived" /\ host'[p] \in {"before", "after"}
        /\ \A q \in PE : host[q] = "arrived" \/ round[q] > round[p]
        /\ \A q \in PE \ {p} : host'[q] = host[q]
        /\ round' = [round EXCEPT ![p] = round[p] + 1] /\ puts' = puts
    BY <1>0, <1>6 DEF LeaveBatch, EndBatch
  <2>2. \A q \in PE : ~Putting(q)
    <3> SUFFICES ASSUME NEW q \in PE, Putting(q)
                 PROVE  FALSE
      OBVIOUS
    <3>1. InBatch(q) /\ InBatch(p) /\ host[q] # "arrived"
      BY <2>1 DEF Putting, InBatch
    <3>2. EndRound(q) = round[q] + 1 /\ EndRound(p) = round[p] + 1 /\ EndRound(p) = EndRound(q)
      BY <1>0, <3>1 DEF EndRound, SameBatch
    <3>3. round[q] > round[p] /\ round[q] \in Nat /\ round[p] \in Nat
      BY <1>0, <2>1, <3>1
    <3> QED
      BY <3>2, <3>3, SMT
  <2>3. \A q \in PE, s \in Side : ~Out(q, s) /\ ~OutNext(q, s)
    BY <1>0, <2>1, <2>2 DEF PutsLanded
  <2> HIDE DEF Out, OutNext
  <2>4. ASSUME NEW q \in PE, NEW s \in Side
        PROVE  PostedTo(q, s) > round[p]
    <3>0. round[p] \in Nat /\ round[q] \in Nat
      BY <1>0
    <3>1. CASE round[q] > round[p]
      BY <3>0, <3>1, SMT DEF PostedTo
    <3>2. CASE host[q] = "arrived"
      <4>1. EndRound(q) = round[q] + 1 /\ EndRound(p) = round[p] + 1 /\ EndRound(p) = EndRound(q)
        BY <1>0, <2>1, <3>2 DEF EndRound, SameBatch, InBatch
      <4>2. HasPosted(q, s)
        BY <1>2, <2>3, <3>2
      <4>3. PostedTo(q, s) = round[q] + 1
        BY <4>2 DEF PostedTo
      <4> QED
        BY <3>0, <4>1, <4>3, SMT
    <3> QED
      BY <2>1, <3>1, <3>2
  <2>5. RingCompletes(p)
    <3>1. \A s \in Side : HasPosted(p, s)
      BY <1>2, <2>1, <2>3
    <3>2. \A q \in PE, s \in Side : HasPosted(q, s)' <=> (HasPosted(q, s) /\ q # p)
      BY <1>2, <2>1, <2>3
    <3> QED
      BY <2>1, <2>4, <3>1, <3>2, RingNeighbours DEF RingCompletes
  <2> QED
    BY <2>5 DEF RingMoves
<1>7. \A p \in PE : /\ ~Wait(p) /\ ~Begin(p) /\ ~EndExchange(p)
                    /\ \A s \in Side : ~Inject(p, s) /\ ~Match(p, s)
  BY <1>0, PutsOnly
<1> QED
  BY <1>3, <1>4, <1>5, <1>6, <1>7 DEF Next, RankStep, Progress

(* Each of the transports implements the abstract ring: taking up a send,  *)
(* or landing the last put of a side, is its post, and the end of an       *)
(* exchange, or leaving the barrier at the end of a batch of puts, its     *)
(* completion of a round.                                                  *)
THEOREM ImplementsRingHolds == Spec => ImplementsRing
<1> DEFINE posted == [p \in PE |-> [s \in Side |-> round[p] + (IF HasPosted(p, s) THEN 1 ELSE 0)]]
<1>1. /\ Ring!PE = PE /\ Ring!Side = Side
      /\ \A s \in Side : Ring!Opp(s) = Opp(s)
      /\ \A p \in PE, s \in Side : Ring!Neighbour(p, s) = Neighbour(p, s)
  BY DEF Ring!PE, PE, Ring!Side, Side, Ring!Opp, Opp, Ring!Neighbour, Neighbour
<1>2. Init => Ring!Init
  <2> SUFFICES ASSUME Init
               PROVE  Ring!Init
    OBVIOUS
  <2>1. \A p \in PE : round[p] = 0 /\ \A s \in Side : ~HasPosted(p, s)
    BY DEF Init, LoopStart, WireIdle, HasPosted
  <2>2. round = [p \in PE |-> 0]
    BY DEF Init, LoopStart
  <2> QED
    BY <1>1, <2>1, <2>2 DEF Ring!Init, RingPosted
<1>3. IInv /\ [Next]_vars => [Ring!Next]_(Ring!ringVars)
  <2> SUFFICES ASSUME IInv, [Next]_vars
               PROVE  Ring!Next \/ (posted' = posted /\ round' = round)
    BY DEF Ring!ringVars, RingPosted
  <2>0. round \in [PE -> Nat]
    BY DEF IInv, Types
  <2>1. RingMoves
    BY MessagesMove, PutsMove
  <2>2. CASE RingStays
    BY <2>2 DEF RingStays
  <2>3. ASSUME NEW p \in PE, NEW d \in Side, RingPosts(p, d)
        PROVE  Ring!Next
    <3>1. posted' = [posted EXCEPT ![p] = [posted[p] EXCEPT ![d] = posted[p][d] + 1]]
      <4>1. \A q \in PE, s \in Side : posted'[q][s] = IF q = p /\ s = d THEN posted[q][s] + 1 ELSE posted[q][s]
        BY <2>0, <2>3, SMT DEF RingPosts
      <4>2. posted' = [q \in PE |-> [s \in Side |-> posted'[q][s]]]
        OBVIOUS
      <4>3. [posted EXCEPT ![p] = [posted[p] EXCEPT ![d] = posted[p][d] + 1]] =
              [q \in PE |-> [s \in Side |-> IF q = p /\ s = d THEN posted[q][s] + 1 ELSE posted[q][s]]]
        OBVIOUS
      <4> HIDE DEF posted
      <4> QED
        BY <4>1, <4>2, <4>3
    <3>2. round' = round /\ posted[p][d] = round[p] /\ round[p] \in Nat
      BY <2>0, <2>3, SMT DEF RingPosts
    <3>3. Ring!Post(p, d)
      BY <3>1, <3>2 DEF Ring!Post, RingPosted
    <3> QED
      BY <1>1, <3>3 DEF Ring!Next
  <2>4. ASSUME NEW p \in PE, RingCompletes(p)
        PROVE  Ring!Next
    <3>1. posted' = posted
      <4>1. \A q \in PE, s \in Side : posted'[q][s] = posted[q][s]
        BY <2>0, <2>4, SMT DEF RingCompletes
      <4>2. /\ posted' = [q \in PE |-> [s \in Side |-> posted'[q][s]]]
            /\ posted = [q \in PE |-> [s \in Side |-> posted[q][s]]]
        OBVIOUS
      <4> HIDE DEF posted
      <4> QED
        BY <4>1, <4>2
    <3>2. \A s \in Side : posted[p][s] > round[p]
      BY <2>0, <2>4, SMT DEF RingCompletes
    <3>3. \A s \in Side : posted[Neighbour(p, s)][Opp(s)] > round[p]
      BY <2>4, RingNeighbours DEF RingCompletes, PostedTo
    <3>4. round' = [round EXCEPT ![p] = round[p] + 1]
      BY <2>4 DEF RingCompletes
    <3>5. Ring!Complete(p)
      BY <1>1, <3>1, <3>2, <3>3, <3>4 DEF Ring!Complete, RingPosted
    <3> QED
      BY <1>1, <3>5 DEF Ring!Next
  <2> QED
    BY <2>1, <2>2, <2>3, <2>4 DEF RingMoves
<1> QED
  BY <1>2, <1>3, Inductive, PTL DEF Spec, ImplementsRing, Ring!Spec

-----------------------------------------------------------------------------
(* The abstract ring, of any number of ranks.                              *)

LEMMA SameRing == /\ Ring!PE = PE /\ Ring!Side = Side
                  /\ \A s \in Side : Ring!Opp(s) = Opp(s)
                  /\ \A p \in PE, s \in Side : Ring!Neighbour(p, s) = Neighbour(p, s)
BY DEF Ring!PE, PE, Ring!Side, Side, Ring!Opp, Opp, Ring!Neighbour, Neighbour

RingTypes == RingPosted \in [PE -> [Side -> Nat]] /\ round \in [PE -> Nat]

(* A rank that has completed a round was faced by the post of that round   *)
(* on either side.                                                         *)
RingInv ==
  /\ RingTypes
  /\ \A p \in PE, s \in Side :
       /\ RingPosted[p][s] \in {round[p], round[p] + 1}
       /\ RingPosted[Neighbour(p, s)][Opp(s)] >= round[p]

(* What RingInv says of one rank and its neighbour at side s.              *)
LEMMA RingPair ==
  ASSUME RingInv, NEW p \in PE, NEW s \in Side, NEW t \in PE, NEW o \in Side,
         t = Neighbour(p, s), o = Opp(s)
  PROVE  /\ p = Neighbour(t, o) /\ s = Opp(o)
         /\ {round[p], round[t], RingPosted[p][s], RingPosted[t][o]} \subseteq Nat
         /\ RingPosted[p][s] \in {round[p], round[p] + 1} /\ RingPosted[p][s] >= round[t]
         /\ RingPosted[t][o] \in {round[t], round[t] + 1} /\ RingPosted[t][o] >= round[p]
<1>1. p = Neighbour(t, o) /\ s = Opp(o)
  BY RingNeighbours
<1>2. {round[p], round[t], RingPosted[p][s], RingPosted[t][o]} \subseteq Nat
  BY DEF RingInv, RingTypes
<1>3. RingPosted[p][s] \in {round[p], round[p] + 1} /\ RingPosted[t][o] \in {round[t], round[t] + 1}
  BY DEF RingInv
<1>4. RingPosted[t][o] >= round[p]
  BY DEF RingInv
<1>5. RingPosted[p][s] >= round[t]
  BY <1>1 DEF RingInv
<1>6. QED
  BY <1>1, <1>2, <1>3, <1>4, <1>5

(* The invariant restated with the neighbour named, as RingPair has it.    *)
LEMMA FromRingPairs ==
  ASSUME RingTypes',
         \A p \in PE, s \in Side, t \in PE, o \in Side :
           t = Neighbour(p, s) /\ o = Opp(s) =>
             /\ RingPosted'[p][s] \in {round'[p], round'[p] + 1}
             /\ RingPosted'[t][o] >= round'[p]
  PROVE  RingInv'
BY RingNeighbours DEF RingInv

(* A post moves one counter of one rank, a completion needs the posts of   *)
(* both neighbours: the invariant survives either.                         *)
LEMMA RingStep ==
  ASSUME RingInv, [Ring!Next]_(Ring!ringVars)
  PROVE  RingInv'
<1>0. RingTypes
  BY DEF RingInv
<1>1. ASSUME NEW q \in PE, NEW r \in Side, Ring!Post(q, r)
      PROVE  RingInv'
  <2>1. /\ RingPosted' = [RingPosted EXCEPT ![q][r] = @ + 1] /\ round' = round
        /\ RingPosted[q][r] = round[q]
    BY <1>1 DEF Ring!Post
  <2>2. RingTypes'
    BY <1>0, <2>1 DEF RingTypes
  <2>3. \A a \in PE, b \in Side :
          RingPosted'[a][b] = IF a = q /\ b = r THEN RingPosted[a][b] + 1 ELSE RingPosted[a][b]
    BY <1>0, <2>1 DEF RingTypes
  <2>4. ASSUME NEW p \in PE, NEW s \in Side, NEW t \in PE, NEW o \in Side,
               t = Neighbour(p, s), o = Opp(s)
        PROVE  RingPosted'[p][s] \in {round'[p], round'[p] + 1} /\ RingPosted'[t][o] >= round'[p]
    <3>1. /\ {round[p], RingPosted[p][s], RingPosted[t][o]} \subseteq Nat
          /\ RingPosted[p][s] \in {round[p], round[p] + 1} /\ RingPosted[t][o] >= round[p]
      BY <2>4, RingPair
    <3>2. QED
      BY <2>1, <2>3, <3>1
  <2>5. QED
    BY <2>2, <2>4, FromRingPairs
<1>2. ASSUME NEW q \in PE, Ring!Complete(q)
      PROVE  RingInv'
  <2>1. /\ round' = [round EXCEPT ![q] = @ + 1] /\ RingPosted' = RingPosted
        /\ \A s \in Side : RingPosted[q][s] > round[q] /\ RingPosted[Neighbour(q, s)][Opp(s)] > round[q]
    BY <1>2, SameRing DEF Ring!Complete
  <2>2. RingTypes'
    BY <1>0, <2>1 DEF RingTypes
  <2>3. \A a \in PE : round'[a] = IF a = q THEN round[a] + 1 ELSE round[a]
    BY <1>0, <2>1 DEF RingTypes
  <2>4. ASSUME NEW p \in PE, NEW s \in Side, NEW t \in PE, NEW o \in Side,
               t = Neighbour(p, s), o = Opp(s)
        PROVE  RingPosted'[p][s] \in {round'[p], round'[p] + 1} /\ RingPosted'[t][o] >= round'[p]
    <3>1. /\ {round[p], RingPosted[p][s], RingPosted[t][o]} \subseteq Nat
          /\ RingPosted[p][s] \in {round[p], round[p] + 1} /\ RingPosted[t][o] >= round[p]
      BY <2>4, RingPair
    <3>2. p = q => RingPosted[p][s] > round[p] /\ RingPosted[t][o] > round[p]
      BY <2>1, <2>4
    <3>3. QED
      BY <2>1, <2>3, <3>1, <3>2
  <2>5. QED
    BY <2>2, <2>4, FromRingPairs
<1>3. CASE UNCHANGED Ring!ringVars
  BY <1>3 DEF Ring!ringVars, RingInv, RingTypes
<1>4. QED
  BY <1>1, <1>2, <1>3, SameRing DEF Ring!Next

(* At any time a rank is at most one post ahead of its completed rounds,   *)
(* and no further ahead of what its neighbours have RingPosted.                *)
LEMMA RingInductive == Ring!Spec => []RingInv
<1>1. Ring!Init => RingInv
  BY RingNeighbours, SameRing DEF Ring!Init, RingInv, RingTypes
<1>2. RingInv /\ [Ring!Next]_(Ring!ringVars) => RingInv'
  BY RingStep
<1>3. QED
  BY <1>1, <1>2, PTL DEF Ring!Spec

(* Neighbours are never more than one round apart.                         *)
LEMMA RingSkew == Ring!Spec => []Ring!NeighbourSkew
<1>1. ASSUME RingInv PROVE Ring!NeighbourSkew
  <2>1. SUFFICES ASSUME NEW p \in PE, NEW s \in Side
                 PROVE  round[Neighbour(p, s)] - round[p] \in {-1, 0, 1}
    BY SameRing DEF Ring!NeighbourSkew
  <2>2. PICK t \in PE, o \in Side : t = Neighbour(p, s) /\ o = Opp(s)
    BY RingNeighbours
  <2>3. round[t] - round[p] \in {-1, 0, 1}
    BY <1>1, <2>2, RingPair
  <2>4. QED
    BY <2>2, <2>3
<1>2. QED
  BY <1>1, RingInductive, PTL

(* At most two posts towards one neighbour are unconsumed, in a ring of    *)
(* any length.                                                             *)
LEMMA RingUnconsumed == Ring!Spec => []Ring!PostsUnconsumed
<1>1. ASSUME RingInv PROVE Ring!PostsUnconsumed
  <2>1. SUFFICES ASSUME NEW p \in PE, NEW s \in Side
                 PROVE  RingPosted[p][s] - round[Neighbour(p, s)] <= 2
    BY SameRing DEF Ring!PostsUnconsumed
  <2>2. PICK t \in PE, o \in Side : t = Neighbour(p, s) /\ o = Opp(s)
    BY RingNeighbours
  <2>3. RingPosted[p][s] - round[t] <= 2
    BY <1>1, <2>2, RingPair
  <2>4. QED
    BY <2>2, <2>3
<1>2. QED
  BY <1>1, RingInductive, PTL

(* So what holds of the abstract ring holds of every transport: no rank    *)
(* gets more than one round ahead of a neighbour.                          *)
THEOREM NeighbourSkewHolds == Spec => []Ring!NeighbourSkew
BY RingSkew, ImplementsRingHolds, PTL DEF ImplementsRing

(* And no transport has to hold more than two posts towards a neighbour    *)
(* that has not consumed them, however long the ring is.                   *)
THEOREM PostsUnconsumedHolds == Spec => []Ring!PostsUnconsumed
BY RingUnconsumed, ImplementsRingHolds, PTL DEF ImplementsRing

-----------------------------------------------------------------------------
(* Nobody is left waiting.                                                 *)

(* What the steps of a rank, of the library or the stream, and of all      *)
(* together wait for.                                                      *)
RankCanGoOn(p) ==
  \/ host[p] \in {"body", "before", "after"}
  \/ host[p] = "wait" /\ transport # "put" /\ it[p] = issued[p]
  \/ host[p] = "wait" /\ transport = "put" /\ \A m \in puts : m.of.src # p
  \/ host[p] = "arrived" /\ \A q \in PE : host[q] = "arrived" \/ round[q] > round[p]
TransferCanGoOn(p, s) ==
  \/ sendReq[p][s] = "active" /\ ~WaitsForCall(p, s, FirstSend, sendReq)
  \/ /\ recvReq[p][s] = "active" /\ ~WaitsForCall(p, s, FirstRecv, recvReq)
     /\ Queue(Neighbour(p, s), Opp(s)) # <<>>
ExchangeCanGoOn(p) ==
  \/ /\ transport # "put" /\ it[p] < issued[p]
     /\ \A s \in Side : sendReq[p][s] = "inactive" /\ recvReq[p][s] = "inactive"
  \/ \A s \in Side : sendReq[p][s] = "complete" /\ recvReq[p][s] = "complete"
  \/ \E s \in Side : TransferCanGoOn(p, s)
AllCanGoOn == (\A p \in PE : host[p] = "aligned") \/ (\A p \in PE : host[p] = "verdict")

SomethingCanGoOn ==
  (\E p \in PE : RankCanGoOn(p) \/ ExchangeCanGoOn(p)) \/ puts # {} \/ AllCanGoOn

(* Until all ranks have left, one of these can always go on.               *)
NobodyStuck == (\E p \in PE : host[p] # "exit") => SomethingCanGoOn

(* What the invariant has to say for that besides: where ranks are after   *)
(* their batches, that the four transfers of an exchange begin and end     *)
(* together, and that a send that is not complete has not been received.   *)
CaseEnds ==
  /\ \A p \in PE : host[p] \in {"verdict", "exit"} => batch[p] = Samples(bench[p])
  /\ \A p, q \in PE : host[p] = "exit" => host[q] = "exit"
OneExchange ==
  \A p \in PE, s \in Side : sendReq[p][s] = "inactive" <=> recvReq[p][s] = "inactive"
SentUnmatched ==
  \A p \in PE, s \in Side :
    sendReq[p][s] = "sent" => Received(Neighbour(p, s), Opp(s)) <= round[p]

MoreInv == CaseEnds /\ OneExchange /\ SentUnmatched

(* A set of naturals that is not empty has a least.                        *)
LEMMA Least ==
  ASSUME NEW S, S \subseteq Nat, S # {}
  PROVE  \E m \in S : \A k \in S : m <= k
<1>1. PICK m \in S : \A k \in S : <<k, m>> \notin OpToRel(<, Nat)
  BY NatLessThanWellFounded, WFMin
<1>2. \A k \in S : ~(k < m)
  BY <1>1 DEF OpToRel
<1> QED
  BY <1>2, SMT

LEMMA CaseEndsStep == IInv /\ CaseEnds /\ [Next]_vars => CaseEnds'
<1> SUFFICES ASSUME IInv, CaseEnds, [Next]_vars
             PROVE  CaseEnds'
  OBVIOUS
<1> USE DEF loopVars, okVars, countVars, wireVars
<1>0. Types /\ SameBatch /\ \A p \in PE : Stage(p)
  BY DEF IInv, Stages
<1>1. CASE UNCHANGED <<host, bench, batch>>
  BY <1>1 DEF CaseEnds
<1>2. ASSUME NEW p \in PE, host'[p] \notin {"verdict", "exit"}, host[p] \notin {"verdict", "exit"},
             bench' = bench, \A q \in PE \ {p} : host'[q] = host[q] /\ batch'[q] = batch[q]
      PROVE  CaseEnds'
  BY <1>2 DEF CaseEnds
<1>3. ASSUME NEW p \in PE, Issue(p)
      PROVE  CaseEnds'
  <2>1. host[p] = "body" /\ host'[p] \in {"body", "wait"}
    BY <1>0, <1>3 DEF Issue, Types
  <2> QED
    BY <1>0, <1>2, <1>3, <2>1 DEF Issue, Types
<1>4. ASSUME NEW p \in PE, Wait(p)
      PROVE  CaseEnds'
  <2>1. /\ host[p] = "wait" /\ host'[p] \in {"body", "before", "after"} /\ bench' = bench
        /\ \A q \in PE \ {p} : host'[q] = host[q] /\ batch'[q] = batch[q]
    BY <1>0, <1>4 DEF Wait, EndBatch, Types
  <2> QED
    BY <1>2, <2>1
<1>5. ASSUME NEW p \in PE, Quiet(p) \/ PoisonHalos(p)
      PROVE  CaseEnds'
  <2>1. /\ host[p] \in {"wait", "before"} /\ host'[p] \in {"arrived", "aligned"} /\ bench' = bench
        /\ \A q \in PE \ {p} : host'[q] = host[q] /\ batch'[q] = batch[q]
    BY <1>0, <1>5 DEF Quiet, PoisonHalos, Types
  <2> QED
    BY <1>2, <2>1
<1>6. ASSUME NEW p \in PE, LeaveBatch(p)
      PROVE  CaseEnds'
  <2>1. /\ host[p] = "arrived" /\ host'[p] \in {"before", "after"} /\ bench' = bench
        /\ \A q \in PE \ {p} : host'[q] = host[q] /\ batch'[q] = batch[q]
    BY <1>0, <1>6 DEF LeaveBatch, EndBatch, Types
  <2> QED
    BY <1>2, <2>1
<1>7. ASSUME NEW p \in PE, Validate(p)
      PROVE  CaseEnds'
  <2>1. /\ host[p] = "after" /\ bench' = bench
        /\ \A q \in PE \ {p} : host'[q] = host[q] /\ batch'[q] = batch[q]
        /\ \/ host'[p] = "before"
           \/ host'[p] = "verdict" /\ batch' = batch /\ ~(batch[p] < Samples(bench[p]))
    BY <1>0, <1>7 DEF Validate, Types
  <2>2. CASE host'[p] = "before"
    BY <1>2, <2>1, <2>2
  <2>3. CASE host'[p] = "verdict"
    <3>1. batch[p] = Samples(bench[p])
      <4>1. batch[p] <= Samples(bench[p]) /\ batch[p] \in Nat /\ Samples(bench[p]) \in Nat
        BY <1>0, Shape DEF Stage
      <4> QED
        BY <2>1, <2>3, <4>1, SMT
    <3> QED
      BY <2>1, <2>3, <3>1 DEF CaseEnds
  <2> QED
    BY <2>1, <2>2, <2>3
<1>8. CASE Barrier
  <2>1. \A p \in PE : host'[p] = "body"
    BY <1>8 DEF Barrier
  <2> QED
    BY <2>1 DEF CaseEnds
<1>9. CASE Verdict
  <2>1. \A p \in PE :
          /\ host[p] = "verdict" /\ batch[p] = Samples(bench[p])
          /\ host'[p] = IF bench[p] = Cases THEN "exit" ELSE "before"
          /\ bench[p] = Cases => bench'[p] = bench[p] /\ batch'[p] = batch[p]
    BY <1>9 DEF Verdict, CaseEnds
  <2>2. \A p, q \in PE : bench[p] = bench[q]
    BY <1>0 DEF SameBatch
  <2> QED
    BY <2>1, <2>2 DEF CaseEnds
<1>10. ASSUME NEW p \in PE, Begin(p) \/ EndExchange(p)
       PROVE  CaseEnds'
  BY <1>1, <1>10 DEF Begin, EndExchange
<1>11. ASSUME NEW p \in PE, NEW s \in Side, Inject(p, s) \/ Match(p, s)
       PROVE  CaseEnds'
  BY <1>1, <1>11 DEF Inject, Match
<1>12. ASSUME NEW m \in puts, Deliver(m)
       PROVE  CaseEnds'
  BY <1>1, <1>12 DEF Deliver
<1>13. CASE UNCHANGED vars
  BY <1>1, <1>13 DEF vars
<1> QED
  BY <1>3, <1>4, <1>5, <1>6, <1>7, <1>8, <1>9, <1>10, <1>11, <1>12, <1>13
  DEF Next, RankStep, Progress

(* What a rank may have received of a send that it has not been completed  *)
(* by: nothing of it before it is taken up.                                *)
LEMMA NotYetReceived ==
  ASSUME IInv, transport # "put", NEW p \in PE, NEW s \in Side, sendReq[p][s] = "active",
         ~WaitsForCall(p, s, FirstSend, sendReq)
  PROVE  Received(Neighbour(p, s), Opp(s)) <= round[p]
<1> DEFINE q == Neighbour(p, s)
           o == Opp(s)
<1>0. Types /\ Requests /\ Queues
  BY DEF IInv
<1>1. q \in PE /\ o \in Side /\ round[p] \in Nat /\ round[q] \in Nat /\ ~Posted(p, s)
  BY <1>0, RingNeighbours, Shape DEF Posted
<1>2. Len(Queue(p, s)) = SentNo(p, s) - RecvNo(q, o) /\ Len(Queue(p, s)) \in Nat
  BY <1>0, QueueIs DEF Queues, QueueHolds
<1>3. CASE ~Shared
  <2>1. SentNo(p, s) = round[p] + 0 /\ RecvNo(q, o) = Received(q, o) /\ Received(q, o) \in Nat
    BY <1>0, <1>1, <1>3, Counts DEF SentNo, RecvNo, Sent
  <2> QED
    BY <1>1, <1>2, <2>1, SMT
<1>4. CASE Shared
  <2>1. /\ RecvNo(q, o) = Received(q, "left") + Received(q, "right")
        /\ SentNo(p, s) = Sent(p, "right") + Sent(p, "left")
    BY <1>4 DEF RecvNo, SentNo
  <2>2. /\ recvReq[q]["right"] = "complete" => recvReq[q]["left"] = "complete"
        /\ s = "right" => ~Posted(p, "left")
        /\ s \in {"left", "right"} /\ o = IF s = "left" THEN "right" ELSE "left"
    BY <1>0, <1>1, <1>4, SendIsNext DEF Requests, Side, Opp
  <2>3. \/ Received(q, "left") = round[q] + 1 /\ Received(q, "right") \in {round[q], round[q] + 1}
        \/ Received(q, "left") = round[q] /\ Received(q, "right") = round[q]
    BY <1>1, <2>2, SMT DEF Received
  <2>4. CASE s = "right"
    <3>1. Sent(p, "right") = round[p] /\ Sent(p, "left") = round[p]
      BY <1>1, <2>2, <2>4, SMT DEF Sent
    <3>2. Received(q, "left") <= round[p]
      BY <1>1, <1>2, <2>1, <2>3, <3>1, SMT
    <3> QED
      BY <2>2, <2>4, <3>2
  <2>5. CASE s = "left"
    <3>1. Sent(p, "right") <= round[p] + 1 /\ Sent(p, "left") = round[p] /\ Sent(p, "right") \in Nat
      BY <1>1, <2>5, SMT DEF Sent
    <3>2. Received(q, "right") <= round[p]
      BY <1>1, <1>2, <2>1, <2>3, <3>1, SMT
    <3> QED
      BY <2>2, <2>5, <3>2
  <2> QED
    BY <2>2, <2>4, <2>5
<1> QED
  BY <1>3, <1>4

(* What a receive matches has been sent, so that a send it leaves open is  *)
(* of a later round.                                                       *)
LEMMA MatchCompletes ==
  ASSUME IInv, NEW p \in PE, NEW s \in Side, Match(p, s)
  PROVE  LET q == Neighbour(p, s)
             o == Opp(s)
         IN  \A r \in PE, t \in Side :
               sendReq'[r][t] = "sent" =>
                 sendReq[r][t] = "sent" /\ (r = q /\ t = o => round[p] < round[q])
<1> DEFINE q == Neighbour(p, s)
           o == Opp(s)
<1>0. Types /\ Requests /\ Queues
  BY DEF IInv
<1>1. q \in PE /\ o \in Side /\ Opp(o) = s /\ Neighbour(q, o) = p
      /\ round[p] \in Nat /\ round[q] \in Nat
  BY <1>0, RingNeighbours, Shape
<1>2. recv' = [recv EXCEPT ![p][s] = Expected(p, s, round[p] + 1)] /\ transport # "put"
      /\ recvReq[p][s] = "active"
  BY MatchMoves
<1>3. /\ recv' = [recv EXCEPT ![p][s] = Head(Queue(q, o))]
      /\ sendReq' = [sendReq EXCEPT ![q][Head(Queue(q, o)).end] =
                       IF Head(Queue(q, o)).round = round[q] + 1 THEN "complete" ELSE @]
  BY <1>1 DEF Match, Queue
<1>4. Head(Queue(q, o)) = Expected(p, s, round[p] + 1)
  <2>1. recv \in [PE -> [Side -> Boundary]]
    BY <1>0 DEF Types
  <2>2. recv'[p][s] = Expected(p, s, round[p] + 1)
    BY <1>2, <2>1
  <2>3. recv'[p][s] = Head(Queue(q, o))
    BY <1>3, <2>1
  <2> QED
    BY <2>2, <2>3
<1>5. sendReq' = [sendReq EXCEPT ![q][o] = IF round[p] + 1 = round[q] + 1 THEN "complete" ELSE @]
  <2> DEFINE m == Head(Queue(q, o))
  <2>1. m.end = o /\ m.round = round[p] + 1
    BY <1>4 DEF Expected
  <2>2. sendReq' = [sendReq EXCEPT ![q][m.end] = IF m.round = round[q] + 1 THEN "complete" ELSE @]
    BY <1>3
  <2> HIDE DEF m, q, o
  <2> QED
    BY <2>1, <2>2
<1>6. \A r \in PE, t \in Side :
        sendReq'[r][t] = IF r = q /\ t = o /\ round[p] = round[q] THEN "complete" ELSE sendReq[r][t]
  <2>1. sendReq \in [PE -> [Side -> ReqState]]
    BY <1>0 DEF Types
  <2>2. round[p] + 1 = round[q] + 1 <=> round[p] = round[q]
    BY <1>1, SMT
  <2> HIDE DEF q, o
  <2> QED
    BY <1>1, <1>5, <2>1, <2>2
<1>7. ASSUME sendReq'[q][o] = "sent"
      PROVE  round[p] < round[q]
  <2>1. sendReq[q][o] = "sent" /\ round[p] # round[q]
    BY <1>1, <1>6, <1>7
  <2>2. Sent(q, o) = round[q] + 1
    BY <2>1 DEF Sent, Posted
  <2>3. Len(Queue(q, o)) = SentNo(q, o) - RecvNo(p, s) /\ Len(Queue(q, o)) \in Nat
        /\ Queue(q, o) # <<>> /\ Queue(q, o) \in Seq(Boundary)
    BY <1>0, <1>1, <1>2, QueueIs DEF Queues, QueueHolds, Match, Queue
  <2>4. Len(Queue(q, o)) > 0
    BY <2>3
  <2>5. CASE ~Shared
    <3>1. SentNo(q, o) = round[q] + 1 /\ RecvNo(p, s) = round[p] + 0
      BY <1>2, <2>2, <2>5 DEF SentNo, RecvNo, Received
    <3> QED
      BY <1>1, <2>1, <2>3, <2>4, <3>1, SMT
  <2>6. CASE Shared
    <3>1. RecvNo(p, s) >= 2 * round[p]
      BY <1>1, <2>6, SMT DEF RecvNo, Received
    <3>2. SentNo(q, o) <= 2 * round[q] + 2
      BY <1>1, <2>6, SMT DEF SentNo, Sent
    <3>3. RecvNo(p, s) \in Nat /\ SentNo(q, o) \in Nat
      BY <1>0, <1>1, Counts
    <3> QED
      BY <1>1, <2>1, <2>3, <2>4, <3>1, <3>2, <3>3, SMT
  <2> QED
    BY <2>5, <2>6
<1> QED
  BY <1>6, <1>7, <1>1

LEMMA MoreInvStep == IInv /\ MoreInv /\ [Next]_vars => MoreInv'
<1> SUFFICES ASSUME IInv, MoreInv, [Next]_vars
             PROVE  OneExchange' /\ SentUnmatched'
  BY CaseEndsStep DEF MoreInv
<1> USE DEF loopVars, okVars, countVars, wireVars
<1>0. /\ Types /\ Requests /\ OneExchange /\ SentUnmatched
      /\ \A p \in PE : round[p] \in Nat
      /\ sendReq \in [PE -> [Side -> ReqState]] /\ recvReq \in [PE -> [Side -> ReqState \ {"sent"}]]
  BY Shape DEF IInv, MoreInv, Types
<1>1. CASE UNCHANGED <<sendReq, recvReq, round>>
  BY <1>0, <1>1 DEF OneExchange, SentUnmatched, Received
<1>10. ASSUME \A q \in PE, s \in Side : Received(q, s)' = Received(q, s),
              \A q \in PE, s \in Side :
                sendReq'[q][s] = "sent" => Received(Neighbour(q, s), Opp(s)) <= round'[q]
       PROVE  SentUnmatched'
  <2> SUFFICES ASSUME NEW q \in PE, NEW s \in Side, sendReq'[q][s] = "sent"
               PROVE  Received(Neighbour(q, s), Opp(s))' <= round'[q]
    BY DEF SentUnmatched
  <2>1. Neighbour(q, s) \in PE /\ Opp(s) \in Side
    BY RingNeighbours
  <2>2. Received(Neighbour(q, s), Opp(s))' = Received(Neighbour(q, s), Opp(s))
    BY <1>10, <2>1
  <2> QED
    BY <1>10, <2>2
<1>2. ASSUME NEW p \in PE, Issue(p) \/ Wait(p) \/ Quiet(p) \/ PoisonHalos(p) \/ Validate(p)
      PROVE  OneExchange' /\ SentUnmatched'
  BY <1>1, <1>2 DEF Issue, Wait, EndBatch, Quiet, PoisonHalos, Validate
<1>3. ASSUME NEW p \in PE, LeaveBatch(p)
      PROVE  OneExchange' /\ SentUnmatched'
  <2>1. transport = "put" /\ sendReq' = sendReq /\ recvReq' = recvReq
    BY <1>3 DEF LeaveBatch, IInv, Stages, Stage
  <2>2. \A q \in PE, s \in Side : sendReq[q][s] = "inactive"
    BY <1>0, <2>1 DEF Requests
  <2> QED
    BY <1>0, <2>1, <2>2 DEF OneExchange, SentUnmatched
<1>4. ASSUME NEW p \in PE, Begin(p)
      PROVE  OneExchange' /\ SentUnmatched'
  <2>1. /\ \A s \in Side : recvReq[p][s] = "inactive" /\ recvReq'[p][s] = "active"
                          /\ sendReq'[p][s] = "active"
        /\ \A q \in PE \ {p} : sendReq'[q] = sendReq[q] /\ recvReq'[q] = recvReq[q]
        /\ round' = round
    BY <1>0, <1>4 DEF Begin
  <2>2. \A q \in PE, s \in Side : Received(q, s)' = Received(q, s)
    BY <2>1 DEF Received
  <2>3. \A q \in PE, s \in Side : sendReq'[q][s] = "sent" => sendReq[q][s] = "sent"
    BY <2>1
  <2>4. SentUnmatched'
    BY <1>0, <1>10, <2>1, <2>2, <2>3 DEF SentUnmatched
  <2> QED
    BY <1>0, <2>1, <2>4 DEF OneExchange
<1>5. ASSUME NEW p \in PE, EndExchange(p)
      PROVE  OneExchange' /\ SentUnmatched'
  <2>1. /\ \A s \in Side : recvReq[p][s] = "complete" /\ recvReq'[p][s] = "inactive"
                          /\ sendReq'[p][s] = "inactive"
        /\ \A q \in PE \ {p} : /\ sendReq'[q] = sendReq[q] /\ recvReq'[q] = recvReq[q]
                               /\ round'[q] = round[q]
        /\ round'[p] = round[p] + 1
    BY <1>0, <1>5 DEF EndExchange, Types
  <2>2. \A q \in PE, s \in Side : Received(q, s)' = Received(q, s)
    BY <1>0, <2>1, SMT DEF Received
  <2>3. \A q \in PE, s \in Side :
          sendReq'[q][s] = "sent" => sendReq[q][s] = "sent" /\ round'[q] = round[q]
    BY <2>1
  <2>4. SentUnmatched'
    BY <1>0, <1>10, <2>2, <2>3 DEF SentUnmatched
  <2> QED
    BY <1>0, <2>1, <2>4 DEF OneExchange
<1>6. ASSUME NEW p \in PE, NEW s \in Side, Inject(p, s)
      PROVE  OneExchange' /\ SentUnmatched'
  <2>1. /\ transport # "put" /\ UNCHANGED <<round, recvReq>>
        /\ \A r \in PE, t \in Side : sendReq'[r][t] = "inactive" <=> sendReq[r][t] = "inactive"
        /\ sendReq[p][s] = "active" /\ ~WaitsForCall(p, s, FirstSend, sendReq)
    BY <1>6, InjectMoves DEF Inject
  <2>2. PICK done : sendReq' = [sendReq EXCEPT ![p][s] = done]
    BY <1>6 DEF Inject
  <2>3. \A r \in PE, t \in Side : sendReq'[r][t] = IF r = p /\ t = s THEN done ELSE sendReq[r][t]
    BY <1>0, <2>2
  <2>4. Received(Neighbour(p, s), Opp(s)) <= round[p]
    BY <2>1, NotYetReceived
  <2>5. \A r \in PE, t \in Side : Received(r, t)' = Received(r, t)
    BY <2>1 DEF Received
  <2>6. SentUnmatched'
    BY <1>0, <1>10, <2>1, <2>3, <2>4, <2>5 DEF SentUnmatched
  <2> QED
    BY <1>0, <2>1, <2>6 DEF OneExchange
<1>7. ASSUME NEW p \in PE, NEW s \in Side, Match(p, s)
      PROVE  OneExchange' /\ SentUnmatched'
  <2> DEFINE q == Neighbour(p, s)
             o == Opp(s)
  <2>0. q \in PE /\ o \in Side /\ Neighbour(q, o) = p /\ Opp(o) = s
    BY RingNeighbours
  <2>1. /\ \A r \in PE, t \in Side : sendReq'[r][t] = "inactive" <=> sendReq[r][t] = "inactive"
        /\ round' = round /\ recvReq[p][s] = "active"
        /\ recvReq' = [recvReq EXCEPT ![p][s] = "complete"]
    BY <1>7, MatchMoves
  <2>2. \A r \in PE, t \in Side :
          recvReq'[r][t] = IF r = p /\ t = s THEN "complete" ELSE recvReq[r][t]
    BY <1>0, <2>1
  <2>3. \A r \in PE, t \in Side :
          sendReq'[r][t] = "sent" =>
            sendReq[r][t] = "sent" /\ (r = q /\ t = o => round[p] < round[q])
    BY <1>7, MatchCompletes
  <2>4. \A r \in PE, t \in Side :
          Received(r, t)' = IF r = p /\ t = s THEN round[p] + 1 ELSE Received(r, t)
    BY <2>1, <2>2 DEF Received
  <2>5. ASSUME NEW r \in PE, NEW t \in Side, sendReq'[r][t] = "sent"
        PROVE  Received(Neighbour(r, t), Opp(t))' <= round'[r]
    <3>1. /\ Neighbour(r, t) \in PE /\ Opp(t) \in Side
          /\ Neighbour(r, t) = p /\ Opp(t) = s => r = q /\ t = o
      BY RingNeighbours
    <3>2. CASE Neighbour(r, t) = p /\ Opp(t) = s
      <4>1. round[p] < round[q] /\ Received(p, s)' = round[p] + 1 /\ r = q
            /\ round[p] \in Nat /\ round[q] \in Nat
        BY <1>0, <2>0, <2>3, <2>4, <2>5, <3>1, <3>2
      <4> HIDE DEF q, o
      <4>2. Received(p, s)' <= round[r]
        BY <4>1, SMT
      <4>3. Received(Neighbour(r, t), Opp(t))' = Received(p, s)'
        BY <3>2
      <4> QED
        BY <2>1, <4>2, <4>3
    <3>3. CASE ~(Neighbour(r, t) = p /\ Opp(t) = s)
      BY <1>0, <2>1, <2>3, <2>4, <2>5, <3>1, <3>3 DEF SentUnmatched
    <3> QED
      BY <3>2, <3>3
  <2>6. SentUnmatched'
    BY <2>5 DEF SentUnmatched
  <2> QED
    BY <1>0, <2>1, <2>2, <2>6 DEF OneExchange
<1>8. ASSUME NEW m \in puts, Deliver(m)
      PROVE  OneExchange' /\ SentUnmatched'
  BY <1>1, <1>8 DEF Deliver
<1>9. CASE Barrier \/ Verdict \/ UNCHANGED vars
  BY <1>1, <1>9 DEF Barrier, Verdict, vars
<1> QED
  BY <1>2, <1>3, <1>4, <1>5, <1>6, <1>7, <1>8, <1>9 DEF Next, RankStep, Progress

(* A rank that waits while nothing can go on has had its sends taken up.   *)
LEMMA WaitsForOthers ==
  ASSUME IInv, MoreInv, ~SomethingCanGoOn, transport # "put", NEW p \in PE, InBatch(p)
  PROVE  /\ it[p] < issued[p]
         /\ \A s \in Side : Posted(p, s) /\ recvReq[p][s] \in {"active", "complete"}
<1>0. /\ Types /\ Requests /\ Stage(p) /\ OneExchange /\ ~RankCanGoOn(p) /\ ~ExchangeCanGoOn(p)
      /\ {it[p], issued[p]} \subseteq Nat
      /\ \A s \in Side : sendReq[p][s] \in ReqState /\ recvReq[p][s] \in ReqState \ {"sent"}
  BY Shape DEF IInv, MoreInv, Stages, SomethingCanGoOn, Types
<1>1. host[p] = "wait"
  BY <1>0 DEF InBatch, RankCanGoOn, Stage
<1>2. it[p] < issued[p]
  <2>1. it[p] <= issued[p] /\ it[p] # issued[p]
    BY <1>0, <1>1 DEF Stage, RankCanGoOn
  <2> QED
    BY <1>0, <2>1, SMT
<1>3. \A s \in Side : sendReq[p][s] # "inactive" /\ recvReq[p][s] # "inactive"
  <2>1. PICK s \in Side : sendReq[p][s] # "inactive" \/ recvReq[p][s] # "inactive"
    BY <1>0, <1>2 DEF ExchangeCanGoOn
  <2>2. sendReq[p][s] # "inactive"
    BY <1>0, <2>1 DEF OneExchange
  <2>3. \A u \in Side : sendReq[p][u] # "inactive"
    BY <1>0, <2>2, UnderWay
  <2> QED
    BY <1>0, <2>3 DEF OneExchange
<1>4. \A s \in Side : sendReq[p][s] # "active"
  <2>1. sendReq[p]["right"] # "active"
    BY <1>0 DEF ExchangeCanGoOn, TransferCanGoOn, WaitsForCall, FirstSend, Side
  <2>2. sendReq[p]["left"] # "active"
    BY <1>0, <2>1 DEF ExchangeCanGoOn, TransferCanGoOn, WaitsForCall, FirstSend, Side
  <2> QED
    BY <2>1, <2>2 DEF Side
<1> QED
  BY <1>0, <1>2, <1>3, <1>4 DEF Posted, ReqState

(* Whoever is not behind p has sent what p receives in this round.         *)
LEMMA AheadHasSent ==
  ASSUME IInv, MoreInv, ~SomethingCanGoOn, transport # "put", NEW p \in PE, InBatch(p),
         NEW q \in PE, InBatch(q) => round[p] <= round[q], NEW s \in Side
  PROVE  /\ Sent(q, s) >= round[p] + 1 /\ Sent(q, s) \in Nat
         /\ ~InBatch(q) => round[q] >= round[p] + 1
<1>0. Types /\ Stage(p) /\ SameBatch
  BY DEF IInv, Stages
<1>1. /\ {round[p], round[q], it[p], issued[p], BatchLen(p)} \subseteq Nat
      /\ it[p] < issued[p] /\ issued[p] <= BatchLen(p)
  BY <1>0, Shape, WaitsForOthers DEF Stage
<1>2. CASE InBatch(q)
  <2>1. Sent(q, s) = round[q] + 1
    BY <1>2, WaitsForOthers DEF Sent
  <2> QED
    BY <1>1, <1>2, <2>1, SMT
<1>3. CASE ~InBatch(q)
  <2>1. round[q] = round[p] + (BatchLen(p) - it[p])
    BY <1>0, <1>3 DEF SameBatch, EndRound
  <2>2. round[q] >= round[p] + 1
    BY <1>1, <2>1, SMT
  <2>3. Sent(q, s) \in {round[q], round[q] + 1}
    BY <1>1, SMT DEF Sent
  <2> QED
    BY <1>1, <2>2, <2>3, SMT
<1> QED
  BY <1>2, <1>3

(* The rank furthest behind has received all it receives in this round:    *)
(* the message for the receive that comes first is at the head of its      *)
(* queue.                                                                  *)
LEMMA LastHasReceived ==
  ASSUME IInv, MoreInv, ~SomethingCanGoOn, transport # "put", NEW p \in PE, InBatch(p),
         \A q \in PE : InBatch(q) => round[p] <= round[q], NEW s \in Side
  PROVE  recvReq[p][s] = "complete"
<1> SUFFICES ASSUME recvReq[p][s] # "complete"
             PROVE  FALSE
  OBVIOUS
<1>0. Types /\ Requests /\ Queues /\ ~ExchangeCanGoOn(p) /\ round[p] \in Nat
  BY Shape DEF IInv, SomethingCanGoOn
<1>1. PICK u \in Side : recvReq[p][u] = "active" /\ ~WaitsForCall(p, u, FirstRecv, recvReq)
  <2>1. recvReq[p][s] = "active"
    BY WaitsForOthers
  <2> QED
    BY <2>1 DEF WaitsForCall, FirstRecv, Side
<1> DEFINE q == Neighbour(p, u)
           o == Opp(u)
<1>2. q \in PE /\ o \in Side /\ Neighbour(q, o) = p /\ Opp(o) = u
  BY RingNeighbours
<1>3. Queue(q, o) = <<>>
  BY <1>0, <1>1 DEF ExchangeCanGoOn, TransferCanGoOn
<1>4. Len(Queue(q, o)) = SentNo(q, o) - RecvNo(p, u) /\ Len(Queue(q, o)) = 0
  BY <1>0, <1>2, <1>3, QueueIs DEF Queues, QueueHolds
<1>5. \A t \in Side : Sent(q, t) >= round[p] + 1 /\ Sent(q, t) \in Nat
  BY <1>2, AheadHasSent
<1>6. Received(p, u) = round[p] /\ \A t \in Side : Received(p, t) \in {round[p], round[p] + 1}
  BY <1>0, <1>1, SMT DEF Received
<1>7. CASE ~Shared
  <2>1. SentNo(q, o) = Sent(q, o) /\ RecvNo(p, u) = Received(p, u)
    BY <1>7 DEF SentNo, RecvNo
  <2> QED
    BY <1>0, <1>2, <1>4, <1>5, <1>6, <2>1, SMT
<1>8. CASE Shared
  <2>1. /\ SentNo(q, o) = Sent(q, "right") + Sent(q, "left")
        /\ RecvNo(p, u) = Received(p, "left") + Received(p, "right")
    BY <1>8 DEF SentNo, RecvNo
  <2>2. /\ Sent(q, "right") >= round[p] + 1 /\ Sent(q, "right") \in Nat
        /\ Sent(q, "left") >= round[p] + 1 /\ Sent(q, "left") \in Nat
        /\ Received(p, "left") \in {round[p], round[p] + 1}
        /\ Received(p, "right") \in {round[p], round[p] + 1}
        /\ Received(p, "left") = round[p] \/ Received(p, "right") = round[p]
    BY <1>5, <1>6 DEF Side
  <2>3. SentNo(q, o) >= 2 * round[p] + 2 /\ SentNo(q, o) \in Nat
    <3> HIDE DEF q, o
    <3> QED
      BY <1>0, <2>1, <2>2, SMT
  <2>4. RecvNo(p, u) <= 2 * round[p] + 1 /\ RecvNo(p, u) \in Nat
    <3> HIDE DEF q, o
    <3> QED
      BY <1>0, <2>1, <2>2, SMT
  <2>5. SentNo(q, o) - RecvNo(p, u) = 0
    BY <1>4
  <2> HIDE DEF q, o
  <2> QED
    BY <1>0, <2>3, <2>4, <2>5, SMT
<1> QED
  BY <1>7, <1>8

(* Messages and groups: no rank is left in a batch, as the one furthest    *)
(* behind has received everything, and so have those that its sends are    *)
(* for.                                                                    *)
LEMMA MessagesGoOn ==
  ASSUME IInv, MoreInv, ~SomethingCanGoOn, transport # "put", NEW r \in PE, InBatch(r)
  PROVE  FALSE
<1> DEFINE Rounds == {round[q] : q \in {w \in PE : InBatch(w)}}
<1>0. Types /\ SentUnmatched /\ \A q \in PE : round[q] \in Nat
  BY Shape DEF IInv, MoreInv
<1>1. Rounds \subseteq Nat /\ Rounds # {}
  BY <1>0
<1>2. PICK least \in Rounds : \A k \in Rounds : least <= k
  <2> HIDE DEF Rounds
  <2> QED
    BY <1>1, Least
<1>3. PICK p \in PE : InBatch(p) /\ \A q \in PE : InBatch(q) => round[p] <= round[q]
  BY <1>2
<1>4. \A s \in Side : recvReq[p][s] = "complete"
  BY <1>3, LastHasReceived
<1>5. \E s \in Side : sendReq[p][s] = "sent"
  <2>1. ~ExchangeCanGoOn(p) /\ \A s \in Side : Posted(p, s)
    BY <1>3, WaitsForOthers DEF SomethingCanGoOn
  <2> QED
    BY <1>4, <2>1 DEF ExchangeCanGoOn, Posted
<1>10. PICK s \in Side : sendReq[p][s] = "sent"
  BY <1>5
<1> DEFINE q == Neighbour(p, s)
           o == Opp(s)
<1>6. q \in PE /\ o \in Side /\ Received(q, o) <= round[p]
  BY <1>0, <1>10, RingNeighbours DEF SentUnmatched
<1> HIDE DEF q, o
<1>7. Received(q, o) \in {round[q], round[q] + 1} /\ (recvReq[q][o] = "complete" => Received(q, o) = round[q] + 1)
  BY <1>0, <1>6, SMT DEF Received
<1>8. CASE InBatch(q)
  <2>1. round[p] <= round[q] /\ round[q] <= round[p]
    BY <1>0, <1>3, <1>6, <1>7, <1>8, SMT
  <2>2. \A w \in PE : InBatch(w) => round[q] <= round[w]
    BY <1>0, <1>3, <1>6, <2>1, SMT
  <2>3. recvReq[q][o] = "complete"
    BY <1>6, <1>8, <2>2, LastHasReceived
  <2> QED
    BY <1>0, <1>6, <1>7, <2>1, <2>3, SMT
<1>9. CASE ~InBatch(q)
  <2>1. round[q] >= round[p] + 1
    BY <1>3, <1>6, <1>9, AheadHasSent
  <2> QED
    BY <1>0, <1>3, <1>6, <1>7, <2>1, SMT
<1> QED
  BY <1>8, <1>9

(* Puts: every rank that has not left the batch has arrived at its barrier. *)
LEMMA PutsGoOn ==
  ASSUME IInv, ~SomethingCanGoOn, transport = "put", NEW p \in PE, InBatch(p)
  PROVE  FALSE
<1>0. Types /\ SameBatch /\ puts = {} /\ \A q \in PE : ~RankCanGoOn(q) /\ round[q] \in Nat
  BY Shape DEF IInv, SomethingCanGoOn
<1>1. \A q \in PE : InBatch(q) => host[q] = "arrived"
  BY <1>0 DEF InBatch, RankCanGoOn
<1>2. \A q \in PE : ~InBatch(q) => round[q] = round[p] + 1
  BY <1>0 DEF SameBatch, EndRound
<1>3. \A q \in PE : ~InBatch(q) => round[q] > round[p]
  BY <1>0, <1>2, SMT
<1> QED
  BY <1>0, <1>1, <1>3 DEF RankCanGoOn

(* Whether the library buffers or a send waits for its receive, with two   *)
(* ranks or many: requests started together, calls of a group matched in   *)
(* their order and puts with a barrier never leave a rank waiting for one  *)
(* that waits for it.                                                      *)
THEOREM NobodyStuckHolds == Spec => []NobodyStuck
<1>1. Init => MoreInv
  <2>1. Init => \A p \in PE : /\ host[p] = "before"
                              /\ \A s \in Side : sendReq[p][s] = "inactive" /\ recvReq[p][s] = "inactive"
    BY DEF Init, LoopStart, WireIdle
  <2> QED
    BY <2>1 DEF MoreInv, CaseEnds, OneExchange, SentUnmatched
<1>2. IInv /\ MoreInv => NobodyStuck
  <2> SUFFICES ASSUME IInv, MoreInv, ~SomethingCanGoOn, NEW r \in PE, host[r] # "exit"
               PROVE  FALSE
    BY DEF NobodyStuck
  <2>0. /\ Types /\ SameBatch /\ CaseEnds
        /\ \A p \in PE : Stage(p) /\ ~RankCanGoOn(p)
    BY DEF IInv, MoreInv, Stages, SomethingCanGoOn
  <2>1. \A p \in PE : ~InBatch(p)
    BY MessagesGoOn, PutsGoOn
  <2>2. \A p \in PE : host[p] \in {"aligned", "verdict"}
    <3>1. \A p \in PE : host[p] \in {"aligned", "verdict", "exit"}
      BY <2>0, <2>1 DEF RankCanGoOn, InBatch, Types, HostPC
    <3> QED
      BY <2>0, <3>1 DEF CaseEnds
  <2>3. PICK p \in PE, q \in PE : host[p] = "aligned" /\ host[q] = "verdict"
    BY <2>2 DEF SomethingCanGoOn, AllCanGoOn
  <2>4. /\ batch[p] <= Samples(bench[p]) /\ batch[q] = Samples(bench[q])
        /\ batch[p] \in Nat /\ batch[q] \in Nat /\ Samples(bench[p]) \in Nat
    BY <2>0, <2>3, Shape DEF CaseEnds, Stage
  <2>5. batch[p] = batch[q] + 1 /\ bench[p] = bench[q]
    <3>1. Begun(p) = Begun(q) /\ bench[p] = bench[q]
      BY <2>0 DEF SameBatch
    <3> QED
      BY <2>3, <3>1 DEF Begun
  <2> QED
    BY <2>4, <2>5, SMT
<1> QED
  BY <1>1, <1>2, MoreInvStep, Inductive, PTL DEF Spec

=============================================================================
