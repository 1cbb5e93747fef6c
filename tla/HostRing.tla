------------------------------ MODULE HostRing ------------------------------
(***************************************************************************)
(* The ring halo exchanges the host drives, each rank with one thread and  *)
(* the same loop: it poisons its halos, aligns with the others, runs a     *)
(* batch of exchanges, validates, and combines the verdicts.               *)
(*                                                                         *)
(*   mpi    (mpi/{cuda,sycl}/microbench/halo_1d) four persistent requests, *)
(*          started and completed together once per exchange;              *)
(*   group  (xccl/{cuda,sycl}/microbench/halo_1d) one group of two         *)
(*          receives and two sends per exchange, all groups of a batch     *)
(*          queued on a stream that runs them in order, and one            *)
(*          synchronisation at the end of the batch;                       *)
(*   put    (shmem/oshmpi/microbench/halo_1d) two nonblocking puts per     *)
(*          exchange, all in flight at once, then quiet, a device          *)
(*          synchronisation and a barrier at the end of the batch.         *)
(*                                                                         *)
(* A two-sided library may buffer a message, so that its send completes at *)
(* once, or complete the send only when the receive has matched it.        *)
(* Messages between two ranks do not overtake each other: MPI tells them   *)
(* apart by tag, NCCL and oneCCL by the order of the calls alone.  Puts    *)
(* are delivered in any order.                                             *)
(***************************************************************************)
EXTENDS RingTopology, Batches

ASSUME BatchAssumption ==
  {Sizes, Iterations, Warmup, SteadySamples, IsolatedSamples} \subseteq Nat \ {0}

VARIABLES
  transport, (* Which of the programs runs.                                *)
  host,      (* Where each rank's host thread is.                          *)
  bench,     (* The case it is in: a halo size with a batch length.        *)
  batch,     (* The batch of that case, 0 for the warm-up.                 *)
  issued,    (* Exchanges of that batch it has issued.                     *)
  it,        (* Exchanges of that batch that are over, one by one.         *)
  round,     (* Rounds of the ring it has completed, over all batches: an  *)
             (* exchange, or with puts a whole batch.                      *)
  ok,        (* Its local_ok of the case.                                  *)
  all_ok,    (* Its all_cases_ok, which is failures == 0 of the puts.      *)
  sendReq,   (* sendReq[p][s]: its current send towards side s.            *)
  recvReq,   (* recvReq[p][s]: its current receive for the halo at side s. *)
  chan,      (* chan[src][dst][tag]: messages sent and not yet matched.    *)
  puts,      (* Puts in flight.                                            *)
  recv       (* recv[p][s]: what the halo of p at side s holds.            *)

loopVars == <<transport, bench, batch>>
okVars == <<ok, all_ok>>
countVars == <<issued, it, round>>
wireVars == <<sendReq, recvReq, chan, puts>>
vars == <<host, loopVars, okVars, countVars, wireVars, recv>>

(* What a halo is cleared to, zeros or 0xA5: the boundary of no exchange.  *)
Poison == [src |-> 0, end |-> "left", round |-> 0]

(* tag 0: messages travelling right; tag 1: messages travelling left.      *)
(* Groups have no tags.                                                    *)
Tag(dir) == IF transport = "mpi" /\ dir = "left" THEN 1 ELSE 0

(* Fault: the boundaries are sent in the order the halos are received in.  *)
FirstSendLeft == "left"

(* Of the calls of a group, the receive of the left halo comes before that *)
(* of the right one, and the send of the right boundary before the left.   *)
FirstRecv == "left"
FirstSend == "right"

(* Whether a call of p waits for the other one to the same peer: calls of  *)
(* a group to one peer are matched in order.                               *)
WaitsForCall(p, s, first, req) ==
  /\ transport = "group" /\ s # first
  /\ Neighbour(p, s) = Neighbour(p, first) /\ req[p][first] = "active"

(* A boundary: whose, of which end of its interior, of which round.        *)
Boundary == [src : PE, end : Side, round : Nat]
Put == [of : Boundary, nth : Nat]

(* The boundary the neighbour at side s sends in the given round:          *)
(* expect_left is the left neighbour's right_marker, and conversely.       *)
Expected(p, s, r) == [src |-> Neighbour(p, s), end |-> Opp(s), round |-> r]

Mine(p, s) == [src |-> p, end |-> s, round |-> round[p] + 1]

BatchLen(p) == Count(bench[p], batch[p])

HostPC == {"before", "aligned", "body", "wait", "arrived", "after", "verdict", "exit"}
ReqState == {"inactive", "active", "sent", "complete"}

TypeOK ==
  /\ transport \in {"mpi", "group", "put"}
  /\ host \in [PE -> HostPC]
  /\ bench \in [PE -> 1 .. Cases]
  /\ \A p \in PE : batch[p] \in 0 .. Samples(bench[p])
  /\ \A p \in PE : it[p] \in 0 .. issued[p] /\ issued[p] \in 0 .. BatchLen(p)
  /\ round \in [PE -> Nat]
  /\ ok \in [PE -> BOOLEAN] /\ all_ok \in [PE -> BOOLEAN]
  /\ sendReq \in [PE -> [Side -> ReqState]]
  /\ recvReq \in [PE -> [Side -> ReqState \ {"sent"}]]
  /\ \A p, q \in PE, t \in {0, 1} : chan[p][q][t] \in Seq(Boundary)
  /\ puts \subseteq Put
  /\ recv \in [PE -> [Side -> Boundary]]

(* Every rank before the warm-up of the first halo size.                   *)
LoopStart ==
  /\ host = [p \in PE |-> "before"]
  /\ bench = [p \in PE |-> 1]
  /\ batch = [p \in PE |-> 0]
  /\ issued = [p \in PE |-> 0]
  /\ it = [p \in PE |-> 0]
  /\ round = [p \in PE |-> 0]

(* The requests are made, none is started, and nothing is under way.       *)
WireIdle ==
  /\ sendReq = [p \in PE |-> [s \in Side |-> "inactive"]]
  /\ recvReq = [p \in PE |-> [s \in Side |-> "inactive"]]
  /\ chan = [p \in PE |-> [q \in PE |-> [t \in {0, 1} |-> <<>>]]]
  /\ puts = {}

(* The halos are cleared when the buffer is allocated.                     *)
Init ==
  /\ transport \in {"mpi", "group", "put"}
  /\ LoopStart
  /\ WireIdle
  /\ ok = [p \in PE |-> TRUE]
  /\ all_ok = [p \in PE |-> TRUE]
  /\ recv = [p \in PE |-> [s \in Side |-> Poison]]

-----------------------------------------------------------------------------
(* The body of a batch.                                                    *)

(* The next exchange of the batch is issued: MPI_Startall, after which the *)
(* rank waits; a group, queued behind the earlier ones; or its two puts.   *)
Issue(p) ==
  /\ host[p] = "body"
  /\ issued' = [issued EXCEPT ![p] = @ + 1]
  /\ host' = [host EXCEPT ![p] = IF transport = "mpi" \/ issued[p] + 1 = BatchLen(p)
                                 THEN "wait" ELSE @]
  /\ puts' = IF transport = "put"
             THEN puts \cup {[of |-> Mine(p, s), nth |-> issued[p] + 1] : s \in Side}
             ELSE puts
  /\ UNCHANGED <<loopVars, okVars, it, round, sendReq, recvReq, chan, recv>>

(* Fault: the calls are not grouped, so the stream runs one after another, *)
(* the receives first.                                                     *)
BeginUngrouped(p) ==
  LET over == \A s \in Side : recvReq[p][s] = "complete"
  IN  /\ transport # "put" /\ it[p] < issued[p]
      /\ \A s \in Side : sendReq[p][s] = "inactive"
      /\ IF over THEN sendReq' = [sendReq EXCEPT ![p] = [s \in Side |-> "active"]]
                        /\ UNCHANGED recvReq
                 ELSE recvReq' = [recvReq EXCEPT ![p] = [s \in Side |->
                                    IF @[s] = "inactive" THEN "active" ELSE @[s]]]
                        /\ UNCHANGED sendReq
      /\ UNCHANGED <<host, loopVars, okVars, countVars, chan, puts, recv>>

(* The library starts the requests, or the stream reaches the next group:  *)
(* all four transfers of the exchange are under way together.              *)
Begin(p) ==
  /\ transport # "put" /\ it[p] < issued[p]
  /\ \A s \in Side : sendReq[p][s] = "inactive" /\ recvReq[p][s] = "inactive"
  /\ sendReq' = [sendReq EXCEPT ![p] = [s \in Side |-> "active"]]
  /\ recvReq' = [recvReq EXCEPT ![p] = [s \in Side |-> "active"]]
  /\ UNCHANGED <<host, loopVars, okVars, countVars, chan, puts, recv>>

(* The library takes up a started send, buffering the message or not.      *)
Inject(p, s) ==
  /\ sendReq[p][s] = "active" /\ ~WaitsForCall(p, s, FirstSend, sendReq)
  /\ \E done \in {"sent", "complete"} : sendReq' = [sendReq EXCEPT ![p][s] = done]
  /\ chan' = [chan EXCEPT ![p][Neighbour(p, s)][Tag(s)] = Append(@, Mine(p, s))]
  /\ UNCHANGED <<host, loopVars, okVars, countVars, recvReq, puts, recv>>

(* A started receive matches the oldest message of its source and tag; a   *)
(* send that was waiting for it completes.                                 *)
Match(p, s) ==
  LET src == Neighbour(p, s)
      tag == Tag(Opp(s))
  IN  /\ recvReq[p][s] = "active" /\ ~WaitsForCall(p, s, FirstRecv, recvReq)
      /\ chan[src][p][tag] # <<>>
      /\ LET m == Head(chan[src][p][tag])
         IN  /\ recv' = [recv EXCEPT ![p][s] = m]
             /\ sendReq' = [sendReq EXCEPT ![src][m.end] =
                              IF m.round = round[src] + 1 THEN "complete" ELSE @]
      /\ chan' = [chan EXCEPT ![src][p][tag] = Tail(@)]
      /\ recvReq' = [recvReq EXCEPT ![p][s] = "complete"]
      /\ UNCHANGED <<host, loopVars, okVars, countVars, puts>>

(* Fault: an exchange is over when its sends are.                          *)
EndOfSends(p) ==
  /\ \A s \in Side : sendReq[p][s] = "complete"
  /\ it' = [it EXCEPT ![p] = @ + 1]
  /\ round' = [round EXCEPT ![p] = @ + 1]
  /\ sendReq' = [sendReq EXCEPT ![p] = [s \in Side |-> "inactive"]]
  /\ recvReq' = [recvReq EXCEPT ![p] = [s \in Side |-> "inactive"]]
  /\ UNCHANGED <<host, loopVars, okVars, issued, chan, puts, recv>>

(* The exchange is over: both sends and both receives are complete.        *)
EndExchange(p) ==
  /\ \A s \in Side : sendReq[p][s] = "complete" /\ recvReq[p][s] = "complete"
  /\ it' = [it EXCEPT ![p] = @ + 1]
  /\ round' = [round EXCEPT ![p] = @ + 1]
  /\ sendReq' = [sendReq EXCEPT ![p] = [s \in Side |-> "inactive"]]
  /\ recvReq' = [recvReq EXCEPT ![p] = [s \in Side |-> "inactive"]]
  /\ UNCHANGED <<host, loopVars, okVars, issued, chan, puts, recv>>

(* A put reaches the facing halo of the neighbour.                         *)
Deliver(m) ==
  /\ puts' = puts \ {m}
  /\ recv' = [recv EXCEPT ![Neighbour(m.of.src, m.of.end)][Opp(m.of.end)] = m.of]
  /\ UNCHANGED <<host, loopVars, okVars, countVars, sendReq, recvReq, chan>>

(* After the batch: the first sample follows the warm-up at once, a sample *)
(* is validated.                                                           *)
EndBatch(p) ==
  /\ host' = [host EXCEPT ![p] = IF batch[p] = 0 THEN "before" ELSE "after"]
  /\ batch' = [batch EXCEPT ![p] = IF @ = 0 THEN 1 ELSE @]
  /\ issued' = [issued EXCEPT ![p] = 0]
  /\ it' = [it EXCEPT ![p] = 0]

(* MPI_Waitall returns, after each exchange; or the stream has drained,    *)
(* after the last one.                                                     *)
Wait(p) ==
  /\ host[p] = "wait" /\ transport # "put"
  /\ it[p] = issued[p]
  /\ IF issued[p] < BatchLen(p)
     THEN host' = [host EXCEPT ![p] = "body"] /\ UNCHANGED <<batch, issued, it>>
     ELSE EndBatch(p)
  /\ UNCHANGED <<transport, bench, round, okVars, wireVars, recv>>

(* shmem_quiet and cudaDeviceSynchronize: the puts of p are all complete.  *)
Quiet(p) ==
  /\ host[p] = "wait" /\ transport = "put"
  /\ \A m \in puts : m.of.src # p
  /\ host' = [host EXCEPT ![p] = "arrived"]
  /\ UNCHANGED <<loopVars, okVars, countVars, wireVars, recv>>

(* shmem_barrier_all at the end of the batch: p leaves when every PE has   *)
(* arrived, or has left already.                                           *)
LeaveBatch(p) ==
  /\ host[p] = "arrived"
  /\ \A q \in PE : host[q] = "arrived" \/ round[q] > round[p]
  /\ round' = [round EXCEPT ![p] = @ + 1]
  /\ EndBatch(p)
  /\ UNCHANGED <<transport, bench, okVars, wireVars, recv>>

-----------------------------------------------------------------------------
(* The loop around it.                                                     *)

(* Fault: before_batch without its barrier.                                *)
PoisonWithoutBarrier(p) ==
  /\ host[p] = "before"
  /\ host' = [host EXCEPT ![p] = "body"]
  /\ recv' = [recv EXCEPT ![p] = [s \in Side |-> Poison]]
  /\ UNCHANGED <<loopVars, okVars, countVars, wireVars>>

(* before_batch: clear both halos and synchronise with the device, then    *)
(* enter the barrier.                                                      *)
PoisonHalos(p) ==
  /\ host[p] = "before"
  /\ host' = [host EXCEPT ![p] = "aligned"]
  /\ recv' = [recv EXCEPT ![p] = [s \in Side |-> Poison]]
  /\ UNCHANGED <<loopVars, okVars, countVars, wireVars>>

Barrier ==
  /\ \A p \in PE : host[p] = "aligned"
  /\ host' = [p \in PE |-> "body"]
  /\ UNCHANGED <<loopVars, okVars, countVars, wireVars, recv>>

(* Both halos hold the neighbours' markers, which are the same in every    *)
(* round.                                                                  *)
HoldsMarkers(p) ==
  \A s \in Side : \E r \in 1 .. round[p] : recv[p][s] = Expected(p, s, r)

(* after_batch: what a sample left in the halos counts for the whole case. *)
Validate(p) ==
  /\ host[p] = "after"
  /\ ok' = [ok EXCEPT ![p] = @ /\ HoldsMarkers(p)]
  /\ IF batch[p] < Samples(bench[p])
     THEN /\ host' = [host EXCEPT ![p] = "before"]
          /\ batch' = [batch EXCEPT ![p] = @ + 1]
     ELSE /\ host' = [host EXCEPT ![p] = "verdict"]
          /\ UNCHANGED batch
  /\ UNCHANGED <<transport, bench, all_ok, countVars, wireVars, recv>>

(* The conjunction of all local_ok, which every rank gets: by MPI_LAND, or *)
(* through the flags of PE 0 (ShmemVerdict has those in detail).           *)
GlobalOk == \A q \in PE : ok[q]

(* The statistics and the verdict; then the next case, or the end.         *)
Verdict ==
  /\ \A p \in PE : host[p] = "verdict"
  /\ all_ok' = [p \in PE |-> all_ok[p] /\ GlobalOk]
  /\ LET last(p) == bench[p] = Cases
     IN  /\ host' = [p \in PE |-> IF last(p) THEN "exit" ELSE "before"]
         /\ bench' = [p \in PE |-> IF last(p) THEN bench[p] ELSE bench[p] + 1]
         /\ batch' = [p \in PE |-> IF last(p) THEN batch[p] ELSE 0]
         /\ ok' = [p \in PE |-> IF last(p) THEN ok[p] ELSE TRUE]
  /\ UNCHANGED <<transport, countVars, wireVars, recv>>

-----------------------------------------------------------------------------
RankStep(p) ==
  \/ Issue(p) \/ Wait(p) \/ Quiet(p) \/ LeaveBatch(p)
  \/ PoisonHalos(p) \/ Validate(p)

Progress ==
  \/ \E p \in PE : Begin(p) \/ EndExchange(p)
  \/ \E p \in PE, s \in Side : Inject(p, s) \/ Match(p, s)
  \/ \E m \in puts : Deliver(m)

Next == (\E p \in PE : RankStep(p)) \/ Progress \/ Barrier \/ Verdict

Spec == Init /\ [][Next]_vars

(* Every rank runs, the library and the stream make progress, and a        *)
(* collective call that all ranks have entered returns.                    *)
Fairness ==
  /\ \A p \in PE : WF_vars(RankStep(p))
  /\ WF_vars(Progress)
  /\ WF_vars(Barrier \/ Verdict)

FairSpec == Spec /\ Fairness

-----------------------------------------------------------------------------
(* Properties.                                                             *)

(* When the host has waited, each halo holds exactly the boundary that     *)
(* faces it, of exactly the round just completed: even with two ranks,     *)
(* where both messages come from the same neighbour, with one rank ahead,  *)
(* and with the puts of a batch delivered in any order.                    *)
HaloFacesNeighbour ==
  \A p \in PE :
    host[p] = "after" \/ (host[p] = "body" /\ it[p] = issued[p] /\ it[p] > 0) =>
      \A s \in Side : recv[p][s] = Expected(p, s, round[p])

(* Nothing of a batch is left for the next one: while a rank clears or     *)
(* reads its halos nothing is on its way to it and no request is active.   *)
BatchesSeparate ==
  \A p \in PE : host[p] \in {"before", "aligned", "after", "verdict", "exit"} =>
    /\ \A q \in PE, t \in {0, 1} : chan[q][p][t] = <<>>
    /\ \A m \in puts : Neighbour(m.of.src, m.of.end) # p
    /\ \A s \in Side : sendReq[p][s] = "inactive" /\ recvReq[p][s] = "inactive"

(* The exchange implements the abstract ring: a rank completes a round     *)
(* only when both neighbours have sent theirs.  With puts the round is the *)
(* batch: "the ring dependency only has to hold at the batch boundary".    *)
HasPosted(p, s) ==
  IF transport = "put"
  THEN /\ host[p] \in {"wait", "arrived"}
       /\ \A m \in puts : ~(m.of.src = p /\ m.of.end = s)
  ELSE sendReq[p][s] \in {"sent", "complete"}

RingPosted ==
  [p \in PE |-> [s \in Side |-> round[p] + (IF HasPosted(p, s) THEN 1 ELSE 0)]]

Ring == INSTANCE RingExchange WITH Rounds <- Nat, posted <- RingPosted, done <- round

ImplementsRing == Ring!Spec

(* Whether or not the library buffers, no rank waits for ever: every rank  *)
(* goes through all its batches and leaves with a valid verdict.           *)
Termination == <>(\A p \in PE : host[p] = "exit" /\ all_ok[p])

=============================================================================
