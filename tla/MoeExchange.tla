----------------------------- MODULE MoeExchange -----------------------------
(***************************************************************************)
(* The moe programs: every iteration dispatches the tokens of each rank to *)
(* their experts and combines them back, with the buffers of include/moe.hpp. *)
(*                                                                         *)
(* One-sided (shmem/{nvshmem,oshmpi}/application/moe.cu): a phase is one   *)
(* put per peer into the place the peer's own plan keeps for the sender,   *)
(* then quiet and a barrier.  Where RMA may leave device work behind       *)
(* (OSHMPI), a device synchronisation follows quiet: together they         *)
(* complete the puts.                                                      *)
(*                                                                         *)
(* Two-sided (xccl/{cuda,sycl}/application/moe, and MPI_Alltoallv, which   *)
(* promises the same): a phase is one group of a send and a receive per    *)
(* peer that has tokens, and no barrier follows it.  oneCCL may lack point *)
(* to point: a probe around the ring comes first, and the ranks reduce     *)
(* what each of them met to one decision.                                  *)
(*                                                                         *)
(* No buffer is cleared between iterations and all send the same tokens;   *)
(* the model numbers them.                                                 *)
(***************************************************************************)
EXTENDS MoePlan

CONSTANT Rounds  (* Iterations, warm-up included.                          *)

ASSUME RoundsAssumption == Rounds \in Nat \ {0}

VARIABLES
  transport, (* "puts", "groups" or "probed" groups, for the whole run.    *)
  route,     (* The expert of each token.                                  *)
  pc,        (* Where each PE is.                                          *)
  round,     (* Its iteration.                                             *)
  dispatch,  (* Its device_dispatch: a token per slot.                     *)
  combined,  (* Its device_combined.                                       *)
  puts,      (* Puts in flight, and sends whose group is not over.        *)
  status,    (* local_probe_status: worked, unsupported or failed.         *)
  posted     (* The calls of the probe that have been made.                *)

probe == <<status, posted>>
setup == <<transport, route, probe>>
vars == <<transport, route, probe, pc, round, dispatch, combined, puts>>

Item == [src : PE, token : Token, round : 0 .. Rounds]
Zero == [src |-> 0, token |-> 0, round |-> 0]

Phase == {"dispatch", "combine"}
Put == [src : PE, dst : PE, phase : Phase, round : 1 .. Rounds]

(* Every phase goes through the same calls.                                *)
Call == {"put", "quiet", "barrier", "group"}
ProbePC == {"probe"} \X {"post", "wait", "reduce"}
Over == {<<"done", "exit">>, <<"skipped", "exit">>, <<"aborted", "exit">>}

Transports == {"puts", "groups", "probed"}

TypeOK ==
  /\ transport \in Transports /\ route \in Routings
  /\ pc \in [PE -> (Phase \X Call) \cup ProbePC \cup Over]
  /\ round \in [PE -> 1 .. Rounds]
  /\ dispatch \in [PE -> [0 .. MaxExpertTokens(route) - 1 -> Item]]
  /\ combined \in [PE -> [Token -> Item]]
  /\ puts \subseteq Put
  /\ status \in [PE -> 0 .. 2] /\ posted \subseteq PE \X {"recv", "send"}

(* The buffers, allocated and cleared when the plan of a case is made.     *)
Cleared(r) == [p \in PE |-> [i \in 0 .. MaxExpertTokens(r) - 1 |-> Zero]]

(* Under the probe there is no plan yet, and the route stands for none.    *)
Init ==
  /\ transport \in Transports /\ route \in Routings
  /\ transport = "probed" => route = [p \in PE |-> [t \in Token |-> 0]]
  /\ pc = [p \in PE |-> IF transport = "probed" THEN <<"probe", "post">> ELSE <<"dispatch", "put">>]
  /\ round = [p \in PE |-> 1]
  /\ dispatch = Cleared(route)
  /\ combined = [p \in PE |-> [t \in Token |-> Zero]]
  /\ puts = {}
  /\ status = [p \in PE |-> 0] /\ posted = {}

Goto(p, from, to) == pc[p] = from /\ pc' = [pc EXCEPT ![p] = to]

-----------------------------------------------------------------------------
(* The probe of oneCCL.                                                    *)

(* A message without the words for missing point to point is a failure.    *)
Unsupported == 1
Failed == 2

(* The two calls of a probe: a receive from the left, a send to the right. *)
ProbeCall == {"recv", "send"}
Left(p) == (p + N - 1) % N
Right(p) == (p + 1) % N

Probing(p, from, to) ==
  /\ Goto(p, from, to)
  /\ UNCHANGED <<transport, route, round, dispatch, combined, puts>>

(* local_probe_status keeps the worst of what the probe met.               *)
Raise(p) ==
  \E s \in {Unsupported, Failed} : status' = [status EXCEPT ![p] = Max({@, s})]

(* The calls are made in one group; any of them may throw, and so may its  *)
(* end, which leaves the calls made before.                                *)
PostProbe(p) ==
  /\ Probing(p, <<"probe", "post">>, <<"probe", "wait">>)
  /\ \/ posted' = posted \cup ({p} \X ProbeCall) /\ UNCHANGED status
     \/ \E made \in {{}, {"recv"}, ProbeCall} :
          posted' = posted \cup ({p} \X made) /\ Raise(p)

(* The events of the calls that were made complete once the neighbours     *)
(* have made theirs.                                                       *)
WaitProbe(p) ==
  /\ <<p, "recv">> \in posted => <<Left(p), "send">> \in posted
  /\ <<p, "send">> \in posted => <<Right(p), "recv">> \in posted
  /\ Probing(p, <<"probe", "wait">>, <<"probe", "reduce">>)
  /\ UNCHANGED probe

(* Fault: a failed wait ends the rank before the reduction.                *)
ProbeThrows(p) ==
  /\ \E c \in ProbeCall : <<p, c>> \in posted
  /\ Probing(p, <<"probe", "wait">>, <<"aborted", "exit">>)
  /\ Raise(p)
  /\ UNCHANGED posted

(* A wait may throw instead, which the rank keeps for the reduction.       *)
ProbeFails(p) ==
  /\ \E c \in ProbeCall : <<p, c>> \in posted
  /\ Probing(p, <<"probe", "wait">>, <<"probe", "reduce">>)
  /\ Raise(p)
  /\ UNCHANGED posted

(* What the sums of both counters over all ranks tell each rank to do.     *)
Decision ==
  IF \A p \in PE : status[p] = 0 THEN <<"dispatch", "put">>
  ELSE IF \A p \in PE : status[p] = Unsupported THEN <<"skipped", "exit">>
  ELSE <<"aborted", "exit">>

(* MPI_Allreduce of the counters of both statuses; if the groups work the  *)
(* plans are made, and all goes on as in NCCL.                             *)
ReduceProbe ==
  /\ \A p \in PE : pc[p] = <<"probe", "reduce">>
  /\ pc' = [p \in PE |-> Decision]
  /\ IF Decision = <<"dispatch", "put">>
     THEN /\ transport' = "groups" /\ route' \in Routings
          /\ dispatch' = Cleared(route')
          /\ posted' = {}
     ELSE UNCHANGED <<transport, route, dispatch, posted>>
  /\ UNCHANGED <<status, round, combined, puts>>

-----------------------------------------------------------------------------
(* The peers p sends to in a phase: in the dispatch the experts of its     *)
(* tokens, in the combine the sources of those it got.                     *)
To(p, phase) ==
  {q \in PE \ {p} : TokenCount(route, IF phase = "dispatch" THEN p ELSE q,
                                      IF phase = "dispatch" THEN q ELSE p) > 0}

From(p, phase) == {q \in PE : p \in To(q, phase)}

(* The block that src dispatches to dst, in the place dst keeps for it.    *)
Dispatched(src, dst, r) ==
  [dispatch EXCEPT ![dst] =
     [i \in DOMAIN @ |->
        IF i \in RecvSlots(route, dst, src)
        THEN LET slot == SendDispl(route, src, dst) + i - RecvDispl(route, dst, src)
             IN  [src |-> src, token |-> TokenAt(route, src, slot), round |-> r]
        ELSE @[i]]]

(* The block that src sends back to dst.                                   *)
Combined(src, dst) ==
  [combined EXCEPT ![dst] =
     [i \in Token |->
        IF i - SendDispl(route, dst, src) \in 0 .. TokenCount(route, dst, src) - 1
        THEN dispatch[src][RecvDispl(route, src, dst) + i - SendDispl(route, dst, src)]
        ELSE @[i]]]

PostTo(p, phase) ==
  /\ Goto(p, <<phase, "put">>, <<phase, IF transport = "puts" THEN "quiet" ELSE "group">>)
  /\ puts' = puts \cup {[src |-> p, dst |-> q, phase |-> phase, round |-> round[p]] :
                          q \in To(p, phase)}

(* One put or send per expert that gets tokens; the own block is copied.   *)
PutDispatch(p) ==
  /\ PostTo(p, "dispatch")
  /\ dispatch' = Dispatched(p, p, round[p])
  /\ UNCHANGED <<setup, round, combined>>

(* One put or send per source that sent tokens; the own block is copied.   *)
PutCombine(p) ==
  /\ PostTo(p, "combine")
  /\ combined' = Combined(p, p)
  /\ UNCHANGED <<setup, round, dispatch>>

(* Fault: the combine phase is not completed before its barrier.           *)
QuietDispatchOnly(p) ==
  /\ pc[p][1] = "dispatch" => \A m \in puts : m.src # p
  /\ \E f \in Phase : Goto(p, <<f, "quiet">>, <<f, "barrier">>)
  /\ UNCHANGED <<setup, round, dispatch, combined, puts>>

(* quiet, and cudaDeviceSynchronize: the puts of p are all complete.       *)
Quiet(p) ==
  /\ \A m \in puts : m.src # p
  /\ \E f \in Phase : Goto(p, <<f, "quiet">>, <<f, "barrier">>)
  /\ UNCHANGED <<setup, round, dispatch, combined, puts>>

NextPhase(p, at) ==
  IF at = "dispatch" THEN <<"combine", "put">>
  ELSE IF round[p] < Rounds THEN <<"dispatch", "put">> ELSE <<"done", "exit">>

RoundAfter(p, next) == IF next = <<"dispatch", "put">> THEN round[p] + 1 ELSE round[p]

(* shmem_barrier_all after a phase.                                        *)
Barrier ==
  /\ \A p \in PE : pc[p][2] = "barrier"
  /\ pc' = [p \in PE |-> NextPhase(p, pc[p][1])]
  /\ round' = [p \in PE |-> RoundAfter(p, pc'[p])]
  /\ UNCHANGED <<setup, dispatch, combined, puts>>

(* How far p is: phases it has posted.                                     *)
Posted(p) ==
  2 * round[p] + (IF pc[p][1] = "dispatch" THEN 0 ELSE 1) - (IF pc[p][2] = "put" THEN 1 ELSE 0)

(* Fault: a rank waits for its sends only.                                 *)
EndGroupRecvsOpen(p) ==
  /\ pc[p][2] = "group"
  /\ \A m \in puts : m.src # p
  /\ LET next == NextPhase(p, pc[p][1])
     IN  pc' = [pc EXCEPT ![p] = next] /\ round' = [round EXCEPT ![p] = RoundAfter(p, next)]
  /\ UNCHANGED <<setup, dispatch, combined, puts>>

(* The group is over: what p sends has arrived, and what it receives.      *)
EndGroup(p) ==
  /\ pc[p][2] = "group"
  /\ \A m \in puts : m.src # p
  /\ \A q \in From(p, pc[p][1]) :
       /\ Posted(q) >= Posted(p)
       /\ [src |-> q, dst |-> p, phase |-> pc[p][1], round |-> round[p]] \notin puts
  /\ LET next == NextPhase(p, pc[p][1])
     IN  pc' = [pc EXCEPT ![p] = next] /\ round' = [round EXCEPT ![p] = RoundAfter(p, next)]
  /\ UNCHANGED <<setup, dispatch, combined, puts>>

(* A put is delivered at any time, a send when its receive is posted.      *)
Deliver(m) ==
  /\ transport # "puts" => pc[m.dst] = <<m.phase, "group">> /\ round[m.dst] = m.round
  /\ puts' = puts \ {m}
  /\ IF m.phase = "dispatch"
     THEN dispatch' = Dispatched(m.src, m.dst, m.round) /\ UNCHANGED combined
     ELSE combined' = Combined(m.src, m.dst) /\ UNCHANGED dispatch
  /\ UNCHANGED <<setup, pc, round>>

-----------------------------------------------------------------------------
PEStep(p) ==
  \/ PostProbe(p) \/ WaitProbe(p)
  \/ PutDispatch(p) \/ PutCombine(p) \/ Quiet(p) \/ EndGroup(p)

Next ==
  \/ \E p \in PE : PEStep(p) \/ ProbeFails(p)
  \/ ReduceProbe
  \/ Barrier
  \/ \E m \in puts : Deliver(m)

(* Every PE keeps running, collectives and deliveries end; no wait has to  *)
(* throw.                                                                  *)
Spec ==
  /\ Init
  /\ [][Next]_vars
  /\ \A p \in PE : WF_vars(PEStep(p))
  /\ WF_vars(ReduceProbe)
  /\ WF_vars(Barrier)
  /\ WF_vars(\E m \in puts : Deliver(m))

-----------------------------------------------------------------------------
(* Properties.                                                             *)

PlansMade == \A p \in PE : pc[p] = <<"dispatch", "put">> /\ round[p] = 1

(* The plans, which the ranks make each for itself when a case starts, fit *)
(* together: what the senders put into an expert's buffer covers it from   *)
(* the start without overlap and within what every PE has allocated, and   *)
(* packing fills the send buffer.                                          *)
PlansFit ==
  PlansMade =>
    /\ \A e \in PE :
         /\ UNION {RecvSlots(route, e, s) : s \in PE} = 0 .. ExpertTokens(route, e) - 1
         /\ \A s, u \in PE : s # u => RecvSlots(route, e, s) \cap RecvSlots(route, e, u) = {}
         /\ ExpertTokens(route, e) <= MaxExpertTokens(route)
    /\ \A s \in PE : {PackedAt(route, s, t) : t \in Token} = Token

(* The n-th token, in increasing order, that s sends to e.                 *)
NthToken(s, e, n) ==
  CHOOSE t \in Routed(route, s, e) : Cardinality({u \in Routed(route, s, e) : u < t}) = n

(* From the barrier of the dispatch on, and for as long as the combine     *)
(* reads it, the buffer of an expert holds exactly the tokens of this      *)
(* iteration, by source and in increasing order, as validate_moe_dispatch  *)
(* expects them.                                                           *)
ExpertHoldsItsTokens ==
  \A e \in PE : pc[e][1] \in {"combine", "done"} =>
    \A s \in PE : \A n \in 0 .. TokenCount(route, s, e) - 1 :
      dispatch[e][RecvDispl(route, e, s) + n] =
        [src |-> s, token |-> NthToken(s, e, n), round |-> round[e]]

(* When an iteration is over, every PE has its own tokens of that very     *)
(* iteration back, each in the slot it was packed in.                      *)
TokensComeBack ==
  \A p \in PE : pc[p] \in {<<"dispatch", "put">>, <<"done", "exit">>} =>
    LET over == IF pc[p][1] = "done" THEN round[p] ELSE round[p] - 1
    IN  over > 0 => \A t \in Token :
          combined[p][PackedAt(route, p, t)] = [src |-> p, token |-> t, round |-> over]

(* The exchange, or the decision not to run it, ends on every PE: a wait   *)
(* that throws leaves nobody behind, and neither does a PE that gets no    *)
(* tokens.  A call of the probe that cannot be made on one rank may leave  *)
(* its neighbour waiting.                                                  *)
Termination ==
  \/ <>(\E p \in PE : pc[p] = <<"probe", "wait">> /\ ~({p} \X ProbeCall \subseteq posted))
  \/ <>(\A p \in PE : pc[p] \in Over)

=============================================================================
