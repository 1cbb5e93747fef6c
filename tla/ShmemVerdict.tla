---------------------------- MODULE ShmemVerdict ----------------------------
(***************************************************************************)
(* How the OSHMPI benchmarks combine what each PE measured and validated:  *)
(* collective_stats (include/stats/collective_shmem.hpp) gathers the       *)
(* sample series of a case to PE 0 with one-sided puts, and then each      *)
(* benchmark gathers the local verdicts of the case to PE 0's ok_by_pe.    *)
(* moe and allreduce hand the global verdict back in slot 0 of every PE's  *)
(* ok_by_pe; alltoall and cg_step do not (HandBack).  Both buffers are     *)
(* reused case after case.  Collectives adds the measured calls.           *)
(***************************************************************************)
EXTENDS Integers, FiniteSets

CONSTANTS
  N,        (* Number of PEs.                                              *)
  Cases,    (* Sizes, sides or routings the host loop goes through.        *)
  Series,   (* Sample series cg_step gathers per case: one, or with the    *)
            (* phase pass five.  The others gather one.                    *)
  Programs  (* The benchmarks considered.                                  *)

ASSUME VerdictAssumption ==
  /\ N \in Nat \ {0}
  /\ {Cases, Series} \subseteq Nat \ {0}
  /\ Programs \subseteq {"allreduce", "alltoall", "moe", "cg_step"}

PE == 0 .. N-1

VARIABLES
  program,  (* The benchmark that runs.                                    *)
  pc,       (* Where each PE is.                                           *)
  series,   (* The series it is at, counted over all cases.                *)
  puts,     (* Puts in flight.                                             *)
  gather,   (* PE 0's sample_gather: the series each PE's slot holds.      *)
  okByPE,   (* okByPE[p][q]: slot q of p's ok_by_pe.                       *)
  reduced,  (* The series PE 0 has reduced together.                       *)
  local,    (* local_ok of the case.                                       *)
  global,   (* global_ok of the case.                                      *)
  allOk     (* all_cases_ok.                                               *)

vars == <<program, pc, series, puts, gather, okByPE, reduced, local, global, allOk>>

(* Whether PE 0 puts the global verdict back to every PE.                  *)
HandBack == program \in {"allreduce", "moe"}

(* The series of a case, and of the whole sweep.                           *)
PerCase == IF program = "cg_step" THEN Series ELSE 1
Last == Cases * PerCase
SeriesOf == 1 .. Last

(* A put of a series to gather, or of a verdict to a slot of ok_by_pe.     *)
SeriesPut == [src : PE, series : SeriesOf]
VerdictPut == [src : PE, dst : PE, slot : PE, ok : BOOLEAN]

BarrierPC == {"statsBarrier", "statsEnd", "verdictBarrier", "caseEnd"}
PC == BarrierPC \cup {"stats", "statsQuiet", "statsRead", "validate",
                      "verdictQuiet", "combine", "handBackQuiet", "take", "exit"}

TypeOK ==
  /\ program \in Programs
  /\ pc \in [PE -> PC]
  /\ series \in [PE -> SeriesOf]
  /\ puts \subseteq (SeriesPut \cup VerdictPut)
  /\ gather \in [PE -> SeriesOf \cup {0}]
  /\ okByPE \in [PE -> [PE -> BOOLEAN]]
  /\ reduced \subseteq SeriesOf \cup {0}
  /\ {local, global, allOk} \subseteq [PE -> BOOLEAN]

(* shmem_malloc leaves ok_by_pe uninitialised: it may read either way.     *)
Init ==
  /\ program \in Programs
  /\ pc = [p \in PE |-> "stats"]
  /\ series = [p \in PE |-> 1]
  /\ puts = {}
  /\ gather = [p \in PE |-> 0]
  /\ \E v \in BOOLEAN : okByPE = [p \in PE |-> [q \in PE |-> v]]
  /\ reduced = {}
  /\ local = [p \in PE |-> TRUE]
  /\ global = [p \in PE |-> TRUE]
  /\ allOk = [p \in PE |-> TRUE]

Goto(p, from, to) == pc[p] = from /\ pc' = [pc EXCEPT ![p] = to]

-----------------------------------------------------------------------------
(* collective_stats.                                                       *)

(* shmem_putmem(gather + pe * count, in, ..., 0)                           *)
PutSeries(p) ==
  /\ Goto(p, "stats", "statsQuiet")
  /\ puts' = puts \cup {[src |-> p, series |-> series[p]]}
  /\ UNCHANGED <<program, series, gather, okByPE, reduced, local, global, allOk>>

(* Fault: the puts are not completed before the barrier.                   *)
QuietSkipped(p) ==
  /\ \/ Goto(p, "statsQuiet", "statsBarrier")
     \/ Goto(p, "verdictQuiet", "verdictBarrier")
     \/ Goto(p, "handBackQuiet", "caseEnd")
  /\ UNCHANGED <<program, series, puts, gather, okByPE, reduced, local, global, allOk>>

(* shmem_quiet: the puts p issued have all been delivered.                 *)
Quiet(p) ==
  /\ \A m \in puts : m.src # p
  /\ \/ Goto(p, "statsQuiet", "statsBarrier")
     \/ Goto(p, "verdictQuiet", "verdictBarrier")
     \/ Goto(p, "handBackQuiet", "caseEnd")
  /\ UNCHANGED <<program, series, puts, gather, okByPE, reduced, local, global, allOk>>

(* The next series of the case follows at once, without another barrier.   *)
LastOfCase(p) == series[p] % PerCase = 0

(* Fault: the second barrier of collective_stats is left out.              *)
ReadSeriesAndGo(p) ==
  /\ Goto(p, "statsRead", IF LastOfCase(p) THEN "statsEnd" ELSE "stats")
  /\ reduced' = IF p = 0 THEN {gather[q] : q \in PE} ELSE reduced
  /\ series' = [series EXCEPT ![p] = IF LastOfCase(p) THEN @ ELSE @ + 1]
  /\ UNCHANGED <<program, puts, gather, okByPE, local, global, allOk>>

(* PE 0 takes the element-wise maximum over all slots; the others keep     *)
(* their own series.                                                       *)
ReadSeries(p) ==
  /\ Goto(p, "statsRead", "statsEnd")
  /\ reduced' = IF p = 0 THEN {gather[q] : q \in PE} ELSE reduced
  /\ UNCHANGED <<program, series, puts, gather, okByPE, local, global, allOk>>

-----------------------------------------------------------------------------
(* The verdict.                                                            *)

(* The validation comes out either way; its flag is put to PE 0's slot pe. *)
Validate(p) ==
  /\ Goto(p, "validate", "verdictQuiet")
  /\ \E ok \in BOOLEAN :
       /\ local' = [local EXCEPT ![p] = ok]
       /\ puts' = puts \cup {[src |-> p, dst |-> 0, slot |-> p, ok |-> ok]}
  /\ UNCHANGED <<program, series, gather, okByPE, reduced, global, allOk>>

(* Fault: the barrier that ends the hand-back is PE 0's alone.             *)
CombineAlone(p) ==
  LET ok == IF p = 0 THEN \A q \in PE : okByPE[0][q] ELSE local[p]
      handsBack == HandBack /\ p = 0
  IN  /\ Goto(p, "combine", IF handsBack THEN "handBackQuiet" ELSE IF HandBack THEN "take" ELSE "caseEnd")
      /\ global' = [global EXCEPT ![p] = ok]
      /\ puts' = IF handsBack
                 THEN puts \cup {[src |-> 0, dst |-> q, slot |-> 0, ok |-> ok] : q \in PE}
                 ELSE puts
      /\ allOk' = IF HandBack THEN allOk ELSE [allOk EXCEPT ![p] = @ /\ ok]
      /\ UNCHANGED <<program, series, gather, okByPE, reduced, local>>

(* global_ok: on PE 0 all slots, elsewhere local_ok.  Handing back, PE 0   *)
(* puts it to slot 0 of every PE; otherwise all_cases_ok takes it.         *)
Combine(p) ==
  LET ok == IF p = 0 THEN \A q \in PE : okByPE[0][q] ELSE local[p]
      handsBack == HandBack /\ p = 0
  IN  /\ Goto(p, "combine", IF handsBack THEN "handBackQuiet" ELSE "caseEnd")
      /\ global' = [global EXCEPT ![p] = ok]
      /\ puts' = IF handsBack
                 THEN puts \cup {[src |-> 0, dst |-> q, slot |-> 0, ok |-> ok] : q \in PE}
                 ELSE puts
      /\ allOk' = IF HandBack THEN allOk ELSE [allOk EXCEPT ![p] = @ /\ ok]
      /\ UNCHANGED <<program, series, gather, okByPE, reduced, local>>

NextCase(p) == IF series[p] = Last THEN "exit" ELSE "stats"

(* Fault: global_ok is not taken from the slot PE 0 handed back.           *)
TakeLocal(p) ==
  /\ Goto(p, "take", NextCase(p))
  /\ allOk' = [allOk EXCEPT ![p] = @ /\ global[p]]
  /\ series' = [series EXCEPT ![p] = IF @ < Last THEN @ + 1 ELSE @]
  /\ UNCHANGED <<program, puts, gather, okByPE, reduced, local, global>>

(* global_ok = ok_by_pe[0], and all_cases_ok with it.                      *)
TakeVerdict(p) ==
  /\ Goto(p, "take", NextCase(p))
  /\ global' = [global EXCEPT ![p] = okByPE[p][0]]
  /\ allOk' = [allOk EXCEPT ![p] = @ /\ okByPE[p][0]]
  /\ series' = [series EXCEPT ![p] = IF @ < Last THEN @ + 1 ELSE @]
  /\ UNCHANGED <<program, puts, gather, okByPE, reduced, local>>

-----------------------------------------------------------------------------
AfterBarrier(p) ==
  CASE pc[p] = "statsBarrier" -> "statsRead"
    [] pc[p] = "statsEnd" -> IF LastOfCase(p) THEN "validate" ELSE "stats"
    [] pc[p] = "verdictBarrier" -> "combine"
    [] pc[p] = "caseEnd" -> IF HandBack THEN "take" ELSE NextCase(p)

(* shmem_barrier_all; without a hand-back the last one ends the case.      *)
Barrier ==
  /\ \A p \in PE : pc[p] \in BarrierPC
  /\ pc' = [p \in PE |-> AfterBarrier(p)]
  /\ series' = [p \in PE |-> IF pc[p] \in BarrierPC /\ pc'[p] = "stats" THEN series[p] + 1 ELSE series[p]]
  /\ UNCHANGED <<program, puts, gather, okByPE, reduced, local, global, allOk>>

Deliver(m) ==
  /\ puts' = puts \ {m}
  /\ IF m \in SeriesPut
     THEN gather' = [gather EXCEPT ![m.src] = m.series] /\ UNCHANGED okByPE
     ELSE okByPE' = [okByPE EXCEPT ![m.dst][m.slot] = m.ok] /\ UNCHANGED gather
  /\ UNCHANGED <<program, pc, series, reduced, local, global, allOk>>

-----------------------------------------------------------------------------
PEStep(p) ==
  \/ PutSeries(p) \/ Quiet(p) \/ ReadSeries(p)
  \/ Validate(p) \/ Combine(p) \/ TakeVerdict(p)

Next == (\E p \in PE : PEStep(p)) \/ Barrier \/ (\E m \in puts : Deliver(m))

Spec == Init /\ [][Next]_vars

-----------------------------------------------------------------------------
(* Properties.                                                             *)

(* The statistics PE 0 reports are reduced from one and the same series of *)
(* every PE: no PE's is late, and none is already overwritten by the next. *)
StatsOfOneSeries ==
  /\ Cardinality(reduced) <= 1
  /\ pc[0] \in {"statsEnd", "validate", "verdictQuiet", "verdictBarrier"}
       => reduced = {series[0]}

(* What PE 0 reports as valid is the conjunction of all local verdicts of  *)
(* that very case.                                                         *)
VerdictIsConjunction ==
  pc[0] \in {"handBackQuiet", "caseEnd"} => (global[0] <=> \A p \in PE : local[p])

(* "so all PEs agree on the exit code"; "Rank-local verdicts are combined  *)
(* into one global result": no PE exits 0 when another exits 1.            *)
ExitCodesAgree ==
  \A p, q \in PE : pc[p] = "exit" /\ pc[q] = "exit" => (allOk[p] <=> allOk[q])

(* Where PE 0 hands the verdict back, the exit codes do agree, whatever    *)
(* each PE found.                                                          *)
HandedBackCodesAgree == HandBack => ExitCodesAgree

=============================================================================
