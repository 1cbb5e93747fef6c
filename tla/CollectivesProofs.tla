-------------------------- MODULE CollectivesProofs --------------------------
(***************************************************************************)
(* That the statistics and verdicts of a case are combined from that very  *)
(* case of every PE (ShmemVerdict), and that a PE validates the last call  *)
(* it made (Collectives), for every number of PEs, cases, series and calls.*)
(***************************************************************************)
EXTENDS Collectives, FiniteSetTheorems, WellFoundedInduction, TLAPS

(* The series of a sweep are counted from 1; its last one ends a case, so  *)
(* a series that does not end a case is not the last.                      *)
LEMMA SeriesCount ==
  /\ Last \in Nat \ {0}
  /\ 1 \in SeriesOf
  /\ \A n \in SeriesOf : n # Last => n + 1 \in SeriesOf
  /\ Last % PerCase = 0
<1>1. Cases \in Nat \ {0} /\ PerCase \in Nat \ {0}
  BY VerdictAssumption, SMT DEF PerCase
<1>2. Last \in Nat \ {0}
  BY <1>1, SMT DEF Last
<1>3. Last % PerCase = 0
  BY <1>1, SMT DEF Last
<1> QED
  BY <1>2, <1>3, SMT DEF SeriesOf

(* The program never changes, so neither does the number of its series.    *)
LEMMA SameSweep ==
  ASSUME [Next]_vars
  PROVE  program' = program /\ SeriesOf' = SeriesOf /\ SeriesPut' = SeriesPut
<1>1. program' = program
  BY DEF Next, PEStep, PutSeries, Quiet, ReadSeries, Validate, Combine, TakeVerdict,
         Barrier, Deliver, vars
<1> QED
  BY <1>1 DEF SeriesPut, SeriesOf, Last, PerCase

LEMMA TypeInit == Init => TypeOK
BY SeriesCount, VerdictAssumption, SMT DEF Init, TypeOK, PC, BarrierPC, SeriesOf, Last

LEMMA TypeStep == TypeOK /\ [Next]_vars => TypeOK'
<1> SUFFICES ASSUME TypeOK, [Next]_vars
             PROVE  TypeOK'
  OBVIOUS
<1> USE SameSweep
<1>1. CASE UNCHANGED vars
  BY <1>1 DEF TypeOK, vars
<1>2. ASSUME NEW p \in PE, PutSeries(p)
      PROVE  TypeOK'
  <2>1. [src |-> p, series |-> series[p]] \in SeriesPut
    BY <1>2 DEF SeriesPut, TypeOK
  <2> QED
    BY <1>2, <2>1 DEF PutSeries, Goto, TypeOK, PC, BarrierPC
<1>3. ASSUME NEW p \in PE, Quiet(p)
      PROVE  TypeOK'
  BY <1>3 DEF Quiet, Goto, TypeOK, PC, BarrierPC
<1>4. ASSUME NEW p \in PE, ReadSeries(p)
      PROVE  TypeOK'
  <2>1. 0 \in PE
    BY VerdictAssumption, SMT DEF PE
  <2>2. reduced' \subseteq SeriesOf \cup {0}
    BY <1>4 DEF ReadSeries, TypeOK
  <2> QED
    BY <1>4, <2>2 DEF ReadSeries, Goto, TypeOK, PC, BarrierPC
<1>5. ASSUME NEW p \in PE, Validate(p)
      PROVE  TypeOK'
  <2>1. 0 \in PE
    BY VerdictAssumption, SMT DEF PE
  <2>2. PICK v \in BOOLEAN :
          /\ local' = [local EXCEPT ![p] = v]
          /\ puts' = puts \cup {[src |-> p, dst |-> 0, slot |-> p, ok |-> v]}
    BY <1>5 DEF Validate
  <2>3. [src |-> p, dst |-> 0, slot |-> p, ok |-> v] \in VerdictPut
    BY <2>1 DEF VerdictPut
  <2>4. local' \in [PE -> BOOLEAN]
    BY <2>2 DEF TypeOK
  <2> QED
    BY <1>5, <2>2, <2>3, <2>4 DEF Validate, Goto, TypeOK, PC, BarrierPC
<1>6. ASSUME NEW p \in PE, Combine(p)
      PROVE  TypeOK'
  <2> DEFINE v == IF p = 0 THEN \A q \in PE : okByPE[0][q] ELSE local[p]
  <2>1. 0 \in PE
    BY VerdictAssumption, SMT DEF PE
  <2>2. v \in BOOLEAN
    BY <2>1 DEF TypeOK
  <2>3. /\ pc' = [pc EXCEPT ![p] = IF HandBack /\ p = 0 THEN "handBackQuiet" ELSE "caseEnd"]
        /\ global' = [global EXCEPT ![p] = v]
        /\ puts' = IF HandBack /\ p = 0
                   THEN puts \cup {[src |-> 0, dst |-> q, slot |-> 0, ok |-> v] : q \in PE}
                   ELSE puts
        /\ allOk' = IF HandBack THEN allOk ELSE [allOk EXCEPT ![p] = @ /\ v]
        /\ UNCHANGED <<program, series, gather, okByPE, reduced, local>>
    BY <1>6 DEF Combine, Goto
  <2> HIDE DEF v
  <2>4. puts' \subseteq SeriesPut \cup VerdictPut
    <3>1. \A q \in PE : [src |-> 0, dst |-> q, slot |-> 0, ok |-> v] \in VerdictPut
      BY <2>1, <2>2 DEF VerdictPut
    <3> QED
      BY <2>3, <3>1 DEF TypeOK
  <2>5. global' \in [PE -> BOOLEAN]
    BY <2>2, <2>3 DEF TypeOK
  <2>6. allOk' \in [PE -> BOOLEAN]
    BY <2>2, <2>3 DEF TypeOK
  <2>7. pc' \in [PE -> PC]
    BY <2>3 DEF TypeOK, PC, BarrierPC
  <2> QED
    BY <2>3, <2>4, <2>5, <2>6, <2>7 DEF TypeOK
<1>7. ASSUME NEW p \in PE, TakeVerdict(p)
      PROVE  TypeOK'
  <2>1. 0 \in PE
    BY VerdictAssumption, SMT DEF PE
  <2>2. okByPE[p][0] \in BOOLEAN
    BY <2>1 DEF TypeOK
  <2>3. global' \in [PE -> BOOLEAN] /\ allOk' \in [PE -> BOOLEAN]
    BY <1>7, <2>2 DEF TakeVerdict, TypeOK
  <2>4. series' \in [PE -> SeriesOf]
    <3>1. series[p] \in SeriesOf /\ Last \in Nat
      BY SeriesCount DEF TypeOK
    <3>2. (IF series[p] < Last THEN series[p] + 1 ELSE series[p]) \in SeriesOf
      BY <3>1, SMT DEF SeriesOf
    <3> QED
      BY <1>7, <3>2 DEF TakeVerdict, TypeOK
  <2>5. pc' \in [PE -> PC]
    BY <1>7 DEF TakeVerdict, Goto, NextCase, TypeOK, PC, BarrierPC
  <2> QED
    BY <1>7, <2>3, <2>4, <2>5 DEF TakeVerdict, TypeOK
<1>8. CASE Barrier
  <2>1. pc' \in [PE -> PC]
    <3>1. \A p \in PE : AfterBarrier(p) \in PC
      BY <1>8 DEF Barrier, AfterBarrier, NextCase, PC, BarrierPC
    <3> QED
      BY <1>8, <3>1 DEF Barrier
  <2>2. ASSUME NEW p \in PE, pc'[p] = "stats"
        PROVE  series[p] + 1 \in SeriesOf
    <3>1. AfterBarrier(p) = "stats" /\ pc[p] \in BarrierPC
      BY <1>8, <2>2 DEF Barrier
    <3>2. series[p] # Last
      BY <3>1, SeriesCount DEF AfterBarrier, NextCase, LastOfCase, BarrierPC
    <3> QED
      BY <3>2, SeriesCount DEF TypeOK
  <2>3. series' \in [PE -> SeriesOf]
    BY <1>8, <2>2 DEF Barrier, TypeOK
  <2> QED
    BY <1>8, <2>1, <2>3 DEF Barrier, TypeOK
<1>9. ASSUME NEW m \in puts, Deliver(m)
      PROVE  TypeOK'
  <2>1. CASE m \in SeriesPut
    BY <1>9, <2>1 DEF Deliver, SeriesPut, TypeOK
  <2>2. CASE m \notin SeriesPut
    <3>1. m.dst \in PE /\ m.slot \in PE /\ m.ok \in BOOLEAN
      BY <1>9, <2>2 DEF VerdictPut, TypeOK
    <3>2. okByPE' \in [PE -> [PE -> BOOLEAN]]
      <4>1. okByPE' = [okByPE EXCEPT ![m.dst] = [okByPE[m.dst] EXCEPT ![m.slot] = m.ok]]
        BY <1>9, <2>2 DEF Deliver
      <4>2. okByPE \in [PE -> [PE -> BOOLEAN]]
        BY DEF TypeOK
      <4>3. [okByPE[m.dst] EXCEPT ![m.slot] = m.ok] \in [PE -> BOOLEAN]
        BY <3>1, <4>2, Zenon
      <4> QED
        BY <4>1, <4>2, <4>3, Zenon
    <3> QED
      BY <1>9, <2>2, <3>2 DEF Deliver, TypeOK
  <2> QED
    BY <2>1, <2>2
<1> QED
  BY <1>1, <1>2, <1>3, <1>4, <1>5, <1>6, <1>7, <1>8, <1>9 DEF Next, PEStep

-----------------------------------------------------------------------------
(* The inductive invariant of ShmemVerdict.                                *)

(* Between two barriers a PE is in one of these stretches.                 *)
Gathering == {"stats", "statsQuiet", "statsBarrier"}
Reading == {"statsRead", "statsEnd"}
Validating == {"validate", "verdictQuiet", "verdictBarrier"}
Combining == {"combine", "handBackQuiet", "caseEnd"}

(* All PEs are in the same stretch of the same series, but for those that  *)
(* have taken the verdict handed back: they go on without a barrier.       *)
Together ==
  \A p, q \in PE :
    /\ pc[p] \in Reading => pc[q] \in Reading /\ series[q] = series[p]
    /\ pc[p] \in Validating => pc[q] \in Validating /\ series[q] = series[p]
    /\ pc[p] \in Combining => pc[q] \in Combining /\ series[q] = series[p]
    /\ pc[p] \in Gathering => \/ pc[q] \in Gathering /\ series[q] = series[p]
                              \/ pc[q] = "take" /\ series[p] = series[q] + 1
    /\ pc[p] = "take" => \/ pc[q] \in {"take", "exit"} /\ series[q] = series[p]
                         \/ pc[q] \in Gathering
    /\ pc[p] = "exit" => pc[q] \in {"take", "exit"} /\ series[p] = Last

(* What is in flight belongs to a PE that has not yet completed it.        *)
SeriesInFlight ==
  \A m \in puts : m \in SeriesPut => pc[m.src] = "statsQuiet" /\ m.series = series[m.src]

VerdictsInFlight ==
  \A m \in puts : m \notin SeriesPut =>
    \/ pc[m.src] = "verdictQuiet" /\ m.dst = 0 /\ m.slot = m.src /\ m.ok = local[m.src]
    \/ pc[0] = "handBackQuiet" /\ m.src = 0 /\ m.slot = 0 /\ m.ok = global[0]

(* A slot holds its PE's series once the put of it is complete.            *)
SeriesGathered ==
  \A p \in PE :
    /\ pc[p] \in {"statsBarrier"} \cup Reading => gather[p] = series[p]
    /\ pc[p] = "statsQuiet" =>
         gather[p] = series[p] \/ [src |-> p, series |-> series[p]] \in puts

Reduced ==
  /\ reduced = {} \/ \E s \in SeriesOf : reduced = {s}
  /\ pc[0] \in {"statsEnd"} \cup Validating => reduced = {series[0]}

(* A slot of PE 0 holds its PE's verdict until PE 0 has combined them.     *)
VerdictsGathered ==
  \A p \in PE :
    /\ pc[p] = "verdictBarrier" \/ (pc[p] \in Combining /\ pc[0] = "combine")
         => okByPE[0][p] = local[p]
    /\ pc[p] = "verdictQuiet" =>
         \/ okByPE[0][p] = local[p]
         \/ [src |-> p, dst |-> 0, slot |-> p, ok |-> local[p]] \in puts

(* Slot 0 of a PE holds the global verdict until the PE has taken it.      *)
HandedBack ==
  /\ pc[0] = "handBackQuiet" =>
       /\ HandBack
       /\ \A p \in PE : \/ okByPE[p][0] = global[0]
                        \/ [src |-> 0, dst |-> p, slot |-> 0, ok |-> global[0]] \in puts
  /\ HandBack /\ pc[0] = "caseEnd" => \A p \in PE : okByPE[p][0] = global[0]
  /\ \A p \in PE : pc[p] = "take" => HandBack /\ okByPE[p][0] = global[0]

(* Handing back, the PEs that have taken the verdict of a case agree on    *)
(* all cases so far, and so do those that have still to take it.           *)
Agreement ==
  HandBack => \A p, q \in PE :
    /\ (pc[p] = "take" <=> pc[q] = "take") => (allOk[p] <=> allOk[q])
    /\ pc[p] = "take" /\ pc[q] # "take" => (allOk[q] <=> (allOk[p] /\ global[0]))

VerdictInv ==
  /\ TypeOK /\ Together /\ SeriesInFlight /\ VerdictsInFlight /\ SeriesGathered /\ Reduced
  /\ VerdictsGathered /\ HandedBack /\ VerdictIsConjunction /\ Agreement

LEMMA VerdictInit == Init => VerdictInv
<1> SUFFICES ASSUME Init
             PROVE  VerdictInv
  OBVIOUS
<1>1. 0 \in PE /\ TypeOK
  BY TypeInit, VerdictAssumption, SMT DEF PE
<1>2. pc = [p \in PE |-> "stats"] /\ series = [p \in PE |-> 1] /\ puts = {} /\ reduced = {}
      /\ allOk = [p \in PE |-> TRUE]
  BY DEF Init
<1>3. Together /\ SeriesInFlight /\ VerdictsInFlight /\ SeriesGathered
  BY <1>2 DEF Together, SeriesInFlight, VerdictsInFlight, SeriesGathered,
              Gathering, Reading, Validating, Combining
<1>4. Reduced /\ VerdictsGathered /\ HandedBack /\ VerdictIsConjunction /\ Agreement
  BY <1>1, <1>2 DEF Reduced, VerdictsGathered, HandedBack, VerdictIsConjunction, Agreement,
                    Validating, Combining
<1> QED
  BY <1>1, <1>3, <1>4 DEF VerdictInv

(* A barrier opens when all PEs are at the same one.                       *)
LEMMA SameBarrier ==
  ASSUME TypeOK, Together, Barrier
  PROVE  /\ \A p, q \in PE : pc[q] = pc[p] /\ series[q] = series[p]
         /\ \A p \in PE : pc[p] \in BarrierPC
<1>1. ASSUME NEW p \in PE, NEW q \in PE
      PROVE  pc[q] = pc[p] /\ series[q] = series[p]
  <2>1. pc[p] \in BarrierPC /\ pc[q] \in BarrierPC
    BY DEF Barrier
  <2> QED
    BY <2>1 DEF Together, BarrierPC, Gathering, Reading, Validating, Combining
<1> QED
  BY <1>1 DEF Barrier

LEMMA TogetherStep == TypeOK /\ Together /\ [Next]_vars => Together'
<1> SUFFICES ASSUME TypeOK, Together, [Next]_vars
             PROVE  Together'
  OBVIOUS
<1> USE DEF Gathering, Reading, Validating, Combining
<1>0. Last' = Last /\ \A p \in PE : series[p] \in Int /\ series[p] <= Last /\ Last \in Nat
  BY SameSweep, SeriesCount, SMT DEF TypeOK, SeriesOf, Last, PerCase
<1>1. CASE UNCHANGED vars
  BY <1>0, <1>1 DEF Together, vars
<1>2. ASSUME NEW r \in PE, PutSeries(r)
      PROVE  Together'
  BY <1>0, <1>2 DEF PutSeries, Goto, Together, TypeOK
<1>3. ASSUME NEW r \in PE, Quiet(r)
      PROVE  Together'
  BY <1>0, <1>3 DEF Quiet, Goto, Together, TypeOK
<1>4. ASSUME NEW r \in PE, ReadSeries(r)
      PROVE  Together'
  BY <1>0, <1>4 DEF ReadSeries, Goto, Together, TypeOK
<1>5. ASSUME NEW r \in PE, Validate(r)
      PROVE  Together'
  BY <1>0, <1>5 DEF Validate, Goto, Together, TypeOK
<1>6. ASSUME NEW r \in PE, Combine(r)
      PROVE  Together'
  <2>1. pc[r] = "combine" /\ series' = series
        /\ pc' = [pc EXCEPT ![r] = IF HandBack /\ r = 0 THEN "handBackQuiet" ELSE "caseEnd"]
    BY <1>6 DEF Combine, Goto
  <2> QED
    BY <1>0, <2>1 DEF Together, TypeOK
<1>7. ASSUME NEW r \in PE, TakeVerdict(r)
      PROVE  Together'
  <2>1. pc[r] = "take"
    BY <1>7 DEF TakeVerdict, Goto
  <2>2. CASE series[r] = Last
    <3>1. pc' = [pc EXCEPT ![r] = "exit"] /\ series' = series
      BY <1>0, <1>7, <2>2 DEF TakeVerdict, Goto, NextCase, TypeOK
    <3>2. \A q \in PE : pc[q] \in {"take", "exit"} /\ series[q] = series[r]
      BY <1>0, <2>1, <2>2, SMT DEF Together
    <3> QED
      BY <1>0, <2>2, <3>1, <3>2 DEF Together, TypeOK
  <2>3. CASE series[r] # Last
    <3>1. pc' = [pc EXCEPT ![r] = "stats"] /\ series' = [series EXCEPT ![r] = @ + 1]
      <4>1. series[r] < Last
        BY <1>0, <2>3, SMT
      <4> QED
        BY <1>7, <2>3, <4>1 DEF TakeVerdict, Goto, NextCase
    <3>2. \A q \in PE : \/ pc[q] = "take" /\ series[q] = series[r]
                        \/ pc[q] \in {"stats", "statsQuiet", "statsBarrier"} /\ series[q] = series[r] + 1
      BY <1>0, <2>1, <2>3, SMT DEF Together
    <3> QED
      BY <1>0, <2>3, <3>1, <3>2 DEF Together, TypeOK
  <2> QED
    BY <2>2, <2>3
<1>8. CASE Barrier
  <2>1. \A p, q \in PE : pc[q] = pc[p] /\ series[q] = series[p]
    BY <1>8, SameBarrier
  <2>2. \A p, q \in PE : AfterBarrier(q) = AfterBarrier(p)
    BY <2>1 DEF AfterBarrier, NextCase, LastOfCase
  <2>3. \A p, q \in PE : pc'[q] = pc'[p] /\ series'[q] = series'[p]
    BY <1>8, <2>1, <2>2 DEF Barrier
  <2>4. \A p \in PE : pc'[p] = "exit" => series'[p] = Last
    BY <1>8 DEF Barrier, AfterBarrier, NextCase, BarrierPC
  <2> QED
    BY <1>0, <2>3, <2>4 DEF Together
<1>9. ASSUME NEW m \in puts, Deliver(m)
      PROVE  Together'
  BY <1>0, <1>9 DEF Deliver, Together
<1> QED
  BY <1>1, <1>2, <1>3, <1>4, <1>5, <1>6, <1>7, <1>8, <1>9 DEF Next, PEStep

LEMMA InFlightStep ==
  VerdictInv /\ [Next]_vars => SeriesInFlight' /\ VerdictsInFlight'
<1> SUFFICES ASSUME VerdictInv, [Next]_vars
             PROVE  SeriesInFlight' /\ VerdictsInFlight'
  OBVIOUS
<1> USE SameSweep
<1>0. 0 \in PE /\ \A m \in puts : m.src \in PE
  BY VerdictAssumption, SMT DEF VerdictInv, TypeOK, PE, SeriesPut, VerdictPut
<1>1. CASE UNCHANGED vars
  BY <1>1 DEF VerdictInv, SeriesInFlight, VerdictsInFlight, vars
<1>2. ASSUME NEW r \in PE, PutSeries(r)
      PROVE  SeriesInFlight' /\ VerdictsInFlight'
  <2>1. [src |-> r, series |-> series[r]] \in SeriesPut
    BY DEF SeriesPut, VerdictInv, TypeOK
  <2> QED
    BY <1>0, <1>2, <2>1
    DEF PutSeries, Goto, VerdictInv, SeriesInFlight, VerdictsInFlight, TypeOK
<1>3. ASSUME NEW r \in PE, Quiet(r)
      PROVE  SeriesInFlight' /\ VerdictsInFlight'
  BY <1>0, <1>3 DEF Quiet, Goto, VerdictInv, SeriesInFlight, VerdictsInFlight, TypeOK
<1>4. ASSUME NEW r \in PE, ReadSeries(r)
      PROVE  SeriesInFlight' /\ VerdictsInFlight'
  BY <1>0, <1>4 DEF ReadSeries, Goto, VerdictInv, SeriesInFlight, VerdictsInFlight, TypeOK
<1>5. ASSUME NEW r \in PE, Validate(r)
      PROVE  SeriesInFlight' /\ VerdictsInFlight'
  <2>1. PICK v \in BOOLEAN :
          /\ local' = [local EXCEPT ![r] = v]
          /\ puts' = puts \cup {[src |-> r, dst |-> 0, slot |-> r, ok |-> v]}
    BY <1>5 DEF Validate
  <2>2. [src |-> r, dst |-> 0, slot |-> r, ok |-> v] \notin SeriesPut
    BY DEF SeriesPut
  <2>3. local'[r] = v
    BY <2>1 DEF VerdictInv, TypeOK
  <2> QED
    BY <1>0, <1>5, <2>1, <2>2, <2>3
    DEF Validate, Goto, VerdictInv, SeriesInFlight, VerdictsInFlight, TypeOK
<1>6. ASSUME NEW r \in PE, Combine(r)
      PROVE  SeriesInFlight' /\ VerdictsInFlight'
  <2> DEFINE v == IF r = 0 THEN \A q \in PE : okByPE[0][q] ELSE local[r]
  <2>1. /\ pc[r] = "combine"
        /\ pc' = [pc EXCEPT ![r] = IF HandBack /\ r = 0 THEN "handBackQuiet" ELSE "caseEnd"]
        /\ global' = [global EXCEPT ![r] = v]
        /\ puts' = IF HandBack /\ r = 0
                   THEN puts \cup {[src |-> 0, dst |-> q, slot |-> 0, ok |-> v] : q \in PE}
                   ELSE puts
        /\ UNCHANGED <<series, local>>
    BY <1>6 DEF Combine, Goto
  <2> HIDE DEF v
  <2>2. global'[r] = v /\ (r # 0 => global'[0] = global[0])
    BY <1>0, <2>1 DEF VerdictInv, TypeOK
  <2>3. \A q \in PE : [src |-> 0, dst |-> q, slot |-> 0, ok |-> v] \notin SeriesPut
    BY DEF SeriesPut
  <2>4. \A m \in puts : pc[m.src] # "combine"
    <3>1. ~(pc[0] = "handBackQuiet" /\ r = 0)
      BY <2>1
    <3> QED
      BY <1>0, <2>1 DEF VerdictInv, SeriesInFlight, VerdictsInFlight
  <2>5. ASSUME NEW m \in puts
        PROVE  /\ m \in SeriesPut => pc'[m.src] = "statsQuiet" /\ m.series = series'[m.src]
               /\ m \notin SeriesPut =>
                    \/ pc'[m.src] = "verdictQuiet" /\ m.dst = 0 /\ m.slot = m.src /\ m.ok = local'[m.src]
                    \/ pc'[0] = "handBackQuiet" /\ m.src = 0 /\ m.slot = 0 /\ m.ok = global'[0]
    <3>1. m.src # r /\ pc'[m.src] = pc[m.src]
      BY <1>0, <2>1, <2>4 DEF VerdictInv, TypeOK
    <3> QED
      BY <1>0, <2>1, <2>2, <3>1 DEF VerdictInv, SeriesInFlight, VerdictsInFlight
  <2>6. ASSUME NEW m \in puts', m \notin puts
        PROVE  m \notin SeriesPut /\ pc'[0] = "handBackQuiet" /\ m.src = 0 /\ m.slot = 0 /\ m.ok = global'[0]
    <3>1. PICK q \in PE : m = [src |-> 0, dst |-> q, slot |-> 0, ok |-> v]
      BY <2>1, <2>6
    <3>2. r = 0 /\ HandBack
      BY <2>1, <2>6
    <3> QED
      BY <1>0, <2>1, <2>2, <2>3, <3>1, <3>2 DEF VerdictInv, TypeOK
  <2> QED
    BY <2>5, <2>6 DEF SeriesInFlight, VerdictsInFlight
<1>7. ASSUME NEW r \in PE, TakeVerdict(r)
      PROVE  SeriesInFlight' /\ VerdictsInFlight'
  <2>1. /\ pc[r] = "take" /\ UNCHANGED <<puts, local>>
        /\ \A p \in PE \ {r} : pc'[p] = pc[p] /\ series'[p] = series[p] /\ global'[p] = global[p]
    BY <1>7 DEF TakeVerdict, Goto, VerdictInv, TypeOK
  <2>2. \A m \in puts : m.src # r /\ (pc[0] = "handBackQuiet" => 0 # r)
    BY <1>0, <2>1 DEF VerdictInv, SeriesInFlight, VerdictsInFlight
  <2> QED
    BY <1>0, <2>1, <2>2 DEF VerdictInv, SeriesInFlight, VerdictsInFlight
<1>8. CASE Barrier
  <2>1. puts = {}
    <3>1. \A p \in PE : pc[p] \in BarrierPC
      BY <1>8 DEF Barrier
    <3> QED
      BY <1>0, <3>1 DEF VerdictInv, SeriesInFlight, VerdictsInFlight, BarrierPC
  <2> QED
    BY <1>8, <2>1 DEF Barrier, SeriesInFlight, VerdictsInFlight
<1>9. ASSUME NEW m \in puts, Deliver(m)
      PROVE  SeriesInFlight' /\ VerdictsInFlight'
  BY <1>9 DEF Deliver, VerdictInv, SeriesInFlight, VerdictsInFlight
<1> QED
  BY <1>1, <1>2, <1>3, <1>4, <1>5, <1>6, <1>7, <1>8, <1>9 DEF Next, PEStep

LEMMA SeriesGatheredStep == VerdictInv /\ [Next]_vars => SeriesGathered'
<1> SUFFICES ASSUME VerdictInv, [Next]_vars
             PROVE  SeriesGathered'
  OBVIOUS
<1> USE SameSweep DEF Reading
<1>0. 0 \in PE /\ \A m \in puts : m.src \in PE
  BY VerdictAssumption, SMT DEF VerdictInv, TypeOK, PE, SeriesPut, VerdictPut
<1>1. CASE UNCHANGED vars
  BY <1>1 DEF VerdictInv, SeriesGathered, vars
<1>2. ASSUME NEW r \in PE, PutSeries(r)
      PROVE  SeriesGathered'
  BY <1>2 DEF PutSeries, Goto, VerdictInv, SeriesGathered, TypeOK
<1>3. ASSUME NEW r \in PE, Quiet(r)
      PROVE  SeriesGathered'
  <2>1. [src |-> r, series |-> series[r]] \notin puts
    BY <1>3 DEF Quiet
  <2> QED
    BY <1>3, <2>1 DEF Quiet, Goto, VerdictInv, SeriesGathered, TypeOK
<1>4. ASSUME NEW r \in PE, ReadSeries(r)
      PROVE  SeriesGathered'
  BY <1>4 DEF ReadSeries, Goto, VerdictInv, SeriesGathered, TypeOK
<1>5. ASSUME NEW r \in PE, Validate(r)
      PROVE  SeriesGathered'
  BY <1>5 DEF Validate, Goto, VerdictInv, SeriesGathered, TypeOK
<1>6. ASSUME NEW r \in PE, Combine(r)
      PROVE  SeriesGathered'
  <2>1. /\ pc' = [pc EXCEPT ![r] = IF HandBack /\ r = 0 THEN "handBackQuiet" ELSE "caseEnd"]
        /\ puts \subseteq puts' /\ UNCHANGED <<series, gather>>
    BY <1>6 DEF Combine, Goto
  <2> QED
    BY <2>1 DEF VerdictInv, SeriesGathered, TypeOK
<1>7. ASSUME NEW r \in PE, TakeVerdict(r)
      PROVE  SeriesGathered'
  <2>1. /\ pc'[r] \in {"exit", "stats"} /\ UNCHANGED <<puts, gather>>
        /\ \A p \in PE \ {r} : pc'[p] = pc[p] /\ series'[p] = series[p]
    BY <1>7 DEF TakeVerdict, Goto, NextCase, VerdictInv, TypeOK
  <2> QED
    BY <2>1 DEF VerdictInv, SeriesGathered
<1>8. CASE Barrier
  <2>1. ASSUME NEW p \in PE, pc'[p] \in {"statsBarrier", "statsQuiet"} \cup Reading
        PROVE  pc[p] = "statsBarrier" /\ pc'[p] = "statsRead" /\ series'[p] = series[p]
    <3>1. pc'[p] = AfterBarrier(p) /\ pc[p] \in BarrierPC
      BY <1>8 DEF Barrier
    <3>2. pc[p] = "statsBarrier" /\ pc'[p] = "statsRead"
      BY <2>1, <3>1 DEF AfterBarrier, NextCase, BarrierPC
    <3> QED
      BY <1>8, <3>2 DEF Barrier
  <2> QED
    BY <1>8, <2>1 DEF Barrier, VerdictInv, SeriesGathered
<1>9. ASSUME NEW m \in puts, Deliver(m)
      PROVE  SeriesGathered'
  <2>1. CASE m \in SeriesPut
    <3>1. pc[m.src] = "statsQuiet" /\ m.series = series[m.src]
      BY <2>1 DEF VerdictInv, SeriesInFlight
    <3>2. puts' = puts \ {m} /\ gather' = [gather EXCEPT ![m.src] = series[m.src]]
          /\ UNCHANGED <<pc, series>>
      BY <1>9, <2>1, <3>1 DEF Deliver
    <3>3. \A p \in PE : p # m.src => [src |-> p, series |-> series[p]] # m
      OBVIOUS
    <3> QED
      BY <1>0, <3>1, <3>2, <3>3 DEF VerdictInv, SeriesGathered, TypeOK
  <2>2. CASE m \notin SeriesPut
    <3>1. \A p \in PE : [src |-> p, series |-> series[p]] # m
      BY <2>2 DEF SeriesPut, VerdictInv, TypeOK
    <3> QED
      BY <1>9, <2>2, <3>1 DEF Deliver, VerdictInv, SeriesGathered
  <2> QED
    BY <2>1, <2>2
<1> QED
  BY <1>1, <1>2, <1>3, <1>4, <1>5, <1>6, <1>7, <1>8, <1>9 DEF Next, PEStep

LEMMA ReducedStep == VerdictInv /\ [Next]_vars => Reduced'
<1> SUFFICES ASSUME VerdictInv, [Next]_vars
             PROVE  Reduced'
  OBVIOUS
<1> USE SameSweep DEF Validating
<1>0. 0 \in PE
  BY VerdictAssumption, SMT DEF PE
<1>1. CASE UNCHANGED vars
  BY <1>1 DEF VerdictInv, Reduced, vars
<1>2. ASSUME NEW r \in PE, PutSeries(r) \/ Quiet(r) \/ Validate(r)
      PROVE  Reduced'
  BY <1>0, <1>2 DEF PutSeries, Quiet, Validate, Goto, VerdictInv, Reduced, TypeOK
<1>3. ASSUME NEW r \in PE, ReadSeries(r)
      PROVE  Reduced'
  <2>1. CASE r = 0
    <3>1. \A q \in PE : gather[q] = series[0]
      <4>1. pc[0] = "statsRead"
        BY <1>3, <2>1 DEF ReadSeries, Goto
      <4> QED
        BY <1>0, <4>1 DEF VerdictInv, Together, SeriesGathered, Reading
    <3>2. reduced' = {series[0]} /\ series' = series /\ series[0] \in SeriesOf
      BY <1>0, <1>3, <2>1, <3>1 DEF ReadSeries, VerdictInv, TypeOK
    <3> QED
      BY <3>2 DEF Reduced
  <2>2. CASE r # 0
    BY <1>0, <1>3, <2>2 DEF ReadSeries, Goto, VerdictInv, Reduced, TypeOK
  <2> QED
    BY <2>1, <2>2
<1>4. ASSUME NEW r \in PE, Combine(r) \/ TakeVerdict(r)
      PROVE  Reduced'
  <2>1. /\ UNCHANGED reduced
        /\ \/ pc'[0] = pc[0] /\ series'[0] = series[0]
           \/ pc'[0] \in {"handBackQuiet", "caseEnd", "exit", "stats"}
    <3>0. pc \in [PE -> PC] /\ series \in [PE -> SeriesOf]
      BY DEF VerdictInv, TypeOK
    <3>1. CASE Combine(r)
      BY <1>0, <3>0, <3>1 DEF Combine, Goto
    <3>2. CASE TakeVerdict(r)
      <4>1. /\ UNCHANGED reduced
            /\ pc' = [pc EXCEPT ![r] = NextCase(r)] /\ NextCase(r) \in {"exit", "stats"}
            /\ series' = [series EXCEPT ![r] = IF @ < Last THEN @ + 1 ELSE @]
        BY <3>2 DEF TakeVerdict, Goto, NextCase
      <4> QED
        BY <1>0, <3>0, <4>1
    <3> QED
      BY <1>4, <3>1, <3>2
  <2> QED
    BY <2>1 DEF VerdictInv, Reduced
<1>5. CASE Barrier
  <2>1. pc'[0] \in {"statsEnd"} \cup Validating => pc[0] = "statsEnd" /\ pc'[0] = "validate"
    BY <1>0, <1>5 DEF Barrier, AfterBarrier, NextCase, BarrierPC
  <2>2. pc'[0] \in {"statsEnd"} \cup Validating => series'[0] = series[0]
    BY <1>0, <1>5, <2>1 DEF Barrier
  <2> QED
    BY <1>5, <2>1, <2>2 DEF Barrier, VerdictInv, Reduced
<1>6. ASSUME NEW m \in puts, Deliver(m)
      PROVE  Reduced'
  BY <1>6 DEF Deliver, VerdictInv, Reduced
<1> QED
  BY <1>1, <1>2, <1>3, <1>4, <1>5, <1>6 DEF Next, PEStep

LEMMA VerdictsGatheredStep == VerdictInv /\ [Next]_vars => VerdictsGathered'
<1> SUFFICES ASSUME VerdictInv, [Next]_vars
             PROVE  VerdictsGathered'
  OBVIOUS
<1> USE DEF Combining
<1>0. 0 \in PE
  BY VerdictAssumption, SMT DEF PE
<1>1. CASE UNCHANGED vars
  BY <1>1 DEF VerdictInv, VerdictsGathered, vars
<1>2. ASSUME NEW r \in PE, PutSeries(r) \/ ReadSeries(r)
      PROVE  VerdictsGathered'
  BY <1>0, <1>2 DEF PutSeries, ReadSeries, Goto, VerdictInv, VerdictsGathered, TypeOK
<1>3. ASSUME NEW r \in PE, Quiet(r)
      PROVE  VerdictsGathered'
  <2>1. [src |-> r, dst |-> 0, slot |-> r, ok |-> local[r]] \notin puts
    BY <1>3 DEF Quiet
  <2> QED
    BY <1>0, <1>3, <2>1 DEF Quiet, Goto, VerdictInv, VerdictsGathered, TypeOK
<1>4. ASSUME NEW r \in PE, Validate(r)
      PROVE  VerdictsGathered'
  <2>1. PICK v \in BOOLEAN :
          /\ local' = [local EXCEPT ![r] = v]
          /\ puts' = puts \cup {[src |-> r, dst |-> 0, slot |-> r, ok |-> v]}
    BY <1>4 DEF Validate
  <2>2. local'[r] = v /\ pc[r] = "validate" /\ pc' = [pc EXCEPT ![r] = "verdictQuiet"] /\ okByPE' = okByPE
    BY <1>4, <2>1 DEF Validate, Goto, VerdictInv, TypeOK
  <2>3. \A p \in PE : pc[p] \notin Combining
    BY <2>2 DEF VerdictInv, Together, Validating
  <2> QED
    BY <1>0, <2>1, <2>2, <2>3 DEF VerdictInv, VerdictsGathered, TypeOK
<1>5. ASSUME NEW r \in PE, Combine(r)
      PROVE  VerdictsGathered'
  <2>1. /\ pc[r] = "combine"
        /\ pc' = [pc EXCEPT ![r] = IF HandBack /\ r = 0 THEN "handBackQuiet" ELSE "caseEnd"]
        /\ puts \subseteq puts' /\ UNCHANGED <<okByPE, local>>
    BY <1>5 DEF Combine, Goto
  <2> QED
    BY <1>0, <2>1 DEF VerdictInv, VerdictsGathered, TypeOK
<1>6. ASSUME NEW r \in PE, TakeVerdict(r)
      PROVE  VerdictsGathered'
  <2>1. pc[r] = "take" /\ pc'[r] \in {"exit", "stats"} /\ UNCHANGED <<puts, okByPE, local>>
        /\ \A p \in PE \ {r} : pc'[p] = pc[p]
    BY <1>6 DEF TakeVerdict, Goto, NextCase, VerdictInv, TypeOK
  <2> QED
    BY <1>0, <2>1 DEF VerdictInv, VerdictsGathered
<1>7. CASE Barrier
  <2>1. \A p, q \in PE : pc[q] = pc[p]
    BY <1>7, SameBarrier DEF VerdictInv
  <2>2. ASSUME NEW p \in PE
        PROVE  /\ pc'[p] \notin {"verdictBarrier", "verdictQuiet"}
               /\ pc'[p] \in Combining => pc[p] = "verdictBarrier"
    BY <1>7 DEF Barrier, AfterBarrier, NextCase, BarrierPC
  <2> QED
    BY <1>7, <2>2 DEF Barrier, VerdictInv, VerdictsGathered
<1>8. ASSUME NEW m \in puts, Deliver(m)
      PROVE  VerdictsGathered'
  <2>1. CASE m \in SeriesPut
    <3>1. \A p \in PE : [src |-> p, dst |-> 0, slot |-> p, ok |-> local[p]] # m
      BY <2>1 DEF SeriesPut
    <3> QED
      BY <1>8, <2>1, <3>1 DEF Deliver, VerdictInv, VerdictsGathered
  <2>2. CASE m \notin SeriesPut
    <3>1. m.src \in PE /\ m.dst \in PE /\ m.slot \in PE /\ m.ok \in BOOLEAN
      BY <2>2 DEF VerdictInv, TypeOK, VerdictPut
    <3>2. /\ puts' = puts \ {m} /\ UNCHANGED <<pc, local, global>>
          /\ okByPE' = [okByPE EXCEPT ![m.dst][m.slot] = m.ok]
      BY <1>8, <2>2 DEF Deliver
    <3>3. CASE pc[m.src] = "verdictQuiet" /\ m.dst = 0 /\ m.slot = m.src /\ m.ok = local[m.src]
      <4>1. /\ okByPE'[0][m.src] = local[m.src]
            /\ \A p \in PE \ {m.src} : okByPE'[0][p] = okByPE[0][p]
        BY <1>0, <3>1, <3>2, <3>3 DEF VerdictInv, TypeOK
      <4>2. \A p \in PE \ {m.src} : [src |-> p, dst |-> 0, slot |-> p, ok |-> local[p]] # m
        OBVIOUS
      <4> QED
        BY <3>2, <4>1, <4>2 DEF VerdictInv, VerdictsGathered
    <3>4. CASE pc[0] = "handBackQuiet" /\ m.src = 0 /\ m.slot = 0 /\ m.ok = global[0]
      <4>1. \A p \in PE : pc[p] \in Combining
        BY <1>0, <3>4 DEF VerdictInv, Together
      <4> QED
        BY <3>2, <3>4, <4>1 DEF VerdictsGathered
    <3> QED
      BY <2>2, <3>3, <3>4 DEF VerdictInv, VerdictsInFlight
  <2> QED
    BY <2>1, <2>2
<1> QED
  BY <1>1, <1>2, <1>3, <1>4, <1>5, <1>6, <1>7, <1>8 DEF Next, PEStep

LEMMA HandedBackStep == VerdictInv /\ [Next]_vars => HandedBack'
<1> SUFFICES ASSUME VerdictInv, [Next]_vars
             PROVE  HandedBack'
  OBVIOUS
<1>0. 0 \in PE /\ HandBack' = HandBack
  BY SameSweep, VerdictAssumption, SMT DEF PE, HandBack
<1>1. CASE UNCHANGED vars
  BY <1>0, <1>1 DEF VerdictInv, HandedBack, vars
<1>2. ASSUME NEW r \in PE, PutSeries(r) \/ ReadSeries(r) \/ Validate(r)
      PROVE  HandedBack'
  BY <1>0, <1>2 DEF PutSeries, ReadSeries, Validate, Goto, VerdictInv, HandedBack, TypeOK
<1>3. ASSUME NEW r \in PE, Quiet(r)
      PROVE  HandedBack'
  <2>1. r = 0 => \A p \in PE : [src |-> 0, dst |-> p, slot |-> 0, ok |-> global[0]] \notin puts
    BY <1>3 DEF Quiet
  <2> QED
    BY <1>0, <1>3, <2>1 DEF Quiet, Goto, VerdictInv, HandedBack, TypeOK
<1>4. ASSUME NEW r \in PE, Combine(r)
      PROVE  HandedBack'
  <2> DEFINE v == IF r = 0 THEN \A q \in PE : okByPE[0][q] ELSE local[r]
  <2>1. /\ pc[r] = "combine"
        /\ pc' = [pc EXCEPT ![r] = IF HandBack /\ r = 0 THEN "handBackQuiet" ELSE "caseEnd"]
        /\ global' = [global EXCEPT ![r] = v]
        /\ puts' = IF HandBack /\ r = 0
                   THEN puts \cup {[src |-> 0, dst |-> q, slot |-> 0, ok |-> v] : q \in PE}
                   ELSE puts
        /\ UNCHANGED okByPE
    BY <1>4 DEF Combine, Goto
  <2> HIDE DEF v
  <2>2. global'[r] = v /\ (r # 0 => global'[0] = global[0])
    BY <1>0, <2>1 DEF VerdictInv, TypeOK
  <2>3. \A p \in PE : pc[p] # "take" /\ pc'[p] # "take"
    BY <2>1 DEF VerdictInv, Together, Combining, TypeOK
  <2>4. CASE r = 0
    BY <1>0, <2>1, <2>2, <2>3, <2>4 DEF VerdictInv, HandedBack, TypeOK
  <2>5. CASE r # 0
    BY <1>0, <2>1, <2>2, <2>3, <2>5 DEF VerdictInv, HandedBack, TypeOK
  <2> QED
    BY <2>4, <2>5
<1>5. ASSUME NEW r \in PE, TakeVerdict(r)
      PROVE  HandedBack'
  <2>1. pc[r] = "take" /\ pc'[r] \in {"exit", "stats"} /\ UNCHANGED okByPE
        /\ global' = [global EXCEPT ![r] = okByPE[r][0]]
        /\ \A p \in PE \ {r} : pc'[p] = pc[p]
    BY <1>5 DEF TakeVerdict, Goto, NextCase, VerdictInv, TypeOK
  <2>2. global'[0] = global[0]
    BY <1>0, <2>1 DEF VerdictInv, HandedBack, TypeOK
  <2>3. pc'[0] \notin {"handBackQuiet", "caseEnd"}
    BY <1>0, <2>1 DEF VerdictInv, Together, Gathering
  <2> QED
    BY <1>0, <2>1, <2>2, <2>3 DEF VerdictInv, HandedBack
<1>6. CASE Barrier
  <2>1. ASSUME NEW p \in PE, pc'[p] = "take"
        PROVE  pc[0] = "caseEnd" /\ HandBack
    <3>1. pc[p] = "caseEnd" /\ HandBack
      BY <1>6, <2>1 DEF Barrier, AfterBarrier, NextCase, BarrierPC
    <3> QED
      BY <1>0, <1>6, <3>1, SameBarrier DEF VerdictInv
  <2>2. pc'[0] \notin {"handBackQuiet", "caseEnd"}
    BY <1>0, <1>6 DEF Barrier, AfterBarrier, NextCase, BarrierPC
  <2> QED
    BY <1>0, <1>6, <2>1, <2>2 DEF Barrier, VerdictInv, HandedBack
<1>7. ASSUME NEW m \in puts, Deliver(m)
      PROVE  HandedBack'
  <2>1. CASE m \in SeriesPut
    <3>1. \A p \in PE : [src |-> 0, dst |-> p, slot |-> 0, ok |-> global[0]] # m
      BY <2>1 DEF SeriesPut
    <3> QED
      BY <1>0, <1>7, <2>1, <3>1 DEF Deliver, VerdictInv, HandedBack
  <2>2. CASE m \notin SeriesPut
    <3>1. m.src \in PE /\ m.dst \in PE /\ m.slot \in PE /\ m.ok \in BOOLEAN
          /\ m = [src |-> m.src, dst |-> m.dst, slot |-> m.slot, ok |-> m.ok]
      BY <2>2 DEF VerdictInv, TypeOK, VerdictPut
    <3>2. /\ puts' = puts \ {m} /\ UNCHANGED <<pc, local, global>>
          /\ okByPE' = [okByPE EXCEPT ![m.dst][m.slot] = m.ok]
      BY <1>7, <2>2 DEF Deliver
    <3>3. CASE pc[m.src] = "verdictQuiet"
      <4>1. \A p \in PE : pc[p] \in Validating
        BY <3>1, <3>3 DEF VerdictInv, Together, Validating
      <4> QED
        BY <1>0, <3>2, <4>1 DEF HandedBack, Validating
    <3>4. CASE pc[0] = "handBackQuiet" /\ m.src = 0 /\ m.slot = 0 /\ m.ok = global[0]
      <4>1. /\ okByPE'[m.dst][0] = global[0]
            /\ \A p \in PE \ {m.dst} : okByPE'[p][0] = okByPE[p][0]
        BY <1>0, <3>1, <3>2, <3>4 DEF VerdictInv, TypeOK
      <4>2. \A p \in PE \ {m.dst} : [src |-> 0, dst |-> p, slot |-> 0, ok |-> global[0]] # m
        OBVIOUS
      <4>3. \A p \in PE : pc[p] # "take"
        BY <1>0, <3>4 DEF VerdictInv, Together, Combining
      <4> QED
        BY <1>0, <3>2, <3>4, <4>1, <4>2, <4>3 DEF VerdictInv, HandedBack
    <3> QED
      BY <2>2, <3>3, <3>4 DEF VerdictInv, VerdictsInFlight
  <2> QED
    BY <2>1, <2>2
<1> QED
  BY <1>1, <1>2, <1>3, <1>4, <1>5, <1>6, <1>7 DEF Next, PEStep

LEMMA ConjunctionStep == VerdictInv /\ [Next]_vars => VerdictIsConjunction'
<1> SUFFICES ASSUME VerdictInv, [Next]_vars
             PROVE  VerdictIsConjunction'
  OBVIOUS
<1>0. 0 \in PE
  BY VerdictAssumption, SMT DEF PE
<1>1. CASE UNCHANGED vars
  BY <1>1 DEF VerdictInv, VerdictIsConjunction, vars
<1>2. ASSUME NEW r \in PE, PutSeries(r) \/ ReadSeries(r) \/ Quiet(r)
      PROVE  VerdictIsConjunction'
  BY <1>0, <1>2 DEF PutSeries, ReadSeries, Quiet, Goto, VerdictInv, VerdictIsConjunction, TypeOK
<1>3. ASSUME NEW r \in PE, Validate(r)
      PROVE  VerdictIsConjunction'
  <2>1. pc[0] \in Validating /\ pc'[0] \in {pc[0], "verdictQuiet"}
    BY <1>0, <1>3 DEF Validate, Goto, VerdictInv, Together, Validating, TypeOK
  <2> QED
    BY <2>1 DEF VerdictIsConjunction, Validating
<1>4. ASSUME NEW r \in PE, Combine(r)
      PROVE  VerdictIsConjunction'
  <2> DEFINE v == IF r = 0 THEN \A q \in PE : okByPE[0][q] ELSE local[r]
  <2>1. /\ pc[r] = "combine"
        /\ pc' = [pc EXCEPT ![r] = IF HandBack /\ r = 0 THEN "handBackQuiet" ELSE "caseEnd"]
        /\ global' = [global EXCEPT ![r] = v]
        /\ UNCHANGED local
    BY <1>4 DEF Combine, Goto
  <2>2. CASE r = 0
    <3>1. \A q \in PE : okByPE[0][q] = local[q]
      BY <1>0, <2>1, <2>2 DEF VerdictInv, Together, VerdictsGathered, Combining
    <3>2. v <=> \A q \in PE : local[q]
      BY <2>2, <3>1
    <3>3. global'[0] = v
      BY <1>0, <2>1, <2>2 DEF VerdictInv, TypeOK
    <3> QED
      BY <2>1, <3>2, <3>3 DEF VerdictIsConjunction
  <2>3. CASE r # 0
    <3>1. pc'[0] = pc[0] /\ global'[0] = global[0]
      BY <1>0, <2>1, <2>3 DEF VerdictInv, TypeOK
    <3> QED
      BY <2>1, <3>1 DEF VerdictInv, VerdictIsConjunction
  <2> QED
    BY <2>2, <2>3
<1>5. ASSUME NEW r \in PE, TakeVerdict(r)
      PROVE  VerdictIsConjunction'
  <2>1. pc[r] = "take" /\ pc' = [pc EXCEPT ![r] = NextCase(r)]
    BY <1>5 DEF TakeVerdict, Goto
  <2>2. pc'[0] \notin {"handBackQuiet", "caseEnd"}
    BY <1>0, <2>1 DEF VerdictInv, Together, NextCase, Gathering, TypeOK
  <2> QED
    BY <2>2 DEF VerdictIsConjunction
<1>6. CASE Barrier
  <2>1. pc'[0] \notin {"handBackQuiet", "caseEnd"}
    BY <1>0, <1>6 DEF Barrier, AfterBarrier, NextCase, BarrierPC
  <2> QED
    BY <2>1 DEF VerdictIsConjunction
<1>7. ASSUME NEW m \in puts, Deliver(m)
      PROVE  VerdictIsConjunction'
  BY <1>7 DEF Deliver, VerdictInv, VerdictIsConjunction
<1> QED
  BY <1>1, <1>2, <1>3, <1>4, <1>5, <1>6, <1>7 DEF Next, PEStep

LEMMA AgreementStep == VerdictInv /\ [Next]_vars => Agreement'
<1> SUFFICES ASSUME VerdictInv, [Next]_vars, HandBack
             PROVE  Agreement'
  BY SameSweep DEF Agreement, HandBack
<1>0. 0 \in PE
  BY VerdictAssumption, SMT DEF PE
<1>1. CASE UNCHANGED vars
  BY <1>1 DEF VerdictInv, Agreement, vars
<1>2. ASSUME NEW r \in PE, PutSeries(r) \/ ReadSeries(r) \/ Quiet(r) \/ Validate(r)
      PROVE  Agreement'
  <2>1. /\ pc[r] # "take" /\ pc'[r] # "take" /\ \A p \in PE \ {r} : pc'[p] = pc[p]
        /\ UNCHANGED <<allOk, global>>
    BY <1>2 DEF PutSeries, ReadSeries, Quiet, Validate, Goto, VerdictInv, TypeOK
  <2> QED
    BY <2>1 DEF VerdictInv, Agreement
<1>3. ASSUME NEW r \in PE, Combine(r)
      PROVE  Agreement'
  <2>1. pc[r] = "combine" /\ pc'[r] # "take" /\ UNCHANGED allOk
        /\ \A p \in PE \ {r} : pc'[p] = pc[p]
    BY <1>3 DEF Combine, Goto, VerdictInv, TypeOK
  <2>2. \A p \in PE : pc[p] # "take" /\ pc'[p] # "take"
    BY <2>1 DEF VerdictInv, Together, Combining
  <2> QED
    BY <2>1, <2>2 DEF VerdictInv, Agreement
<1>4. ASSUME NEW r \in PE, TakeVerdict(r)
      PROVE  Agreement'
  <2>1. /\ pc[r] = "take" /\ pc'[r] # "take" /\ \A p \in PE \ {r} : pc'[p] = pc[p]
        /\ okByPE[r][0] = global[0]
        /\ global' = [global EXCEPT ![r] = okByPE[r][0]]
        /\ allOk' = [allOk EXCEPT ![r] = @ /\ okByPE[r][0]]
    BY <1>4 DEF TakeVerdict, Goto, NextCase, VerdictInv, HandedBack, TypeOK
  <2>2. global'[0] = global[0]
    BY <1>0, <2>1 DEF VerdictInv, TypeOK
  <2>3. /\ allOk'[r] <=> (allOk[r] /\ global[0])
        /\ \A p \in PE \ {r} : allOk'[p] = allOk[p]
    BY <2>1 DEF VerdictInv, TypeOK
  <2> QED
    BY <2>1, <2>2, <2>3 DEF VerdictInv, Agreement
<1>5. CASE Barrier
  <2>1. \A p, q \in PE : pc'[p] = "take" <=> pc'[q] = "take"
    <3>1. \A p, q \in PE : pc[q] = pc[p] /\ series[q] = series[p]
      BY <1>5, SameBarrier DEF VerdictInv
    <3>2. \A p, q \in PE : AfterBarrier(q) = AfterBarrier(p)
      BY <3>1 DEF AfterBarrier, NextCase, LastOfCase
    <3> QED
      BY <1>5, <3>2 DEF Barrier
  <2>2. \A p, q \in PE : pc[p] # "take"
    BY <1>5 DEF Barrier, BarrierPC
  <2> QED
    BY <1>5, <2>1, <2>2 DEF Barrier, VerdictInv, Agreement
<1>6. ASSUME NEW m \in puts, Deliver(m)
      PROVE  Agreement'
  BY <1>6 DEF Deliver, VerdictInv, Agreement
<1> QED
  BY <1>1, <1>2, <1>3, <1>4, <1>5, <1>6 DEF Next, PEStep

LEMMA VerdictStep == VerdictInv /\ [Next]_vars => VerdictInv'
BY TypeStep, TogetherStep, InFlightStep, SeriesGatheredStep, ReducedStep, VerdictsGatheredStep,
   HandedBackStep, ConjunctionStep, AgreementStep DEF VerdictInv

LEMMA SeriesOnce == VerdictInv => StatsOfOneSeries
<1> SUFFICES ASSUME VerdictInv
             PROVE  StatsOfOneSeries
  OBVIOUS
<1>1. reduced = {} \/ \E s \in SeriesOf : reduced = {s}
  BY DEF VerdictInv, Reduced
<1>2. Cardinality(reduced) \in {0, 1}
  BY <1>1, FS_EmptySet, FS_Singleton, Zenon
<1>3. Cardinality(reduced) <= 1
  BY <1>2, SMT
<1> QED
  BY <1>3 DEF VerdictInv, Reduced, StatsOfOneSeries, Validating

LEMMA CodesOnce == VerdictInv => HandedBackCodesAgree
BY DEF VerdictInv, Agreement, HandedBackCodesAgree, ExitCodesAgree

(* Whatever goes on before the samples of a case are gathered, its         *)
(* statistics are reduced from one series of every PE, PE 0's verdict is   *)
(* the conjunction of all, and exit codes agree where it is handed back.   *)
THEOREM VerdictHolds ==
  Spec => [](TypeOK /\ StatsOfOneSeries /\ VerdictIsConjunction /\ HandedBackCodesAgree)
<1>1. VerdictInv => TypeOK /\ StatsOfOneSeries /\ VerdictIsConjunction /\ HandedBackCodesAgree
  BY SeriesOnce, CodesOnce DEF VerdictInv
<1> QED
  BY <1>1, VerdictInit, VerdictStep, PTL DEF Spec

-----------------------------------------------------------------------------
(* The inductive invariant of Collectives.                                 *)

Filling == {"fill", "align"}
Exchanging == {"ready", "quiet", "callEnd"}

CallsType ==
  /\ library \in {"oshmpi", "mpi", "other"}
  /\ ~Collective => library = "oshmpi" /\ \A p \in PE : stage[p] = "measured"
  /\ stage \in [PE -> Filling \cup Exchanging \cup {"inCall", "measured"}]
  /\ entered \in [PE -> Nat]
  /\ recv \in [PE -> [PE -> Nat]]
  /\ blocks \subseteq [src : PE, dst : PE, call : Nat]

(* A PE leaves "stats" only when it has measured its size, and has then    *)
(* made all the calls of the sizes so far.                                 *)
CallsCounted ==
  Collective => \A p \in PE :
    /\ pc[p] # "stats" => stage[p] = "measured"
    /\ stage[p] \in Filling => entered[p] = (series[p] - 1) * Calls
    /\ stage[p] = "ready" => (series[p] - 1) * Calls <= entered[p] /\ entered[p] < series[p] * Calls
    /\ stage[p] \in {"quiet", "callEnd", "inCall"} =>
         (series[p] - 1) * Calls < entered[p] /\ entered[p] <= series[p] * Calls
    /\ stage[p] = "measured" => entered[p] = series[p] * Calls
    /\ Puts => stage[p] # "inCall"
    /\ ~Puts => stage[p] \notin {"quiet", "callEnd"}

(* The barriers of the alltoall of OSHMPI keep all PEs in the same call.   *)
BlocksTogether ==
  Puts => \A p, q \in PE :
    /\ stage[p] \in Filling => stage[q] \in Filling
    /\ stage[p] \in Exchanging => stage[q] \in Exchanging
    /\ IF stage[p] = "ready" /\ stage[q] \in {"quiet", "callEnd"}
       THEN entered[q] = entered[p] + 1
       ELSE (stage[p] = "ready" <=> stage[q] = "ready") => entered[q] = entered[p]

BlocksInFlight ==
  \A b \in blocks : Puts /\ stage[b.src] = "quiet" /\ b.call = entered[b.src]

(* The block of a call is in place, or on its way, from the call on.       *)
BlocksHeld ==
  Puts => \A p, q \in PE :
    /\ stage[q] \in {"callEnd", "measured"} => recv[p][q] = entered[q]
    /\ stage[q] = "quiet" => recv[p][q] = entered[q] \/ Block(q, p, entered[q]) \in blocks

ResultHeld ==
  Collective /\ ~Puts =>
    \A p, q \in PE : stage[p] = "measured" => recv[p][q] = entered[p]

(* The ranks of the others agree on everything their two collectives cover. *)
MpiInv ==
  /\ TypeOK /\ Collective
  /\ reduced = {} \/ \E s \in SeriesOf : reduced = {s}
  /\ \A p, q \in PE :
       /\ series[p] = series[q]
       /\ allOk[p] <=> allOk[q]
       /\ pc[p] \in {"stats", "combine", "exit", IF VerdictFirst THEN "statsBarrier" ELSE "validate"}
       /\ pc[p] = "exit" => pc[q] = "exit"
       /\ pc[p] = "statsBarrier" => pc[q] = "statsBarrier"
       /\ pc[p] = "validate" => reduced = {series[p]}

CallsInv ==
  /\ CallsType /\ CallsCounted /\ BlocksTogether /\ BlocksInFlight /\ BlocksHeld /\ ResultHeld
  /\ library = "oshmpi" => VerdictInv
  /\ library # "oshmpi" => MpiInv

LEMMA CallsInit == InitCalls => CallsInv
<1> SUFFICES ASSUME InitCalls
             PROVE  CallsInv
  OBVIOUS
<1>1. /\ stage = [p \in PE |-> Start] /\ entered = [p \in PE |-> 0] /\ blocks = {}
      /\ recv = [p \in PE |-> [q \in PE |-> 0]] /\ library \in {"oshmpi", "mpi", "other"}
      /\ ~Collective => library = "oshmpi"
  BY DEF InitCalls
<1>2. /\ pc = [p \in PE |-> "stats"] /\ series = [p \in PE |-> 1] /\ reduced = {}
      /\ allOk = [p \in PE |-> TRUE]
  BY DEF InitCalls, Init
<1>3. Start = IF Collective THEN "fill" ELSE "measured"
  BY DEF Start
<1>4. CallsType
  BY <1>1, <1>3 DEF CallsType, Filling
<1>5. CallsCounted
  <2>1. (1 - 1) * Calls = 0
    BY CallsAssumption, SMT
  <2> QED
    BY <1>1, <1>2, <1>3, <2>1 DEF CallsCounted, Filling
<1>6. BlocksTogether /\ BlocksInFlight /\ BlocksHeld /\ ResultHeld
  BY <1>1, <1>3 DEF BlocksTogether, BlocksInFlight, BlocksHeld, ResultHeld, Puts, Collective,
                    Filling, Exchanging
<1>7. VerdictInv
  BY VerdictInit DEF InitCalls
<1>8. library # "oshmpi" => MpiInv
  BY <1>1, <1>2, <1>7 DEF MpiInv, VerdictInv
<1> QED
  BY <1>4, <1>5, <1>6, <1>7, <1>8 DEF CallsInv

(* In a report a PE stays at its size, and leaves "stats" only with the    *)
(* size measured, or it goes on to the next size.                          *)
Moves(p) ==
  \/ /\ series'[p] = series[p] /\ stage'[p] = stage[p]
     /\ pc'[p] # "stats" => pc[p] # "stats" \/ stage[p] = "measured"
  \/ /\ series'[p] = series[p] + 1 /\ stage'[p] = "fill"
     /\ pc[p] # "stats" /\ pc'[p] = "stats"

LEMMA StageMoves ==
  ASSUME CallsType, Collective, NEW p \in PE, stage'[p] = NextStage(p), series[p] \in Int,
         \/ series'[p] = series[p]
         \/ series'[p] = series[p] + 1 /\ pc'[p] = "stats" /\ pc[p] # "stats",
         pc'[p] # "stats" => pc[p] # "stats" \/ stage[p] = "measured"
  PROVE  Moves(p)
<1>1. CASE series'[p] = series[p]
  BY <1>1 DEF Moves, NextStage
<1>2. CASE series'[p] = series[p] + 1 /\ pc'[p] = "stats" /\ pc[p] # "stats"
  <2>1. series'[p] # series[p]
    BY <1>2, SMT
  <2> QED
    BY <1>2, <2>1 DEF Moves, NextStage, Start
<1> QED
  BY <1>1, <1>2

LEMMA ReportMoves ==
  ASSUME CallsType, Collective, VerdictInv, Report
  PROVE  \A p \in PE : Moves(p)
<1> SUFFICES ASSUME NEW p \in PE
             PROVE  Moves(p)
  OBVIOUS
<1>0. stage'[p] = NextStage(p) /\ series[p] \in Int /\ Last \in Int /\ series[p] <= Last
  BY SeriesCount, SMT DEF Report, VerdictInv, TypeOK, SeriesOf, Last
<1>1. CASE Barrier
  <2>1. /\ series'[p] = IF pc'[p] = "stats" THEN series[p] + 1 ELSE series[p]
        /\ pc[p] # "stats"
    BY <1>1 DEF Barrier, BarrierPC
  <2> QED
    BY <1>0, <2>1, StageMoves
<1>2. ASSUME NEW m \in puts, Deliver(m)
      PROVE  Moves(p)
  BY <1>0, <1>2, StageMoves DEF Deliver
<1>3. ASSUME NEW r \in PE, PEStep(r), pc[r] = "stats" => stage[r] = "measured"
      PROVE  Moves(p)
  <2>1. CASE TakeVerdict(r)
    <3>1. /\ pc[r] = "take" /\ pc' = [pc EXCEPT ![r] = NextCase(r)]
          /\ series' = [series EXCEPT ![r] = IF @ < Last THEN @ + 1 ELSE @]
      BY <2>1 DEF TakeVerdict, Goto
    <3>2. CASE p = r
      <4>1. /\ pc[p] # "stats" /\ pc'[p] = NextCase(p)
            /\ series'[p] = IF series[p] < Last THEN series[p] + 1 ELSE series[p]
        BY <3>1, <3>2 DEF VerdictInv, TypeOK
      <4>2. series[p] < Last => NextCase(p) = "stats"
        BY <1>0, SMT DEF NextCase
      <4> QED
        BY <1>0, <4>1, <4>2, StageMoves
    <3>3. CASE p # r
      BY <1>0, <3>1, <3>3, StageMoves DEF VerdictInv, TypeOK
    <3> QED
      BY <3>2, <3>3
  <2>2. CASE ~TakeVerdict(r)
    <3>1. series' = series /\ \A q \in PE \ {r} : pc'[q] = pc[q]
      BY <1>3, <2>2 DEF PEStep, PutSeries, Quiet, ReadSeries, Validate, Combine, Goto, VerdictInv, TypeOK
    <3> QED
      BY <1>0, <1>3, <3>1, StageMoves
  <2> QED
    BY <2>1, <2>2
<1> QED
  BY <1>1, <1>2, <1>3 DEF Report

(* After a report of the others, all ranks are at the next size, or done.  *)
LEMMA EndMoves ==
  ASSUME CallsType, MpiInv, EndOfReport, NEW p \in PE, pc[p] # "stats"
  PROVE  Moves(p)
<1>1. /\ stage'[p] = NextStage(p) /\ pc'[p] = NextCase(p)
      /\ series'[p] = IF series[p] < Last THEN series[p] + 1 ELSE series[p]
  BY DEF EndOfReport
<1>2. series[p] \in Int /\ Last \in Int /\ series[p] <= Last
  BY SeriesCount, SMT DEF MpiInv, TypeOK, SeriesOf, Last
<1>3. series[p] < Last => NextCase(p) = "stats"
  BY <1>2, SMT DEF NextCase
<1> QED
  BY <1>1, <1>2, <1>3, StageMoves DEF MpiInv

LEMMA MpiMoves ==
  ASSUME CallsType, MpiInv, MpiStats \/ MpiVerdict \/ \E r \in PE : MpiValidate(r)
  PROVE  \A p \in PE : Moves(p)
<1> SUFFICES ASSUME NEW p \in PE
             PROVE  Moves(p)
  OBVIOUS
<1>1. CASE MpiStats
  <2>1. CASE VerdictFirst
    BY <1>1, <2>1, EndMoves DEF MpiStats
  <2>2. CASE ~VerdictFirst
    BY <1>1, <2>2 DEF MpiStats, Measured, Moves
  <2> QED
    BY <2>1, <2>2
<1>2. CASE MpiVerdict
  <2>1. CASE VerdictFirst
    BY <1>2, <2>1 DEF MpiVerdict, Moves
  <2>2. CASE ~VerdictFirst
    BY <1>2, <2>2, EndMoves DEF MpiVerdict
  <2> QED
    BY <2>1, <2>2
<1>3. ASSUME NEW r \in PE, MpiValidate(r)
      PROVE  Moves(p)
  BY <1>3 DEF MpiValidate, Validates, Measured, Moves, MpiInv, TypeOK, calls
<1> QED
  BY <1>1, <1>2, <1>3

(* The steps of Collectives: those of the calls, which leave statistics    *)
(* and verdicts alone, and those of a report, which leave the calls alone. *)
LEMMA CallsKinds ==
  ASSUME CallsInv, NextCalls
  PROVE  \/ /\ UNCHANGED vars
            /\ (\E p \in PE : Measure(p)) \/ Align \/ (\E b \in blocks : DeliverBlock(b))
         \/ /\ UNCHANGED <<program, library, entered, recv, blocks>>
            /\ Collective => \A p \in PE : Moves(p)
            /\ \/ library = "oshmpi" /\ Report
               \/ library # "oshmpi" /\ (MpiStats \/ MpiVerdict \/ \E r \in PE : MpiValidate(r))
<1>1. ASSUME NEW p \in PE, Measure(p)
      PROVE  UNCHANGED vars
  BY <1>1 DEF Measure, Fill, Enter, QuietBlocks, Return
<1>2. Align => UNCHANGED vars
  BY DEF Align
<1>3. ASSUME NEW b \in blocks, DeliverBlock(b)
      PROVE  UNCHANGED vars
  BY <1>3 DEF DeliverBlock
<1>4. CASE Report
  <2>1. library = "oshmpi" /\ UNCHANGED <<library, entered, recv, blocks>>
    BY <1>4 DEF Report
  <2>2. program' = program
    BY <1>4 DEF Report, PEStep, PutSeries, Quiet, ReadSeries, Validate, Combine, TakeVerdict,
                Barrier, Deliver
  <2> QED
    BY <1>4, <2>1, <2>2, ReportMoves DEF CallsInv
<1>5. CASE MpiStats \/ MpiVerdict \/ \E r \in PE : MpiValidate(r)
  <2>1. library # "oshmpi" /\ UNCHANGED <<program, library, entered, recv, blocks>>
    BY <1>5 DEF MpiStats, MpiVerdict, MpiValidate, calls
  <2> QED
    BY <1>5, <2>1, MpiMoves DEF CallsInv
<1> QED
  BY <1>1, <1>2, <1>3, <1>4, <1>5 DEF NextCalls

LEMMA CallsTypeStep == CallsInv /\ NextCalls => CallsType'
<1> SUFFICES ASSUME CallsInv, NextCalls
             PROVE  CallsType'
  OBVIOUS
<1> USE DEF Filling, Exchanging
<1>0. CallsType
  BY DEF CallsInv
<1>1. ASSUME NEW r \in PE, Measure(r)
      PROVE  CallsType'
  <2>1. Collective /\ UNCHANGED <<vars, library>> /\ (Collective' <=> Collective)
    BY <1>0, <1>1 DEF Measure, Fill, Enter, QuietBlocks, Return, Move, CallsType, vars, Collective
  <2>2. /\ stage' \in [PE -> Filling \cup Exchanging \cup {"inCall", "measured"}]
    BY <1>0, <1>1 DEF Measure, Fill, Enter, QuietBlocks, Return, Move, CallsType
  <2>3. entered' \in [PE -> Nat]
    BY <1>0, <1>1, SMT DEF Measure, Fill, Enter, QuietBlocks, Return, CallsType
  <2>4. recv' \in [PE -> [PE -> Nat]]
    <3>1. CASE Fill(r)
      BY <1>0, <3>1 DEF Fill, CallsType
    <3>2. CASE Enter(r)
      <4>1. recv' = recv \/ recv' = [recv EXCEPT ![r] = [recv[r] EXCEPT ![r] = entered'[r]]]
        BY <3>2 DEF Enter
      <4>2. [recv[r] EXCEPT ![r] = entered'[r]] \in [PE -> Nat]
        BY <1>0, <2>3 DEF CallsType
      <4> QED
        BY <1>0, <4>1, <4>2 DEF CallsType
    <3>3. CASE QuietBlocks(r)
      BY <1>0, <3>3 DEF QuietBlocks, CallsType
    <3>4. CASE Return(r)
      BY <1>0, <3>4 DEF Return, CallsType
    <3> QED
      BY <1>1, <3>1, <3>2, <3>3, <3>4 DEF Measure
  <2>5. blocks' \subseteq [src : PE, dst : PE, call : Nat]
    <3>1. CASE Enter(r)
      BY <1>0, <2>3, <3>1 DEF Enter, Block, CallsType
    <3>2. CASE ~Enter(r)
      BY <1>0, <1>1, <3>2 DEF Measure, Fill, QuietBlocks, Return, CallsType
    <3> QED
      BY <3>1, <3>2
  <2> QED
    BY <1>0, <2>1, <2>2, <2>3, <2>4, <2>5 DEF CallsType
<1>2. CASE Align
  <2>1. Collective /\ UNCHANGED <<vars, library, entered, recv, blocks>> /\ (Collective' <=> Collective)
    <3>1. 0 \in PE
      BY VerdictAssumption, SMT DEF PE
    <3> QED
      BY <1>0, <1>2, <3>1 DEF Align, CallsType, vars, Collective
  <2>2. stage' \in [PE -> Filling \cup Exchanging \cup {"inCall", "measured"}]
    BY <1>2 DEF Align
  <2> QED
    BY <1>0, <2>1, <2>2 DEF CallsType
<1>3. ASSUME NEW b \in blocks, DeliverBlock(b)
      PROVE  CallsType'
  <2>1. b.src \in PE /\ b.dst \in PE /\ b.call \in Nat
    BY <1>0 DEF CallsType
  <2>2. recv' = [recv EXCEPT ![b.dst] = [recv[b.dst] EXCEPT ![b.src] = b.call]]
        /\ blocks' \subseteq blocks /\ UNCHANGED <<vars, library, stage, entered>>
    BY <1>3 DEF DeliverBlock
  <2>3. [recv[b.dst] EXCEPT ![b.src] = b.call] \in [PE -> Nat]
    BY <1>0, <2>1 DEF CallsType
  <2>4. recv' \in [PE -> [PE -> Nat]]
    BY <1>0, <2>1, <2>2, <2>3 DEF CallsType
  <2> QED
    BY <1>0, <2>2, <2>4 DEF CallsType, vars, Collective
<1>4. CASE /\ UNCHANGED <<program, library, entered, recv, blocks>>
           /\ Collective => \A p \in PE : Moves(p)
           /\ \/ library = "oshmpi" /\ Report
              \/ library # "oshmpi" /\ (MpiStats \/ MpiVerdict \/ \E r \in PE : MpiValidate(r))
  <2>1. stage' = [p \in PE |-> stage'[p]]
    BY <1>0, <1>4 DEF Report, MpiStats, MpiVerdict, MpiValidate, EndOfReport, calls, CallsType
  <2>2. CASE Collective
    BY <1>0, <1>4, <2>1, <2>2 DEF Moves, CallsType, Collective
  <2>3. CASE ~Collective
    <3>1. \A p \in PE : stage'[p] = "measured"
      BY <1>0, <1>4, <2>3 DEF Report, NextStage, Start, CallsType
    <3> QED
      BY <1>0, <1>4, <2>1, <2>3, <3>1 DEF CallsType, Collective
  <2> QED
    BY <2>2, <2>3
<1> QED
  BY <1>1, <1>2, <1>3, <1>4, CallsKinds

LEMMA CountedStep == CallsInv /\ NextCalls => CallsCounted'
<1> SUFFICES ASSUME CallsInv, NextCalls, Collective, Collective',
                    NEW p \in PE
             PROVE  /\ pc'[p] # "stats" => stage'[p] = "measured"
                    /\ stage'[p] \in Filling => entered'[p] = (series'[p] - 1) * Calls
                    /\ stage'[p] = "ready" =>
                         (series'[p] - 1) * Calls <= entered'[p] /\ entered'[p] < series'[p] * Calls
                    /\ stage'[p] \in {"quiet", "callEnd", "inCall"} =>
                         (series'[p] - 1) * Calls < entered'[p] /\ entered'[p] <= series'[p] * Calls
                    /\ stage'[p] = "measured" => entered'[p] = series'[p] * Calls
                    /\ Puts' => stage'[p] # "inCall"
                    /\ ~Puts' => stage'[p] \notin {"quiet", "callEnd"}
  BY CallsKinds DEF CallsCounted, Collective, vars
<1> DEFINE lo == (series[p] - 1) * Calls
           hi == series[p] * Calls
<1> USE DEF Filling
<1>0. /\ series[p] \in Int /\ entered[p] \in Int /\ entered \in [PE -> Nat] 
      /\ stage \in [PE -> Filling \cup Exchanging \cup {"inCall", "measured"}]
      /\ lo \in Int /\ hi \in Int /\ lo < hi
  <2>1. series[p] \in Int /\ Calls \in Int /\ Calls > 0
    BY CallsAssumption, SMT DEF CallsInv, VerdictInv, MpiInv, TypeOK, SeriesOf
  <2>2. lo \in Int /\ hi \in Int /\ hi = lo + Calls
    BY <2>1, SMT
  <2>3. /\ entered[p] \in Int /\ entered \in [PE -> Nat]
        /\ stage \in [PE -> Filling \cup Exchanging \cup {"inCall", "measured"}]
    BY SMT DEF CallsInv, CallsType
  <2> HIDE DEF lo, hi
  <2>4. lo < hi
    BY <2>1, <2>2, SMT
  <2> QED
    BY <2>1, <2>2, <2>3, <2>4
<1>1. /\ pc[p] # "stats" => stage[p] = "measured"
      /\ stage[p] \in Filling => entered[p] = lo
      /\ stage[p] = "ready" => lo <= entered[p] /\ entered[p] < hi
      /\ stage[p] \in {"quiet", "callEnd", "inCall"} => lo < entered[p] /\ entered[p] <= hi
      /\ stage[p] = "measured" => entered[p] = hi
      /\ Puts => stage[p] # "inCall"
      /\ ~Puts => stage[p] \notin {"quiet", "callEnd"}
  BY DEF CallsInv, CallsCounted
<1>2. ASSUME UNCHANGED vars, (\E r \in PE : Measure(r)) \/ Align \/ (\E b \in blocks : DeliverBlock(b))
      PROVE  /\ pc'[p] # "stats" => stage'[p] = "measured"
             /\ stage'[p] \in Filling => entered'[p] = lo
             /\ stage'[p] = "ready" => lo <= entered'[p] /\ entered'[p] < hi
             /\ stage'[p] \in {"quiet", "callEnd", "inCall"} => lo < entered'[p] /\ entered'[p] <= hi
             /\ stage'[p] = "measured" => entered'[p] = hi
             /\ Puts' => stage'[p] # "inCall"
             /\ ~Puts' => stage'[p] \notin {"quiet", "callEnd"}
  <2>1. Puts' = Puts /\ UNCHANGED <<pc, series>>
    BY <1>2 DEF vars, Puts, Measure, Fill, Enter, QuietBlocks, Return, Align, DeliverBlock
  <2> HIDE DEF lo, hi
  <2>2. ASSUME NEW r \in PE, Fill(r)
        PROVE  /\ UNCHANGED entered
               /\ stage'[p] = stage[p] \/ (stage[p] = "fill" /\ stage'[p] = "align")
    BY <1>0, <2>2 DEF Fill, Move
  <2>3. ASSUME NEW r \in PE, Enter(r)
        PROVE  \/ stage'[p] = stage[p] /\ entered'[p] = entered[p]
               \/ /\ stage[p] = "ready" /\ stage'[p] = IF Puts THEN "quiet" ELSE "inCall"
                  /\ entered'[p] = entered[p] + 1
    BY <1>0, <2>3 DEF Enter, Move
  <2>4. ASSUME NEW r \in PE, QuietBlocks(r)
        PROVE  /\ UNCHANGED entered
               /\ stage'[p] = stage[p] \/ (stage[p] = "quiet" /\ stage'[p] = "callEnd")
    BY <1>0, <2>4 DEF QuietBlocks, Move
  <2>5. ASSUME NEW r \in PE, Return(r)
        PROVE  /\ UNCHANGED entered
               /\ \/ stage'[p] = stage[p]
                  \/ stage[p] = "inCall" /\ stage'[p] = IF entered[p] < hi THEN "ready" ELSE "measured"
    BY <1>0, <2>5 DEF Return, Move, hi
  <2>6. CASE Align
    <3>1. /\ UNCHANGED entered /\ stage[p] \in {"align", "callEnd"}
          /\ stage'[p] = IF stage[p] = "align" \/ entered[p] < hi THEN "ready" ELSE "measured"
      BY <2>6 DEF Align, hi
    <3> QED
      BY <1>0, <1>1, <2>1, <3>1, SMT
  <2>7. ASSUME NEW b \in blocks, DeliverBlock(b)
        PROVE  UNCHANGED <<entered, stage>>
    BY <2>7 DEF DeliverBlock
  <2>8. ASSUME NEW r \in PE, Measure(r)
        PROVE  \/ stage'[p] = stage[p] /\ entered'[p] = entered[p]
               \/ stage[p] = "fill" /\ stage'[p] = "align" /\ entered'[p] = entered[p]
               \/ /\ stage[p] = "ready" /\ stage'[p] = IF Puts THEN "quiet" ELSE "inCall"
                  /\ entered'[p] = entered[p] + 1
               \/ stage[p] = "quiet" /\ stage'[p] = "callEnd" /\ entered'[p] = entered[p]
               \/ /\ stage[p] = "inCall" /\ stage'[p] = IF entered[p] < hi THEN "ready" ELSE "measured"
                  /\ entered'[p] = entered[p]
    BY <2>2, <2>3, <2>4, <2>5, <2>8 DEF Measure
  <2> QED
    BY <1>0, <1>1, <1>2, <2>1, <2>6, <2>7, <2>8, SMT
<1>3. ASSUME Moves(p), UNCHANGED <<program, library, entered>>
      PROVE  /\ pc'[p] # "stats" => stage'[p] = "measured"
             /\ stage'[p] \in Filling => entered'[p] = (series'[p] - 1) * Calls
             /\ stage'[p] = "ready" =>
                  (series'[p] - 1) * Calls <= entered'[p] /\ entered'[p] < series'[p] * Calls
             /\ stage'[p] \in {"quiet", "callEnd", "inCall"} =>
                  (series'[p] - 1) * Calls < entered'[p] /\ entered'[p] <= series'[p] * Calls
             /\ stage'[p] = "measured" => entered'[p] = series'[p] * Calls
             /\ Puts' => stage'[p] # "inCall"
             /\ ~Puts' => stage'[p] \notin {"quiet", "callEnd"}
  <2>1. Puts' = Puts
    BY <1>3 DEF Puts
  <2>2. CASE series'[p] = series[p] /\ stage'[p] = stage[p]
    BY <1>1, <1>3, <2>1, <2>2 DEF Moves
  <2>3. CASE series'[p] = series[p] + 1 /\ stage'[p] = "fill" /\ pc'[p] = "stats" /\ pc[p] # "stats"
    <3>1. entered'[p] = hi /\ series'[p] - 1 = series[p]
      BY <1>0, <1>1, <1>3, <2>3, SMT
    <3> QED
      BY <2>3, <3>1
  <2> QED
    BY <1>3, <2>2, <2>3 DEF Moves
<1>4. CASE UNCHANGED vars /\ ((\E r \in PE : Measure(r)) \/ Align \/ (\E b \in blocks : DeliverBlock(b)))
  <2>1. series' = series
    BY <1>4 DEF vars
  <2> QED
    BY <1>2, <1>4, <2>1
<1> QED
  BY <1>3, <1>4, CallsKinds

(* Where the alltoall of OSHMPI reports, all PEs go on to the next size    *)
(* together: it hands nothing back.                                        *)
LEMMA MovesTogether ==
  ASSUME CallsType, CallsCounted, VerdictInv, Report, Puts
  PROVE  (\A p \in PE : stage'[p] = stage[p]) \/ (\A p \in PE : stage'[p] = "fill")
<1>0. Collective /\ ~HandBack /\ Start = "fill" /\ \A p \in PE : stage'[p] = NextStage(p)
  BY DEF Puts, Collective, HandBack, Start, Report
<1>1. CASE Barrier
  <2>1. \A p, q \in PE : pc[q] = pc[p] /\ series[q] = series[p]
    BY <1>1, SameBarrier DEF VerdictInv
  <2>2. \A p, q \in PE : AfterBarrier(q) = AfterBarrier(p)
    BY <2>1 DEF AfterBarrier, NextCase, LastOfCase
  <2>3. \A p, q \in PE : pc'[q] = pc'[p] /\ series'[q] = series'[p]
    BY <1>1, <2>1, <2>2 DEF Barrier
  <2>4. \A p, q \in PE : (pc'[p] = "stats" /\ series'[p] # series[p])
                        <=> (pc'[q] = "stats" /\ series'[q] # series[q])
    BY <2>1, <2>3
  <2> QED
    BY <1>0, <2>4 DEF NextStage
<1>2. CASE ~Barrier
  <2>1. \A r \in PE : ~TakeVerdict(r)
    BY <1>0 DEF TakeVerdict, Goto, VerdictInv, HandedBack
  <2>2. series' = series
    BY <1>2, <2>1 DEF Report, PEStep, PutSeries, Quiet, ReadSeries, Validate, Combine, Deliver
  <2> QED
    BY <1>0, <2>2 DEF NextStage
<1> QED
  BY <1>1, <1>2

LEMMA BlocksStep ==
  CallsInv /\ NextCalls => BlocksTogether' /\ BlocksInFlight' /\ BlocksHeld'
<1> SUFFICES ASSUME CallsInv, NextCalls
             PROVE  BlocksTogether' /\ BlocksInFlight' /\ BlocksHeld'
  OBVIOUS
<1> USE DEF Filling, Exchanging
<1>0. Puts' = Puts
  BY CallsKinds DEF Puts, vars, Measure, Fill, Enter, QuietBlocks, Return, Align, DeliverBlock
<1>1. CASE ~Puts
  <2>1. blocks = {}
    BY <1>1 DEF CallsInv, BlocksInFlight
  <2>2. blocks' = {}
    BY <1>1, <2>1, CallsKinds DEF Measure, Fill, Enter, QuietBlocks, Return, Align, DeliverBlock
  <2> QED
    BY <1>0, <1>1, <2>2 DEF BlocksTogether, BlocksInFlight, BlocksHeld
<1>2. CASE Puts
  <2>0. /\ Collective /\ CallsType /\ CallsCounted /\ BlocksTogether /\ BlocksInFlight /\ BlocksHeld
        /\ program = "alltoall" /\ library = "oshmpi" /\ VerdictInv
        /\ \A p \in PE : series[p] \in Int /\ stage[p] # "inCall"
    BY <1>2, SMT DEF CallsInv, CallsCounted, Puts, Collective, VerdictInv, TypeOK, SeriesOf
  <2>1. ASSUME NEW r \in PE, Fill(r)
        PROVE  BlocksTogether' /\ BlocksInFlight' /\ BlocksHeld'
    <3>1. /\ stage[r] = "fill" /\ stage' = [stage EXCEPT ![r] = "align"]
          /\ UNCHANGED <<entered, blocks>> /\ \A p \in PE \ {r} : recv'[p] = recv[p]
      BY <2>0, <2>1 DEF Fill, Move, CallsType
    <3>2. \A p \in PE : stage[p] \in Filling /\ stage'[p] \in Filling
      BY <2>0, <3>1, <1>2 DEF BlocksTogether, CallsType
    <3>3. \A p, q \in PE : entered[q] = entered[p]
      BY <1>2, <2>0, <3>2 DEF BlocksTogether
    <3>4. blocks = {}
      BY <2>0, <3>2 DEF BlocksInFlight, CallsType
    <3> QED
      BY <3>1, <3>2, <3>3, <3>4 DEF BlocksTogether, BlocksInFlight, BlocksHeld
  <2>2. ASSUME NEW r \in PE, Enter(r)
        PROVE  BlocksTogether' /\ BlocksInFlight' /\ BlocksHeld'
    <3>1. /\ stage[r] = "ready" /\ stage' = [stage EXCEPT ![r] = "quiet"]
          /\ entered' = [entered EXCEPT ![r] = @ + 1] /\ entered'[r] = entered[r] + 1
          /\ recv' = [recv EXCEPT ![r] = [recv[r] EXCEPT ![r] = entered[r] + 1]]
          /\ blocks' = blocks \cup {Block(r, q, entered[r] + 1) : q \in PE \ {r}}
      BY <1>2, <2>0, <2>2 DEF Enter, Move, CallsType
    <3>2. /\ recv'[r][r] = entered'[r]
          /\ \A p, q \in PE : p # r \/ q # r => recv'[p][q] = recv[p][q]
      BY <2>0, <3>1 DEF CallsType
    <3>3. \A p \in PE \ {r} : stage'[p] = stage[p] /\ entered'[p] = entered[p]
      BY <2>0, <3>1 DEF CallsType
    <3>4. stage'[r] = "quiet"
      BY <2>0, <3>1 DEF CallsType
    <3>5. \A p \in PE : stage[p] \in Exchanging /\ stage'[p] \in Exchanging
      BY <1>2, <2>0, <3>1, <3>3, <3>4 DEF BlocksTogether
    <3>6. \A p \in PE : entered[p] = IF stage[p] = "ready" THEN entered[r] ELSE entered[r] + 1
      BY <1>2, <2>0, <3>1, <3>5 DEF BlocksTogether
    <3>7. \A p \in PE : entered'[p] = IF stage'[p] = "ready" THEN entered[r] ELSE entered[r] + 1
      BY <3>1, <3>3, <3>4, <3>6
    <3>8. BlocksTogether'
      BY <3>5, <3>7 DEF BlocksTogether
    <3>9. BlocksInFlight'
      <4>1. ASSUME NEW b \in blocks
            PROVE  b.src # r /\ b.src \in PE
        BY <2>0, <3>1 DEF BlocksInFlight, CallsType
      <4>2. \A q \in PE : Block(r, q, entered[r] + 1).src = r /\ Block(r, q, entered[r] + 1).call = entered[r] + 1
        BY DEF Block
      <4> QED
        BY <1>0, <1>2, <2>0, <3>1, <3>3, <3>4, <4>1, <4>2 DEF BlocksInFlight
    <3>10. BlocksHeld'
      <4>1. ASSUME NEW p \in PE, NEW q \in PE, q # r
            PROVE  /\ stage'[q] \in {"callEnd", "measured"} => recv'[p][q] = entered'[q]
                   /\ stage'[q] = "quiet" =>
                        recv'[p][q] = entered'[q] \/ Block(q, p, entered'[q]) \in blocks'
        BY <1>2, <2>0, <3>1, <3>2, <3>3, <4>1 DEF BlocksHeld
      <4>2. ASSUME NEW p \in PE
            PROVE  recv'[p][r] = entered'[r] \/ Block(r, p, entered'[r]) \in blocks'
        BY <3>1, <3>2
      <4> QED
        BY <3>4, <4>1, <4>2 DEF BlocksHeld
    <3> QED
      BY <3>8, <3>9, <3>10
  <2>3. ASSUME NEW r \in PE, QuietBlocks(r)
        PROVE  BlocksTogether' /\ BlocksInFlight' /\ BlocksHeld'
    <3>1. /\ stage[r] = "quiet" /\ stage' = [stage EXCEPT ![r] = "callEnd"]
          /\ UNCHANGED <<entered, recv, blocks>> /\ \A b \in blocks : b.src # r
      BY <2>3 DEF QuietBlocks, Move
    <3>2. \A p \in PE : Block(r, p, entered[r]) \notin blocks
      BY <3>1 DEF Block
    <3>3. stage'[r] = "callEnd" /\ \A p \in PE \ {r} : stage'[p] = stage[p]
      BY <2>0, <3>1 DEF CallsType
    <3>4. BlocksTogether'
      BY <1>0, <2>0, <3>1, <3>3 DEF BlocksTogether
    <3>5. BlocksInFlight'
      BY <1>0, <2>0, <3>1, <3>3 DEF BlocksInFlight, CallsType
    <3>6. BlocksHeld'
      BY <1>0, <2>0, <3>1, <3>2, <3>3 DEF BlocksHeld
    <3> QED
      BY <3>4, <3>5, <3>6
  <2>4. CASE Align
    <3>1. PICK from \in {"align", "callEnd"} :
            /\ \A p \in PE : stage[p] = from
            /\ stage' = [p \in PE |-> IF stage[p] = "align" \/ entered[p] < series[p] * Calls
                                     THEN "ready" ELSE "measured"]
            /\ UNCHANGED <<entered, recv, blocks>>
      BY <2>4 DEF Align
    <3>2. blocks = {}
      BY <2>0, <3>1 DEF BlocksInFlight, CallsType
    <3>3. \A p, q \in PE : entered[q] = entered[p] /\ series[q] = series[p]
      <4>1. \A p \in PE : pc[p] = "stats"
        BY <2>0, <3>1 DEF CallsCounted
      <4> QED
        BY <1>2, <2>0, <3>1, <4>1 DEF BlocksTogether, VerdictInv, Together, Gathering
    <3>4. \A p, q \in PE : stage'[p] = stage'[q] /\ stage'[p] \in {"ready", "measured"}
      BY <3>1, <3>3
    <3>5. BlocksTogether'
      BY <3>1, <3>3, <3>4 DEF BlocksTogether
    <3>6. BlocksHeld'
      BY <1>2, <2>0, <3>1, <3>4 DEF BlocksHeld
    <3> QED
      BY <3>1, <3>2, <3>5, <3>6 DEF BlocksInFlight
  <2>5. ASSUME NEW b \in blocks, DeliverBlock(b)
        PROVE  BlocksTogether' /\ BlocksInFlight' /\ BlocksHeld'
    <3>1. /\ b.src \in PE /\ b.dst \in PE /\ b.call \in Nat /\ stage[b.src] = "quiet"
          /\ b.call = entered[b.src]
      BY <2>0 DEF CallsType, BlocksInFlight
    <3>2. /\ recv' = [recv EXCEPT ![b.dst] = [recv[b.dst] EXCEPT ![b.src] = b.call]]
          /\ blocks' = blocks \ {b} /\ UNCHANGED <<stage, entered>>
      BY <2>5 DEF DeliverBlock
    <3>3. /\ recv'[b.dst][b.src] = entered[b.src]
          /\ \A p, q \in PE : p # b.dst \/ q # b.src => recv'[p][q] = recv[p][q]
      BY <2>0, <3>1, <3>2 DEF CallsType
    <3>4. \A p, q \in PE : p # b.dst \/ q # b.src => Block(q, p, entered[q]) # b
      BY DEF Block
    <3>5. BlocksHeld'
      BY <1>0, <2>0, <3>2, <3>3, <3>4 DEF BlocksHeld
    <3>6. BlocksTogether' /\ BlocksInFlight'
      BY <1>0, <2>0, <3>2 DEF BlocksTogether, BlocksInFlight
    <3> QED
      BY <3>5, <3>6
  <2>6. CASE Report /\ UNCHANGED <<entered, recv, blocks>> /\ \A p \in PE : Moves(p)
    <3>1. CASE \A p \in PE : stage'[p] = stage[p]
      BY <1>0, <2>0, <2>6, <3>1 DEF BlocksTogether, BlocksInFlight, BlocksHeld, CallsType
    <3>2. CASE \A p \in PE : stage'[p] = "fill"
      <4>1. \A p \in PE : stage[p] \in {"fill", "measured"}
        BY <2>0, <2>6, <3>2 DEF Moves, CallsCounted
      <4>2. \A p, q \in PE : entered[q] = entered[p]
        BY <1>2, <2>0, <4>1 DEF BlocksTogether
      <4>3. blocks = {}
        BY <2>0, <4>1 DEF BlocksInFlight, CallsType
      <4> QED
        BY <2>6, <3>2, <4>2, <4>3 DEF BlocksTogether, BlocksInFlight, BlocksHeld
    <3> QED
      BY <1>2, <2>0, <2>6, <3>1, <3>2, MovesTogether
  <2>7. ASSUME NEW r \in PE
        PROVE  ~Return(r)
    BY <2>0 DEF Return, Move
  <2> QED
    BY <2>0, <2>1, <2>2, <2>3, <2>4, <2>5, <2>6, <2>7, CallsKinds DEF Measure
<1> QED
  BY <1>1, <1>2

LEMMA ResultStep == CallsInv /\ NextCalls => ResultHeld'
<1> SUFFICES ASSUME CallsInv, NextCalls, Collective, ~Puts, Collective', ~Puts',
                    NEW p \in PE, NEW q \in PE, stage'[p] = "measured"
             PROVE  recv'[p][q] = entered'[p]
  BY CallsKinds DEF ResultHeld, Collective, Puts, vars, Measure, Fill, Enter, QuietBlocks, Return,
                    Align, DeliverBlock
<1>0. /\ CallsType /\ CallsCounted /\ blocks = {}
      /\ stage[p] = "measured" => recv[p][q] = entered[p]
  BY DEF CallsInv, BlocksInFlight, ResultHeld
<1>1. ASSUME NEW r \in PE, Fill(r)
      PROVE  recv'[p][q] = entered'[p]
  <2>1. p # r /\ stage'[p] = stage[p] /\ recv'[p] = recv[p] /\ entered' = entered
    BY <1>0, <1>1 DEF Fill, Move, CallsType
  <2> QED
    BY <1>0, <2>1
<1>2. ASSUME NEW r \in PE, Enter(r)
      PROVE  recv'[p][q] = entered'[p]
  <2>1. p # r /\ stage'[p] = stage[p] /\ recv' = recv /\ entered'[p] = entered[p]
    BY <1>0, <1>2 DEF Enter, Move, CallsType
  <2> QED
    BY <1>0, <2>1
<1>3. ASSUME NEW r \in PE, Return(r)
      PROVE  recv'[p][q] = entered'[p]
  <2>1. entered' = entered /\ recv' = [recv EXCEPT ![r] = [s \in PE |-> entered[r]]]
        /\ (p # r => stage'[p] = stage[p])
    BY <1>0, <1>3 DEF Return, Move, CallsType
  <2> QED
    BY <1>0, <2>1 DEF CallsType
<1>4. ASSUME NEW r \in PE, QuietBlocks(r)
      PROVE  FALSE
  BY <1>0, <1>4 DEF QuietBlocks, Move, CallsCounted
<1>5. CASE Align
  <2>1. \E from \in {"align", "callEnd"} : \A r \in PE : stage[r] = from
    BY <1>5 DEF Align
  <2>2. stage[p] = "align"
    BY <1>0, <2>1 DEF CallsCounted
  <2>3. stage'[p] = "ready"
    BY <1>5, <2>2 DEF Align
  <2> QED
    BY <2>3
<1>6. CASE Moves(p) /\ UNCHANGED <<entered, recv>>
  BY <1>0, <1>6 DEF Moves
<1> QED
  BY <1>0, <1>1, <1>2, <1>3, <1>4, <1>5, <1>6, CallsKinds DEF Measure

LEMMA MpiStep == CallsInv /\ NextCalls /\ library # "oshmpi" => MpiInv'
<1> SUFFICES ASSUME CallsInv, NextCalls, library # "oshmpi"
             PROVE  MpiInv'
  OBVIOUS
<1>0. MpiInv /\ TypeOK /\ 0 \in PE
  BY VerdictAssumption, SMT DEF CallsInv, MpiInv, PE
<1>1. CASE UNCHANGED vars
  BY <1>0, <1>1, CallsKinds
  DEF MpiInv, TypeOK, vars, Collective, VerdictFirst, SeriesOf, Last, PerCase, SeriesPut, Measure,
      Fill, Enter, QuietBlocks, Return, Align, DeliverBlock
<1>2. ASSUME UNCHANGED <<program, library, puts, gather, okByPE>>, Collective, reduced' \subseteq SeriesOf,
             pc' \in [PE -> PC], series' \in [PE -> SeriesOf], {local', global', allOk'} \subseteq [PE -> BOOLEAN],
             reduced' = {} \/ \E s \in SeriesOf : reduced' = {s},
             \A p, q \in PE :
               /\ series'[p] = series'[q]
               /\ allOk'[p] <=> allOk'[q]
               /\ pc'[p] \in {"stats", "combine", "exit", IF VerdictFirst THEN "statsBarrier" ELSE "validate"}
               /\ pc'[p] = "exit" => pc'[q] = "exit"
               /\ pc'[p] = "statsBarrier" => pc'[q] = "statsBarrier"
               /\ pc'[p] = "validate" => reduced' = {series'[p]}
      PROVE  MpiInv'
  BY <1>0, <1>2 DEF MpiInv, TypeOK, Collective, VerdictFirst, SeriesOf, Last, PerCase, SeriesPut
<1>3. ASSUME EndOfReport
      PROVE  /\ pc' \in [PE -> PC] /\ series' \in [PE -> SeriesOf]
             /\ \A p, q \in PE : pc'[p] = pc'[q] /\ series'[p] = series'[q] /\ pc'[p] \in {"stats", "exit"}
  <2>1. \A p \in PE : pc'[p] = NextCase(p)
                     /\ series'[p] = IF series[p] < Last THEN series[p] + 1 ELSE series[p]
    BY <1>3 DEF EndOfReport
  <2>2. \A p, q \in PE : series[p] = series[q]
    BY <1>0 DEF MpiInv
  <2>3. ASSUME NEW p \in PE
        PROVE  (IF series[p] < Last THEN series[p] + 1 ELSE series[p]) \in SeriesOf
    BY <1>0, SeriesCount, SMT DEF TypeOK, SeriesOf
  <2>4. \A p \in PE : NextCase(p) \in {"stats", "exit"}
    BY DEF NextCase
  <2>5. pc' \in [PE -> PC]
    BY <1>3, <2>4 DEF EndOfReport, PC
  <2>6. series' \in [PE -> SeriesOf]
    BY <1>3, <2>3 DEF EndOfReport
  <2> QED
    BY <2>1, <2>2, <2>4, <2>5, <2>6 DEF NextCase
<1>4. CASE MpiStats
  <2>1. reduced' = {series[0]} /\ series[0] \in SeriesOf
    BY <1>0, <1>4 DEF MpiStats, MpiInv, TypeOK
  <2>2. CASE VerdictFirst
    <3>1. /\ UNCHANGED <<program, library, puts, gather, okByPE, local, global, allOk>>
          /\ EndOfReport
      BY <1>4, <2>2 DEF MpiStats
    <3>2. /\ Collective /\ {local', global', allOk'} \subseteq [PE -> BOOLEAN]
          /\ \A p, q \in PE : allOk'[p] <=> allOk'[q]
      BY <1>0, <3>1 DEF MpiInv, TypeOK
    <3>3. /\ pc' \in [PE -> PC] /\ series' \in [PE -> SeriesOf]
          /\ \A p, q \in PE : /\ pc'[p] = pc'[q] /\ series'[p] = series'[q]
                              /\ pc'[p] \in {"stats", "exit"}
      BY <1>3, <3>1
    <3>4. reduced' \subseteq SeriesOf /\ \E s \in SeriesOf : reduced' = {s}
      BY <2>1
    <3> QED
      BY <1>2, <3>1, <3>2, <3>3, <3>4
  <2>3. CASE ~VerdictFirst
    <3>1. pc' = [p \in PE |-> "validate"] /\ UNCHANGED <<series, local, global, allOk>>
      BY <1>4, <2>3 DEF MpiStats
    <3>2. pc' \in [PE -> PC] /\ \A p \in PE : pc'[p] = "validate" /\ series'[p] = series[0]
      BY <1>0, <3>1 DEF PC, MpiInv
    <3>3. /\ UNCHANGED <<program, library, puts, gather, okByPE>> /\ Collective
          /\ series' \in [PE -> SeriesOf] /\ {local', global', allOk'} \subseteq [PE -> BOOLEAN]
          /\ \A p, q \in PE : allOk'[p] <=> allOk'[q]
      BY <1>0, <1>4, <3>1 DEF MpiStats, MpiInv, TypeOK
    <3> QED
      BY <1>2, <2>1, <2>3, <3>2, <3>3
  <2> QED
    BY <2>2, <2>3
<1>5. ASSUME NEW r \in PE, MpiValidate(r)
      PROVE  MpiInv'
  <2>1. pc[r] \in {"stats", "validate"} /\ pc' = [pc EXCEPT ![r] = "combine"]
        /\ local' \in [PE -> BOOLEAN]
    BY <1>0, <1>5 DEF MpiValidate, Validates, Measured, TypeOK
  <2>2. reduced' \subseteq SeriesOf
    BY <1>0, <1>5 DEF MpiValidate, MpiInv
  <2>3. pc' \in [PE -> PC] /\ pc'[r] = "combine" /\ \A p \in PE \ {r} : pc'[p] = pc[p]
    BY <1>0, <2>1 DEF TypeOK, PC
  <2> QED
    BY <1>0, <1>2, <1>5, <2>1, <2>2, <2>3 DEF MpiValidate, MpiInv, TypeOK, calls
<1>6. CASE MpiVerdict
  <2>1. \A p \in PE : pc[p] = "combine"
    BY <1>6 DEF MpiVerdict
  <2>2. /\ global' \in [PE -> BOOLEAN] /\ allOk' \in [PE -> BOOLEAN]
        /\ \A p, q \in PE : allOk'[p] <=> allOk'[q]
    BY <1>0, <1>6 DEF MpiVerdict, MpiInv
  <2>3. reduced' \subseteq SeriesOf
    BY <1>0, <1>6 DEF MpiVerdict, MpiInv
  <2>4. CASE VerdictFirst
    <3>1. pc' = [p \in PE |-> "statsBarrier"] /\ UNCHANGED series
      BY <1>6, <2>4 DEF MpiVerdict
    <3>2. pc' \in [PE -> PC] /\ \A p \in PE : pc'[p] = "statsBarrier"
      BY <3>1 DEF PC, BarrierPC
    <3> QED
      BY <1>0, <1>2, <1>6, <2>2, <2>3, <2>4, <3>1, <3>2 DEF MpiVerdict, MpiInv, TypeOK
  <2>5. CASE ~VerdictFirst
    BY <1>0, <1>2, <1>3, <1>6, <2>2, <2>3, <2>5 DEF MpiVerdict, MpiInv, TypeOK
  <2> QED
    BY <2>4, <2>5
<1> QED
  BY <1>1, <1>4, <1>5, <1>6, CallsKinds

LEMMA CallsStep == CallsInv /\ [NextCalls]_allVars => CallsInv'
<1> SUFFICES ASSUME CallsInv, [NextCalls]_allVars
             PROVE  CallsInv'
  OBVIOUS
<1>1. CASE UNCHANGED allVars
  <2>1. UNCHANGED vars /\ UNCHANGED calls
    BY <1>1 DEF allVars
  <2>2. VerdictInv => VerdictInv'
    BY <2>1, VerdictStep
  <2>3. MpiInv => MpiInv'
    BY <2>1 DEF MpiInv, TypeOK, vars, calls, Collective, VerdictFirst, SeriesOf, Last, PerCase, SeriesPut
  <2> QED
    BY <2>1, <2>2, <2>3 DEF CallsInv, CallsType, CallsCounted, BlocksTogether, BlocksInFlight,
                            BlocksHeld, ResultHeld, vars, calls, Collective, Puts
<1>2. CASE NextCalls
  <2>1. library' = library
    BY <1>2, CallsKinds DEF Measure, Fill, Enter, QuietBlocks, Return, Align, DeliverBlock
  <2>2. CASE library = "oshmpi"
    <3>1. [Next]_vars
      BY <1>2, <2>2, CallsKinds DEF Report, Next
    <3> QED
      BY <1>2, <2>1, <2>2, <3>1, VerdictStep, CallsTypeStep, CountedStep, BlocksStep, ResultStep
      DEF CallsInv
  <2>3. CASE library # "oshmpi"
    BY <1>2, <2>1, <2>3, MpiStep, CallsTypeStep, CountedStep, BlocksStep, ResultStep DEF CallsInv
  <2> QED
    BY <2>2, <2>3
<1> QED
  BY <1>1, <1>2

(* The calls of a size, their blocks in flight and the protocol of the     *)
(* report behind them stay as CallsInv says, whichever library is used.    *)
THEOREM CallsInductive == CallsSpec => []CallsInv
BY CallsInit, CallsStep, PTL DEF CallsSpec

(* PE 0 never reports a maximum over samples of different cases: the       *)
(* barriers of collective_stats keep a late put of one series and an early *)
(* put of the next apart, whichever benchmark runs and however long the    *)
(* puts take.                                                              *)
THEOREM StatsOfOneSeriesHolds == CallsSpec => []StatsOfOneSeries
<1>1. MpiInv => StatsOfOneSeries
  <2> SUFFICES ASSUME MpiInv
               PROVE  StatsOfOneSeries
    OBVIOUS
  <2>1. Cardinality(reduced) \in {0, 1}
    <3>1. CASE reduced = {}
      BY <3>1, FS_EmptySet, Zenon
    <3>2. ASSUME NEW s, reduced = {s}
          PROVE  Cardinality(reduced) = 1
      BY <3>2, FS_Singleton, Zenon
    <3> QED
      BY <3>1, <3>2, FS_EmptySet, Zenon DEF MpiInv
  <2>2. Cardinality(reduced) <= 1
    BY <2>1, SMT
  <2>3. 0 \in PE
    BY VerdictAssumption, SMT DEF PE
  <2> QED
    BY <2>2, <2>3 DEF MpiInv, StatsOfOneSeries
<1>2. CallsInv => StatsOfOneSeries
  BY <1>1, SeriesOnce DEF CallsInv
<1> QED
  BY <1>2, CallsInductive, PTL

(* The verdict PE 0 reports for a case is that of this case on every PE,   *)
(* though the slots still hold those of the case before.                   *)
THEOREM VerdictIsConjunctionHolds == CallsSpec => []VerdictIsConjunction
<1>1. MpiInv => VerdictIsConjunction
  BY VerdictAssumption, SMT DEF MpiInv, VerdictIsConjunction, PE
<1>2. CallsInv => VerdictIsConjunction
  BY <1>1 DEF CallsInv, VerdictInv
<1> QED
  BY <1>2, CallsInductive, PTL

(* Where the verdict is handed back, or reduced by all ranks, no two exit  *)
(* codes differ, though the PEs take it without a barrier behind them.     *)
THEOREM HandedBackCodesAgreeHolds == CallsSpec => []HandedBackCodesAgree
<1>1. MpiInv => HandedBackCodesAgree
  BY DEF MpiInv, HandedBackCodesAgree, ExitCodesAgree
<1>2. CallsInv => HandedBackCodesAgree
  BY <1>1, CodesOnce DEF CallsInv
<1> QED
  BY <1>2, CallsInductive, PTL

(* The data a rank validates is that of the last call of the size, from    *)
(* every rank: no block of an earlier call, or of the size before.         *)
THEOREM ValidatesLastCallHolds == CallsSpec => []ValidatesLastCall
<1>1. ASSUME CallsInv, Collective, NEW p \in PE, NEW q \in PE, Validates(p)
      PROVE  recv[p][q] = series[p] * Calls
  <2>1. stage[p] = "measured" /\ entered[p] = series[p] * Calls
    BY <1>1 DEF CallsInv, CallsCounted, Validates, Measured
  <2>2. CASE ~Puts
    BY <1>1, <2>1, <2>2 DEF CallsInv, ResultHeld
  <2>3. CASE Puts
    <3>1. pc[p] = "validate" /\ VerdictInv
      BY <1>1, <2>3 DEF Validates, VerdictFirst, Puts, CallsInv
    <3>2. pc[q] # "stats" /\ series[q] = series[p]
      BY <3>1 DEF VerdictInv, Together, Validating
    <3>3. stage[q] = "measured" /\ entered[q] = series[q] * Calls
      BY <1>1, <3>2 DEF CallsInv, CallsCounted
    <3> QED
      BY <1>1, <2>3, <3>2, <3>3 DEF CallsInv, BlocksHeld
  <2> QED
    BY <2>2, <2>3
<1>2. CallsInv => ValidatesLastCall
  BY <1>1 DEF ValidatesLastCall
<1> QED
  BY <1>2, CallsInductive, PTL

(* Buffers are refilled and cleared only with no block of theirs in        *)
(* flight, though no barrier stands between the report and the refill.     *)
THEOREM RefillsAtRestHolds == CallsSpec => []RefillsAtRest
<1>1. ASSUME CallsInv, NEW p \in PE, stage[p] \in {"fill", "measured"}, NEW b \in blocks
      PROVE  FALSE
  <2>1. Puts /\ stage[b.src] = "quiet" /\ b.src \in PE
    BY <1>1 DEF CallsInv, CallsType, BlocksInFlight
  <2>2. stage[p] \in Exchanging
    BY <1>1, <2>1 DEF CallsInv, BlocksTogether, Exchanging
  <2> QED
    BY <1>1, <2>2 DEF Exchanging
<1>2. CallsInv => RefillsAtRest
  BY <1>1 DEF RefillsAtRest
<1> QED
  BY <1>2, CallsInductive, PTL

(* The measured calls do not interfere with the protocol of the report:    *)
(* with them, OSHMPI's benchmarks still do what ShmemVerdict says.         *)
THEOREM CallsImplementVerdict == CallsSpec /\ library = "oshmpi" => Spec
<1> DEFINE Oshmpi == library = "oshmpi"
<1>1. InitCalls => Init
  BY DEF InitCalls
<1>2. CallsInv /\ Oshmpi /\ [NextCalls]_allVars => [Next]_vars /\ Oshmpi'
  <2>1. CASE UNCHANGED allVars
    BY <2>1 DEF allVars, calls
  <2>2. ASSUME CallsInv, library = "oshmpi", NextCalls
        PROVE  [Next]_vars /\ library' = "oshmpi"
    BY <2>2, CallsKinds DEF Measure, Fill, Enter, QuietBlocks, Return, Align, DeliverBlock, Report, Next
  <2> QED
    BY <2>1, <2>2
<1>3. CallsSpec => InitCalls /\ [][NextCalls]_allVars
  BY PTL DEF CallsSpec
<1> HIDE DEF Oshmpi
<1>4. CallsSpec /\ Oshmpi => Spec
  BY <1>1, <1>2, <1>3, CallsInductive, PTL DEF Spec
<1> QED
  BY <1>4 DEF Oshmpi

-----------------------------------------------------------------------------
(* No deadlock.                                                            *)

(* A PE that is past the barrier before the calls of a size finds nobody   *)
(* before it: all are at that size, or one of them at the next.            *)
AlignsTogether ==
  Collective => \A p, q \in PE :
    stage[p] \notin Filling => /\ series[p] <= series[q]
                               /\ series[q] = series[p] => stage[q] \notin Filling

(* Ranks that reduce the statistics first come to it together.             *)
StatsTogether ==
  library # "oshmpi" /\ ~VerdictFirst =>
    \A p, q \in PE : pc[p] = "stats" => pc[q] = "stats"

(* The guards of the steps of a PE: in its calls, and in the report.       *)
CanMeasure(p) ==
  \/ stage[p] \in {"fill", "ready"}
  \/ stage[p] = "quiet" /\ \A b \in blocks : b.src # p
  \/ stage[p] = "inCall" /\ \A q \in PE : entered[q] >= entered[p]

CanReport(p) ==
  IF library = "oshmpi"
  THEN \/ pc[p] = "stats" /\ stage[p] = "measured"
       \/ pc[p] \in {"statsRead", "validate", "combine", "take"}
       \/ pc[p] \in {"statsQuiet", "verdictQuiet", "handBackQuiet"} /\ \A m \in puts : m.src # p
  ELSE Validates(p)

(* ... and of what all take part in.                                       *)
AllCanGoOn ==
  \/ \A p \in PE : stage[p] = "align"
  \/ \A p \in PE : stage[p] = "callEnd"
  \/ library = "oshmpi" /\ \A p \in PE : pc[p] \in BarrierPC
  \/ library # "oshmpi" /\ \A p \in PE : pc[p] = "combine"
  \/ library # "oshmpi" /\ \A p \in PE : IF VerdictFirst THEN pc[p] = "statsBarrier" ELSE Measured(p)

SomeoneCanGoOn ==
  \/ \E p \in PE : CanMeasure(p) \/ CanReport(p)
  \/ blocks # {}
  \/ library = "oshmpi" /\ puts # {}
  \/ AllCanGoOn

(* Until all programs have exited somebody can go on.                      *)
NobodyStuck == (\E p \in PE : pc[p] # "exit") => SomeoneCanGoOn

LEMMA AlignsInit == InitCalls => AlignsTogether /\ StatsTogether
<1> SUFFICES ASSUME InitCalls
             PROVE  AlignsTogether /\ StatsTogether
  OBVIOUS
<1>1. Collective => \A p \in PE : stage[p] \in Filling
  BY DEF InitCalls, Start, Filling
<1>2. \A p \in PE : pc[p] = "stats"
  BY DEF InitCalls, Init
<1> QED
  BY <1>1, <1>2 DEF AlignsTogether, StatsTogether

(* Ranks that have still to measure in the same report are at one size.    *)
LEMMA MeasuringSameSize ==
  ASSUME CallsInv, NEW p \in PE, NEW q \in PE, pc[p] = "stats", pc[q] = "stats"
  PROVE  series[p] = series[q]
<1>1. CASE library = "oshmpi"
  BY <1>1 DEF CallsInv, VerdictInv, Together, Gathering
<1>2. CASE library # "oshmpi"
  BY <1>2 DEF CallsInv, MpiInv
<1> QED
  BY <1>1, <1>2

LEMMA AlignsStep ==
  CallsInv /\ AlignsTogether /\ [NextCalls]_allVars => AlignsTogether'
<1> SUFFICES ASSUME CallsInv, AlignsTogether, [NextCalls]_allVars, Collective',
                    NEW p \in PE, NEW q \in PE, stage'[p] \notin Filling
             PROVE  /\ series'[p] <= series'[q]
                    /\ series'[q] = series'[p] => stage'[q] \notin Filling
  BY DEF AlignsTogether
<1>1. CASE UNCHANGED allVars
  BY <1>1 DEF allVars, vars, calls, AlignsTogether, Collective
<1>2. CASE NextCalls
  <2>0. /\ Collective
        /\ stage \in [PE -> Filling \cup Exchanging \cup {"inCall", "measured"}]
        /\ \A r \in PE : series[r] \in Int
    <3>1. program' = program
      BY <1>2, CallsKinds DEF vars
    <3>2. TypeOK
      BY DEF CallsInv, VerdictInv, MpiInv
    <3> QED
      BY <3>1, <3>2 DEF Collective, CallsInv, CallsType, TypeOK, SeriesOf
  <2>1. stage[p] \notin Filling =>
          series[p] <= series[q] /\ (series[q] = series[p] => stage[q] \notin Filling)
    BY <2>0 DEF AlignsTogether
  <2>2. CASE UNCHANGED vars /\ \E r \in PE : Measure(r)
    <3>1. UNCHANGED series
      BY <2>2 DEF vars
    <3>2. \A r \in PE : stage'[r] \in Filling <=> stage[r] \in Filling
      <4>1. PICK r \in PE : Measure(r)
        BY <2>2
      <4>2. \E from, to : Move(r, from, to) /\ (from \in Filling <=> to \in Filling)
        BY <4>1 DEF Measure, Fill, Enter, QuietBlocks, Return, Filling
      <4> QED
        BY <2>0, <4>2 DEF Move
    <3> QED
      BY <2>1, <3>1, <3>2
  <2>3. CASE UNCHANGED vars /\ Align
    <3>1. PICK from \in {"align", "callEnd"} : \A r \in PE : stage[r] = from
      BY <2>3 DEF Align
    <3>2. \A r \in PE : stage'[r] \notin Filling
      BY <2>3 DEF Align, Filling
    <3>3. series[p] = series[q]
      <4>1. \A r \in PE : pc[r] = "stats"
        BY <2>0, <3>1 DEF CallsInv, CallsCounted
      <4> QED
        BY <4>1, MeasuringSameSize
    <3> QED
      BY <2>0, <2>3, <3>2, <3>3 DEF vars
  <2>4. CASE UNCHANGED vars /\ \E b \in blocks : DeliverBlock(b)
    BY <2>1, <2>4 DEF vars, DeliverBlock
  <2>5. CASE \A r \in PE : Moves(r)
    <3>1. Moves(p) /\ Moves(q)
      BY <2>5
    <3>2. "fill" \in Filling
      BY DEF Filling
    <3>3. series'[p] = series[p] /\ stage'[p] = stage[p]
      BY <3>1, <3>2 DEF Moves
    <3> QED
      BY <2>0, <2>1, <3>1, <3>3 DEF Moves
  <2> QED
    BY <1>2, <2>0, <2>2, <2>3, <2>4, <2>5, CallsKinds
<1> QED
  BY <1>1, <1>2

LEMMA StatsStep ==
  CallsInv /\ StatsTogether /\ [NextCalls]_allVars => StatsTogether'
<1> SUFFICES ASSUME CallsInv, StatsTogether, [NextCalls]_allVars, library' # "oshmpi", ~VerdictFirst'
             PROVE  \A p, q \in PE : pc'[p] = "stats" => pc'[q] = "stats"
  BY DEF StatsTogether
<1>1. CASE UNCHANGED allVars
  BY <1>1 DEF allVars, vars, calls, StatsTogether, VerdictFirst
<1>2. CASE NextCalls
  <2>0. library # "oshmpi" /\ ~VerdictFirst /\ MpiInv /\ TypeOK
    <3>1. library' = library /\ program' = program
      BY <1>2, CallsKinds DEF vars, Measure, Fill, Enter, QuietBlocks, Return, Align, DeliverBlock
    <3> QED
      BY <3>1 DEF CallsInv, MpiInv, VerdictFirst
  <2>1. \A p, q \in PE : pc[p] = "stats" => pc[q] = "stats"
    BY <2>0 DEF StatsTogether
  <2>2. CASE UNCHANGED vars
    BY <2>1, <2>2 DEF vars
  <2>3. CASE MpiStats
    BY <2>0, <2>3 DEF MpiStats
  <2>4. CASE MpiVerdict
    <3>1. \A p \in PE : pc'[p] = NextCase(p)
      BY <2>0, <2>4 DEF MpiVerdict, EndOfReport
    <3>2. \A p, q \in PE : NextCase(p) = NextCase(q)
      BY <2>0 DEF MpiInv, NextCase
    <3> QED
      BY <3>1, <3>2
  <2>5. ASSUME NEW r \in PE, MpiValidate(r)
        PROVE  \A p, q \in PE : pc'[p] = "stats" => pc'[q] = "stats"
    <3>1. pc[r] = "validate" /\ pc' = [pc EXCEPT ![r] = "combine"]
      BY <2>0, <2>5 DEF MpiValidate, Validates
    <3> QED
      BY <2>0, <2>1, <3>1 DEF TypeOK
  <2> QED
    BY <1>2, <2>0, <2>2, <2>3, <2>4, <2>5, CallsKinds
<1> QED
  BY <1>1, <1>2

(* A nonempty set of naturals has a least element.                         *)
LEMMA Least ==
  ASSUME NEW S, S \subseteq Nat, S # {}
  PROVE  \E m \in S : \A k \in S : m <= k
<1>1. PICK m \in S : \A k \in S : <<k, m>> \notin OpToRel(<, Nat)
  BY NatLessThanWellFounded, WFMin
<1>2. \A k \in S : ~(k < m)
  BY <1>1 DEF OpToRel
<1> QED
  BY <1>2, SMT

(* Of the PEs of one size, the one that has entered the fewest calls can   *)
(* return from its call, unless all have made them.                        *)
LEMMA CallsGoOn ==
  ASSUME CallsInv, AlignsTogether, Collective,
         \A p, q \in PE : series[p] = series[q],
         NEW r \in PE, stage[r] # "measured"
  PROVE  SomeoneCanGoOn
<1> SUFFICES ASSUME ~SomeoneCanGoOn
             PROVE  FALSE
  OBVIOUS
<1>1. \A p \in PE : ~CanMeasure(p)
  BY DEF SomeoneCanGoOn
<1>2. blocks = {}
  BY DEF SomeoneCanGoOn
<1>3. /\ \A p \in PE : stage[p] \in {"align", "callEnd", "inCall", "measured"}
      /\ entered \in [PE -> Nat]
  BY <1>1, <1>2 DEF CanMeasure, CallsInv, CallsType, Filling, Exchanging
<1>4. \A p \in PE : series[p] \in Int
  <2>1. TypeOK
    BY DEF CallsInv, VerdictInv, MpiInv
  <2> QED
    BY <2>1 DEF TypeOK, SeriesOf
<1>5. \A p \in PE : stage[p] # "align"
  <2> SUFFICES ASSUME NEW p \in PE, stage[p] = "align"
               PROVE  FALSE
    OBVIOUS
  <2>1. \A q \in PE : stage[q] \in Filling
    BY DEF AlignsTogether, Filling
  <2>2. \A q \in PE : stage[q] = "align"
    BY <1>3, <2>1 DEF Filling
  <2> QED
    BY <2>2 DEF SomeoneCanGoOn, AllCanGoOn
<1>6. CASE Puts
  <2>1. stage[r] = "callEnd"
    BY <1>3, <1>5, <1>6 DEF CallsInv, CallsCounted
  <2>2. \A q \in PE : stage[q] = "callEnd"
    BY <1>3, <1>6, <2>1 DEF CallsInv, BlocksTogether, Exchanging
  <2> QED
    BY <2>2 DEF SomeoneCanGoOn, AllCanGoOn
<1>7. CASE ~Puts
  <2>1. \A p \in PE : stage[p] \in {"inCall", "measured"}
    BY <1>3, <1>5, <1>7 DEF CallsInv, CallsCounted
  <2> DEFINE S == {entered[p] : p \in PE}
  <2>2. PICK p \in PE : \A q \in PE : entered[p] <= entered[q]
    <3>1. S \in SUBSET Nat /\ S # {}
      BY <1>3
    <3>2. \E n \in S : \A k \in S : n <= k
      <4> HIDE DEF S
      <4> QED
        BY <3>1, Least
    <3> QED
      BY <3>2
  <2>3. stage[p] = "measured"
    BY <1>1, <1>3, <2>1, <2>2 DEF CanMeasure
  <2> DEFINE all == series[p] * Calls
  <2>4. entered[p] = all
    BY <2>3 DEF CallsInv, CallsCounted
  <2>5. stage[r] = "inCall" /\ entered[r] <= all
    <3>1. stage[r] = "inCall" /\ series[r] = series[p]
      BY <2>1
    <3> QED
      BY <3>1 DEF CallsInv, CallsCounted
  <2>6. \A q \in PE : entered[q] >= entered[r]
    <3> HIDE DEF all
    <3> QED
      BY <1>3, <2>2, <2>4, <2>5
  <2> QED
    BY <1>1, <2>5, <2>6 DEF CanMeasure
<1> QED
  BY <1>6, <1>7

(* OSHMPI: PEs that are not at a barrier of the report are in their calls. *)
LEMMA OshmpiGoesOn ==
  ASSUME CallsInv, AlignsTogether, library = "oshmpi", NEW p \in PE, pc[p] # "exit"
  PROVE  SomeoneCanGoOn
<1> SUFFICES ASSUME ~SomeoneCanGoOn
             PROVE  FALSE
  OBVIOUS
<1>1. puts = {} /\ \A q \in PE : ~CanReport(q)
  BY DEF SomeoneCanGoOn
<1>2. VerdictInv /\ pc \in [PE -> PC]
  BY DEF CallsInv, VerdictInv, TypeOK
<1>3. \A q \in PE : /\ pc[q] \in BarrierPC \cup {"stats", "exit"}
                    /\ pc[q] = "stats" => stage[q] # "measured"
  BY <1>1, <1>2 DEF CanReport, PC
<1>4. PICK q \in PE : pc[q] \notin BarrierPC
  BY DEF SomeoneCanGoOn, AllCanGoOn
<1>5. pc[q] = "stats" /\ \A r \in PE : pc[r] \in {"stats", "statsBarrier"}
  BY <1>2, <1>3, <1>4
  DEF VerdictInv, Together, Gathering, Reading, Validating, Combining, BarrierPC
<1>6. \A r, s \in PE : series[r] = series[s]
  BY <1>2, <1>5 DEF VerdictInv, Together, Gathering
<1>7. Collective
  BY <1>3, <1>5 DEF CallsInv, CallsType
<1> QED
  BY <1>3, <1>5, <1>6, <1>7, CallsGoOn

(* The others: ranks that are not at a reduction are in their calls.       *)
LEMMA MpiGoesOn ==
  ASSUME CallsInv, AlignsTogether, StatsTogether, library # "oshmpi",
         NEW p \in PE, pc[p] # "exit"
  PROVE  SomeoneCanGoOn
<1> SUFFICES ASSUME ~SomeoneCanGoOn
             PROVE  FALSE
  OBVIOUS
<1>1. \A q \in PE : ~Validates(q)
  BY DEF SomeoneCanGoOn, CanReport
<1>2. MpiInv /\ Collective
  BY DEF CallsInv, MpiInv
<1>3. \A q, r \in PE : pc[q] # "exit" /\ series[q] = series[r]
  BY <1>2 DEF MpiInv
<1>4. \A q \in PE : stage[q] = "measured"
  BY <1>2, <1>3, CallsGoOn
<1>5. CASE VerdictFirst
  <2>1. \A q \in PE : pc[q] \in {"combine", "statsBarrier"}
    BY <1>1, <1>2, <1>3, <1>4, <1>5 DEF MpiInv, Validates, Measured
  <2>2. \A q, r \in PE : pc[q] = "statsBarrier" => pc[r] = "statsBarrier"
    BY <1>2 DEF MpiInv
  <2> QED
    BY <1>5, <2>1, <2>2 DEF SomeoneCanGoOn, AllCanGoOn
<1>6. CASE ~VerdictFirst
  <2>1. \A q \in PE : pc[q] \in {"stats", "combine"}
    BY <1>1, <1>2, <1>3, <1>6 DEF MpiInv, Validates
  <2>2. \A q, r \in PE : pc[q] = "stats" => pc[r] = "stats"
    BY <1>6 DEF StatsTogether
  <2> QED
    BY <1>4, <1>6, <2>1, <2>2 DEF SomeoneCanGoOn, AllCanGoOn, Measured
<1> QED
  BY <1>5, <1>6

(* Nobody is left at a barrier, in a collective call or in a reduction by  *)
(* one that does not come to it, whichever library is used, in whichever   *)
(* order the two reductions are made, and whatever each PE's validation    *)
(* says, for any number of ranks, sizes and calls.                         *)
THEOREM NobodyStuckHolds == CallsSpec => []NobodyStuck
<1> DEFINE Inv == CallsInv /\ AlignsTogether /\ StatsTogether
<1>1. InitCalls => Inv
  BY CallsInit, AlignsInit
<1>2. Inv /\ [NextCalls]_allVars => Inv'
  BY CallsStep, AlignsStep, StatsStep
<1>3. Inv => NobodyStuck
  BY OshmpiGoesOn, MpiGoesOn DEF NobodyStuck
<1> HIDE DEF Inv
<1> QED
  BY <1>1, <1>2, <1>3, PTL DEF CallsSpec

=============================================================================
