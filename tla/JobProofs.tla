------------------------------ MODULE JobProofs ------------------------------
(***************************************************************************)
(* Jobs and their processes.  First the harness: benchscribe's tables rest *)
(* on finished trials alone, measured where they are filed, and only add   *)
(* up from scan to scan, for every matrix of topologies, every number of   *)
(* jobs, trials and records, whichever jobs are killed and whenever the    *)
(* result tree is read.  Then the life of the processes of a trial: what   *)
(* the programs set up is there for as long as any rank uses it and gone   *)
(* before the runtime is, for every number of ranks and every number of    *)
(* routing cases, whichever ranks throw, at whichever check.               *)
(***************************************************************************)
EXTENDS Harness, Lifecycle, FiniteSetTheorems, SequenceTheorems, WellFoundedInduction, TLAPS

-----------------------------------------------------------------------------
(* The harness: its inductive invariant.                                   *)

Job == [topo : Topologies, alloc : Granted, pc : Pc, trial : 1..Trials]
Text == [where : [nodes : Nat, gpus : Nat], records : Seq(BOOLEAN)]
Table == [status : {"absent", "ok", "error"}, runs : 0..MaxJobs]

Types ==
  /\ todo \in Seq(Topologies \X Granted)
  /\ jobs \in Seq(Job)
  /\ Len(jobs) + Len(todo) <= MaxJobs
  /\ DOMAIN files \subseteq FileName
  /\ \A f \in DOMAIN files : files[f] \in Text /\ Len(files[f].records) <= Records
  /\ unread \subseteq Listed
  /\ DOMAIN summary = Topologies \X (1..Records)
  /\ \A c \in DOMAIN summary : summary[c] \in Table

(* What a file says was measured where a launcher could have put the ranks *)
(* of its topology.                                                        *)
Placed(topo, alloc, text) ==
  /\ text.where \in Layouts(topo, alloc) \cup {Nowhere}
  /\ text.records # <<>> => text.where # Nowhere

(* A file is that of a trial its job has come to, on the topology the job  *)
(* runs on; those of earlier trials have their final names, and how far    *)
(* the job is with the present one says which of its two files has.        *)
OfTrial(f) ==
  /\ f.job \in JobId
  /\ f.topo = jobs[f.job].topo /\ jobs[f.job].alloc.nodes = f.topo.nodes
  /\ Placed(f.topo, jobs[f.job].alloc, files[f])
  /\ f.trial <= jobs[f.job].trial
  /\ f.trial < jobs[f.job].trial => ~f.tmp
  /\ f.trial = jobs[f.job].trial =>
       /\ jobs[f.job].pc \notin {"queued", "trial"}
       /\ jobs[f.job].pc \in {"running", "exited"} => f.tmp
       /\ jobs[f.job].pc = "moved" => (f.tmp <=> f.kind = "stderr")
  /\ f.kind = "stdout" /\ ~f.tmp => Len(files[f].records) = Records

FilesOfTrials == \A f \in DOMAIN files : OfTrial(f)

SameNodes(j) == jobs[j].alloc.nodes = jobs[j].topo.nodes

(* Conversely, the files a job has made are there.                         *)
HasFiles(j) ==
  /\ jobs[j].pc \in {"trial", "running", "exited", "moved"} => SameNodes(j)
  /\ \A k \in 1..jobs[j].trial - 1, kind \in {"stdout", "stderr"} :
       File(j, k, kind, FALSE) \in DOMAIN files
  /\ jobs[j].pc \in {"running", "exited"} => {Out(j, TRUE), Err(j, TRUE)} \subseteq DOMAIN files
  /\ jobs[j].pc = "exited" => Len(files[Out(j, TRUE)].records) = Records
  /\ jobs[j].pc = "moved" => {Out(j, FALSE), Err(j, TRUE)} \subseteq DOMAIN files

TrialsHaveFiles == \A j \in JobId : HasFiles(j)

(* The measurements a scan takes from a file, and from a set of files.     *)
Of(tree, f) ==
  {[topo |-> f.topo, job |-> f.job, trial |-> f.trial, n |-> i,
    valid |-> tree[f].records[i], where |-> tree[f].where] : i \in Sizes(tree[f])}
All(tree, F) == UNION {Of(tree, f) : f \in F}

Group(M, c) == {m \in M : m.topo = c[1] /\ m.n = c[2]}
Runs(M, c) == {m.job : m \in {r \in Group(M, c) : r.valid}}

(* A table says no more than the measurements M do.                        *)
CoveredBy(table, M) ==
  \A c \in Topologies \X (1..Records) :
    /\ table[c].runs <= Cardinality(Runs(M, c))
    /\ table[c].status = "error" => \E m \in Group(M, c) : ~m.valid

(* The running scan has all the last table was made of: what was listed    *)
(* then is still listed, with the same contents.                           *)
TableCovered ==
  /\ scan \subseteq All(files, Listed)
  /\ CoveredBy(summary, IF unread = {} /\ scan = {} THEN All(files, Listed)
                        ELSE scan \cup All(files, unread))

HarnessInv == Types /\ FilesOfTrials /\ TrialsHaveFiles /\ TableCovered

-----------------------------------------------------------------------------
(* Types.                                                                  *)

LEMMA SweepType ==
  ASSUME NEW T \in SUBSET Topologies, NEW r \in 1..MaxJobs, NEW order \in Ascending(T),
         r * Cardinality(T) \in 1..MaxJobs
  PROVE  /\ Sweep(order, Cardinality(T), r) \in Seq(Topologies \X Granted)
         /\ Len(Sweep(order, Cardinality(T), r)) <= MaxJobs
<1> DEFINE n == Cardinality(T)
<1>1. n \in Nat /\ r \in Nat \ {0} /\ r * n \in Nat /\ r * n <= MaxJobs
  <2>1. IsFiniteSet(T)
    BY HarnessAssumption, FS_Subset
  <2> QED
    BY <2>1, FS_CardinalityType, HarnessAssumption, SMT
<1>2. order \in [1..n -> T] /\ T \subseteq Topologies /\ T \subseteq Granted
  BY HarnessAssumption DEF Ascending
<1> HIDE DEF n
<1>3. ASSUME NEW i \in 1..r * n
      PROVE  (i - 1) \div r + 1 \in 1..n
  <2> DEFINE q == (i - 1) \div r
  <2>1. i - 1 \in Nat /\ i - 1 < r * n
    BY <1>1, SMT
  <2>2. q \in Nat /\ r * q <= i - 1
    BY <1>1, <2>1, SMT
  <2> HIDE DEF q
  <2>3. r * q < r * n
    BY <1>1, <2>1, <2>2, SMT
  <2>4. n <= q => r * n <= r * q
    BY <1>1, <2>2, SMT
  <2>5. q < n
    BY <1>1, <2>2, <2>3, <2>4, SMT
  <2>6. q + 1 \in 1..n
    BY <1>1, <2>2, <2>5, SMT
  <2> QED
    BY <2>6 DEF q
<1>4. \A i \in 1..r * n : <<order[(i - 1) \div r + 1], order[(i - 1) \div r + 1]>> \in Topologies \X Granted
  BY <1>2, <1>3
<1>5. Sweep(order, n, r) \in [1..r * n -> Topologies \X Granted]
  BY <1>4 DEF Sweep
<1>6. Sweep(order, n, r) \in Seq(Topologies \X Granted) /\ Len(Sweep(order, n, r)) = r * n
  BY <1>1, <1>5
<1> QED
  BY <1>1, <1>6 DEF n

LEMMA HarnessInvInit == HarnessInit => HarnessInv
<1> SUFFICES ASSUME HarnessInit
             PROVE  HarnessInv
  OBVIOUS
<1>1. /\ jobs = <<>> /\ files = <<>> /\ unread = {} /\ scan = {}
      /\ summary = [c \in Topologies \X (1..Records) |-> NoEntry]
  BY DEF HarnessInit
<1>2. DOMAIN files = {} /\ JobId = {} /\ Listed = {} /\ Len(jobs) = 0 /\ jobs \in Seq(Job)
  BY <1>1 DEF JobId, Listed
<1>3. todo \in Seq(Topologies \X Granted) /\ Len(todo) <= MaxJobs
  <2>1. CASE \E t \in Topologies, g \in Granted : todo = <<<<t, g>>>>
    BY <2>1, HarnessAssumption
  <2>2. CASE \E T \in SUBSET Topologies, r \in 1..MaxJobs :
               /\ r * Cardinality(T) \in 1..MaxJobs
               /\ \E order \in Ascending(T) : todo = Sweep(order, Cardinality(T), r)
    BY <2>2, SweepType
  <2> QED
    BY <2>1, <2>2 DEF HarnessInit
<1>4. \A c \in DOMAIN summary : summary[c] = NoEntry /\ NoEntry \in Table
  BY <1>1, HarnessAssumption DEF NoEntry, Table
<1>5. Types
  BY <1>1, <1>2, <1>3, <1>4 DEF Types
<1>6. FilesOfTrials /\ TrialsHaveFiles
  BY <1>2 DEF FilesOfTrials, OfTrial, TrialsHaveFiles, HasFiles
<1>7. TableCovered
  <2>1. All(files, Listed) = {}
    BY <1>2 DEF All
  <2>2. \A c \in Topologies \X (1..Records) : Runs({}, c) = {}
    BY DEF Runs, Group
  <2>3. \A c \in Topologies \X (1..Records) : summary[c].runs = 0 /\ summary[c].status = "absent"
    BY <1>1 DEF NoEntry
  <2>4. Cardinality({}) = 0
    BY FS_EmptySet
  <2>5. CoveredBy(summary, {})
    BY <2>2, <2>3, <2>4 DEF CoveredBy
  <2> QED
    BY <1>1, <2>1, <2>5 DEF TableCovered
<1> QED
  BY <1>5, <1>6, <1>7 DEF HarnessInv

(* What every step of a job comes to: it, and no other, goes on.           *)
Moves(j, x, t) ==
  /\ jobs' \in Seq(Job) /\ Len(jobs') = Len(jobs) /\ JobId' = JobId
  /\ \A i \in JobId \ {j} : jobs'[i] = jobs[i]
  /\ jobs'[j].topo = jobs[j].topo /\ jobs'[j].alloc = jobs[j].alloc
  /\ jobs'[j].pc = x /\ jobs'[j].trial = t

LEMMA JobType ==
  ASSUME Types, NEW j \in JobId
  PROVE  /\ jobs[j] \in Job /\ JobId = 1..Len(jobs) /\ j \in 1..MaxJobs
         /\ jobs[j].trial \in 1..Trials /\ jobs[j].topo \in Topologies
         /\ jobs[j].alloc \in Granted /\ jobs[j].pc \in Pc
<1>1. JobId = 1..Len(jobs) /\ Len(jobs) \in Nat /\ Len(todo) \in Nat
  BY DEF Types, JobId
<1>2. jobs[j] \in Job
  BY <1>1 DEF Types
<1>3. Len(jobs) <= MaxJobs
  BY <1>1, HarnessAssumption, SMT DEF Types
<1> QED
  BY <1>1, <1>2, <1>3, HarnessAssumption, SMT DEF Job

LEMMA JobMoves ==
  ASSUME Types, NEW j \in JobId, NEW x \in Pc, NEW t \in 1..Trials,
         jobs' = [jobs EXCEPT ![j] = [jobs[j] EXCEPT !.pc = x, !.trial = t]]
  PROVE  Moves(j, x, t)
<1> DEFINE job == [jobs[j] EXCEPT !.pc = x, !.trial = t]
<1>1. job \in Job /\ job.topo = jobs[j].topo /\ job.alloc = jobs[j].alloc /\ job.pc = x /\ job.trial = t
  BY JobType DEF Job
<1> HIDE DEF job
<1>2. jobs' = [jobs EXCEPT ![j] = job]
  BY DEF job
<1>3. jobs \in [1..Len(jobs) -> Job] /\ JobId = 1..Len(jobs) /\ Len(jobs) \in Nat
  BY DEF Types, JobId
<1>4. jobs' \in [1..Len(jobs) -> Job]
  BY <1>1, <1>2, <1>3
<1>5. jobs' \in Seq(Job) /\ Len(jobs') = Len(jobs) /\ DOMAIN jobs' = 1..Len(jobs)
  BY <1>3, <1>4
<1>6. jobs'[j] = job /\ \A i \in JobId \ {j} : jobs'[i] = jobs[i]
  BY <1>2, <1>3
<1> QED
  BY <1>1, <1>3, <1>5, <1>6 DEF Moves, JobId

LEMMA GotoMoves ==
  ASSUME Types, NEW j \in JobId, NEW x \in Pc, Goto(j, x)
  PROVE  Moves(j, x, jobs[j].trial)
<1>1. jobs[j] \in Job /\ jobs[j].trial \in 1..Trials
  BY JobType
<1>2. [jobs[j] EXCEPT !.pc = x, !.trial = jobs[j].trial] = [jobs[j] EXCEPT !.pc = x]
  BY <1>1 DEF Job
<1>3. jobs' = [jobs EXCEPT ![j] = [jobs[j] EXCEPT !.pc = x]]
  BY DEF Goto
<1> QED
  BY <1>1, <1>2, <1>3, JobMoves

(* What follows a trial whose files have both been moved.                  *)
AfterTrial(j) == IF jobs[j].trial < Trials THEN "trial" ELSE "ended"
TrialAfter(j) == IF jobs[j].trial < Trials THEN jobs[j].trial + 1 ELSE jobs[j].trial

LEMMA MoveErrMoves ==
  ASSUME Types, NEW j \in JobId, MoveErr(j)
  PROVE  Moves(j, AfterTrial(j), TrialAfter(j))
<1>1. jobs[j].trial \in 1..Trials /\ Trials \in Nat
  BY JobType, HarnessAssumption
<1>2. TrialAfter(j) \in 1..Trials
  BY <1>1, SMT DEF TrialAfter
<1>3. AfterTrial(j) \in Pc
  BY DEF AfterTrial, Pc
<1>4. jobs' = [jobs EXCEPT ![j] = [jobs[j] EXCEPT !.pc = AfterTrial(j), !.trial = TrialAfter(j)]]
  BY DEF MoveErr, AfterTrial, TrialAfter
<1> QED
  BY <1>2, <1>3, <1>4, JobMoves

-----------------------------------------------------------------------------
(* Where a trial runs.                                                     *)

LEMMA TopologyType ==
  ASSUME NEW t \in Granted
  PROVE  /\ t \in [nodes : Nat \ {0}, gpus : Nat \ {0}]
         /\ t.nodes \in Nat \ {0} /\ t.gpus \in Nat \ {0}
BY HarnessAssumption

LEMMA PlacementType ==
  ASSUME Types, NEW j \in JobId, NEW w \in Placements(j)
  PROVE  w \in [nodes : Nat, gpus : Nat]
<1>1. jobs[j].topo \in Granted /\ jobs[j].alloc \in Granted
  BY JobType, HarnessAssumption
<1>2. w \in Layouts(jobs[j].topo, jobs[j].alloc) \/ w = Nowhere
  BY DEF Placements
<1>3. Nowhere \in [nodes : Nat, gpus : Nat]
  BY DEF Nowhere
<1>4. Layouts(jobs[j].topo, jobs[j].alloc) \subseteq [nodes : Nat, gpus : Nat]
  BY <1>1, TopologyType, SMT DEF Layouts
<1> QED
  BY <1>2, <1>3, <1>4

(* There is no second way to put n * t ranks into the slots of n nodes     *)
(* with t each.                                                            *)
LEMMA NoRoomToSpare ==
  ASSUME NEW n \in Nat \ {0}, NEW t \in Nat \ {0}, NEW m \in 1..n, NEW g \in 1..t,
         n * t <= m * g
  PROVE  m = n /\ g = t
<1>1. m * g <= n * g /\ m * g <= m * t
  BY SMT
<1>2. n * g <= n * t /\ m * t <= n * t
  BY SMT
<1>3. n * g = n * t /\ m * t = n * t
  BY <1>1, <1>2, SMT
<1> QED
  BY <1>3, SMT

LEMMA AsLabelled ==
  ASSUME NEW topo \in Granted, NEW alloc \in Granted, NEW w \in Layouts(topo, alloc),
         alloc.nodes = topo.nodes, alloc.gpus = topo.gpus
  PROVE  w = topo
<1>1. /\ topo \in [nodes : Nat \ {0}, gpus : Nat \ {0}]
      /\ topo.nodes \in Nat \ {0} /\ topo.gpus \in Nat \ {0}
  BY TopologyType
<1>2. CASE w \in [nodes : {topo.nodes}, gpus : {topo.gpus, alloc.gpus}]
  BY <1>1, <1>2
<1>3. CASE /\ w \in [nodes : 1..alloc.nodes, gpus : 1..alloc.gpus]
           /\ topo.nodes * topo.gpus <= w.nodes * w.gpus
  <2>1. w.nodes \in 1..topo.nodes /\ w.gpus \in 1..topo.gpus
    BY <1>3
  <2>2. w.nodes = topo.nodes /\ w.gpus = topo.gpus
    BY <1>1, <1>3, <2>1, NoRoomToSpare
  <2> QED
    BY <1>1, <1>3, <2>2
<1> QED
  BY <1>2, <1>3 DEF Layouts

-----------------------------------------------------------------------------
(* The result tree.                                                        *)

LEMMA NameType ==
  ASSUME Types, NEW j \in JobId, NEW k \in 1..Trials, NEW kind \in {"stdout", "stderr"},
         NEW tmp \in BOOLEAN
  PROVE  File(j, k, kind, tmp) \in FileName
BY JobType DEF File, FileName

LEMMA PresentNames ==
  ASSUME Types, NEW j \in JobId, NEW tmp \in BOOLEAN
  PROVE  /\ Out(j, tmp) \in FileName /\ Err(j, tmp) \in FileName
         /\ Out(j, tmp) = [topo |-> jobs[j].topo, job |-> j, trial |-> jobs[j].trial,
                           kind |-> "stdout", tmp |-> tmp]
         /\ Err(j, tmp) = [topo |-> jobs[j].topo, job |-> j, trial |-> jobs[j].trial,
                           kind |-> "stderr", tmp |-> tmp]
BY JobType, NameType DEF Out, Err, File

LEMMA PresentParts ==
  ASSUME Types, NEW j \in JobId
  PROVE  /\ Out(j, TRUE).tmp /\ Err(j, TRUE).tmp /\ ~Out(j, FALSE).tmp /\ ~Err(j, FALSE).tmp
         /\ \A tmp \in BOOLEAN :
              /\ Out(j, tmp).job = j /\ Err(j, tmp).job = j
              /\ Out(j, tmp).topo = jobs[j].topo /\ Err(j, tmp).topo = jobs[j].topo
              /\ Out(j, tmp).trial = jobs[j].trial /\ Err(j, tmp).trial = jobs[j].trial
              /\ Out(j, tmp).kind = "stdout" /\ Err(j, tmp).kind = "stderr"
BY DEF Out, Err, File

LEMMA OneLonger ==
  ASSUME NEW S, NEW s \in Seq(S), NEW e \in S
  PROVE  /\ Append(s, e) \in Seq(S) /\ Len(s) \in Nat
         /\ Len(Append(s, e)) = Len(s) + 1
OBVIOUS

(* A name is told by its parts.                                            *)
LEMMA NameIs ==
  ASSUME Types, FilesOfTrials, NEW f \in DOMAIN files
  PROVE  /\ f = File(f.job, f.trial, f.kind, f.tmp)
         /\ f.job \in JobId /\ f.trial \in 1..Trials /\ f.kind \in {"stdout", "stderr"} /\ f.tmp \in BOOLEAN
<1>1. f \in FileName /\ f.job \in JobId /\ f.topo = jobs[f.job].topo
  BY DEF Types, FilesOfTrials, OfTrial
<1>2. f = [topo |-> f.topo, job |-> f.job, trial |-> f.trial, kind |-> f.kind, tmp |-> f.tmp]
      /\ f.trial \in 1..Trials /\ f.kind \in {"stdout", "stderr"} /\ f.tmp \in BOOLEAN
  BY <1>1 DEF FileName
<1> QED
  BY <1>1, <1>2 DEF File

(* What the steps of a job do to the tree.                                 *)
LEMMA BeginFiles ==
  ASSUME Types, NEW j \in JobId, BeginTrial(j)
  PROVE  /\ DOMAIN files' = DOMAIN files \cup {Out(j, TRUE), Err(j, TRUE)}
         /\ \E w \in Placements(j) : \A f \in DOMAIN files' :
              files'[f] = IF f \in {Out(j, TRUE), Err(j, TRUE)} THEN Empty(w) ELSE files[f]
BY DEF BeginTrial, Redirected

LEMMA ReportFiles ==
  ASSUME Types, NEW j \in JobId, Report(j), Out(j, TRUE) \in DOMAIN files
  PROVE  \E valid \in BOOLEAN :
           /\ DOMAIN files' = DOMAIN files
           /\ \A f \in DOMAIN files \ {Out(j, TRUE)} : files'[f] = files[f]
           /\ files'[Out(j, TRUE)].where = files[Out(j, TRUE)].where
           /\ files'[Out(j, TRUE)].records = Append(files[Out(j, TRUE)].records, valid)
           /\ files'[Out(j, TRUE)] \in Text
           /\ Len(files'[Out(j, TRUE)].records) <= Records
<1> DEFINE o == Out(j, TRUE)
           records == files[o].records
<1>1. PICK valid \in BOOLEAN : files' = [files EXCEPT ![o].records = Append(@, valid)]
  BY DEF Report
<1>2. files[o] \in Text /\ Len(records) < Records
  BY DEF Types, Report
<1>3. records \in Seq(BOOLEAN) /\ files[o].where \in [nodes : Nat, gpus : Nat]
  BY <1>2 DEF Text
<1>4. Append(records, valid) \in Seq(BOOLEAN) /\ Len(Append(records, valid)) = Len(records) + 1
      /\ Len(records) \in Nat
  <2> DEFINE S == BOOLEAN
  <2>1. valid \in S /\ records \in Seq(S)
    BY <1>1, <1>3
  <2> HIDE DEF S, records
  <2>2. Append(records, valid) \in Seq(S) /\ Len(records) \in Nat
        /\ Len(Append(records, valid)) = Len(records) + 1
    BY <2>1, OneLonger
  <2> QED
    BY <2>2 DEF S
<1>5. Len(records) + 1 <= Records
  <2>1. Len(records) \in Nat /\ Len(records) < Records
    BY <1>2, <1>4
  <2> HIDE DEF records
  <2> QED
    BY <2>1, HarnessAssumption, SMT
<1>6. files' = [files EXCEPT ![o] = [files[o] EXCEPT !.records = Append(records, valid)]]
  BY <1>1
<1> HIDE DEF o, records
<1>7. o \in DOMAIN files
  BY DEF o
<1>8. /\ DOMAIN files' = DOMAIN files
      /\ \A f \in DOMAIN files \ {o} : files'[f] = files[f]
      /\ files'[o] = [files[o] EXCEPT !.records = Append(records, valid)]
  BY <1>6, <1>7
<1>9. /\ files'[o].where = files[o].where
      /\ files'[o].records = Append(records, valid) /\ files'[o] \in Text
  BY <1>2, <1>4, <1>8 DEF Text
<1> QED
  BY <1>4, <1>5, <1>8, <1>9 DEF o, records

LEMMA MoveOutFiles ==
  ASSUME Types, NEW j \in JobId, MoveOut(j)
  PROVE  /\ DOMAIN files' = (DOMAIN files \ {Out(j, TRUE)}) \cup {Out(j, FALSE)}
         /\ \A f \in DOMAIN files' :
              files'[f] = IF f = Out(j, FALSE) THEN files[Out(j, TRUE)] ELSE files[f]
BY DEF MoveOut, Moved

LEMMA MoveErrFiles ==
  ASSUME Types, NEW j \in JobId, MoveErr(j)
  PROVE  /\ DOMAIN files' = (DOMAIN files \ {Err(j, TRUE)}) \cup {Err(j, FALSE)}
         /\ \A f \in DOMAIN files' :
              files'[f] = IF f = Err(j, FALSE) THEN files[Err(j, TRUE)] ELSE files[f]
BY DEF MoveErr, Moved

(* A listed file stays as it is: what a step of a job writes or moves is   *)
(* not listed, and what it makes is new.                                   *)
LEMMA ListedKept ==
  ASSUME Types, FilesOfTrials, TrialsHaveFiles, NEW j \in JobId, JobStep(j) \/ Kill(j)
  PROVE  Listed \subseteq Listed' /\ \A f \in Listed : files'[f] = files[f]
<1>1. CASE Start(j) \/ Succeed(j) \/ Fail(j) \/ Timeout(j) \/ Kill(j)
  <2>1. files' = files
    BY <1>1 DEF Start, Succeed, Fail, Timeout, Kill
  <2> QED
    BY <2>1 DEF Listed
<1>2. CASE BeginTrial(j)
  <2>1. Out(j, TRUE) \notin Listed /\ Err(j, TRUE) \notin Listed
    BY PresentParts DEF Listed
  <2> QED
    BY <1>2, <2>1, BeginFiles DEF Listed
<1>3. CASE Report(j)
  <2>1. Out(j, TRUE) \in DOMAIN files
    BY <1>3 DEF Report, At, TrialsHaveFiles, HasFiles
  <2>2. Out(j, TRUE) \notin Listed
    BY PresentParts DEF Listed
  <2> QED
    BY <1>3, <2>1, <2>2, ReportFiles DEF Listed
<1>4. CASE MoveOut(j)
  <2>1. jobs[j].pc = "exited"
    BY <1>4 DEF MoveOut, At
  <2>2. Out(j, TRUE) \notin Listed
    BY PresentParts DEF Listed
  <2>3. Out(j, FALSE) \notin Listed
    <3> DEFINE f == Out(j, FALSE)
    <3>1. f.job = j /\ f.trial = jobs[j].trial /\ ~f.tmp
      BY PresentParts
    <3> HIDE DEF f
    <3>2. f \notin DOMAIN files
      BY <2>1, <3>1 DEF FilesOfTrials, OfTrial
    <3> QED
      BY <3>2 DEF f, Listed
  <2> QED
    BY <1>4, <2>2, <2>3, MoveOutFiles DEF Listed
<1>5. CASE MoveErr(j)
  <2>1. Err(j, TRUE) \notin Listed /\ Err(j, FALSE) \notin Listed
    BY PresentParts DEF Listed
  <2> QED
    BY <1>5, <2>1, MoveErrFiles DEF Listed
<1> QED
  BY <1>1, <1>2, <1>3, <1>4, <1>5 DEF JobStep

-----------------------------------------------------------------------------
(* The steps of a job.                                                     *)

LEMMA OthersFiles ==
  ASSUME FilesOfTrials, NEW j \in JobId, NEW x, NEW t, Moves(j, x, t),
         NEW f \in DOMAIN files, f.job # j, files'[f] = files[f]
  PROVE  OfTrial(f)'
<1>1. OfTrial(f)
  BY DEF FilesOfTrials
<1>2. JobId' = JobId /\ jobs'[f.job] = jobs[f.job]
  BY <1>1 DEF Moves, OfTrial
<1> QED
  BY <1>1, <1>2 DEF OfTrial

LEMMA OthersTrials ==
  ASSUME TrialsHaveFiles, NEW j \in JobId, NEW x, NEW t, Moves(j, x, t),
         \A f \in DOMAIN files : f.job # j => f \in DOMAIN files' /\ files'[f] = files[f],
         NEW i \in JobId \ {j}
  PROVE  HasFiles(i)'
<1>1. jobs'[i] = jobs[i]
  BY DEF Moves
<1>2. HasFiles(i)
  BY DEF TrialsHaveFiles
<1>3. \A k, kind : /\ File(i, k, kind, FALSE)' = File(i, k, kind, FALSE)
                   /\ File(i, k, kind, FALSE).job # j
  BY <1>1 DEF File
<1>4. /\ Out(i, TRUE)' = Out(i, TRUE) /\ Out(i, FALSE)' = Out(i, FALSE) /\ Err(i, TRUE)' = Err(i, TRUE)
      /\ Out(i, TRUE).job # j /\ Out(i, FALSE).job # j /\ Err(i, TRUE).job # j
  BY <1>1 DEF Out, Err, File
<1>5. \A k, kind : File(i, k, kind, FALSE) \in DOMAIN files => File(i, k, kind, FALSE)' \in DOMAIN files'
  BY <1>3
<1>6. \A f \in {Out(i, TRUE), Out(i, FALSE), Err(i, TRUE)} \cap DOMAIN files :
        f \in DOMAIN files' /\ files'[f] = files[f]
  BY <1>4
<1> QED
  BY <1>1, <1>2, <1>4, <1>5, <1>6 DEF HasFiles, SameNodes

(* The names of a job's files stay the same.                               *)
LEMMA SameNames ==
  ASSUME NEW j \in JobId, NEW x, NEW t, Moves(j, x, t)
  PROVE  /\ \A k, kind : File(j, k, kind, FALSE)' = File(j, k, kind, FALSE)
         /\ t = jobs[j].trial => /\ Out(j, TRUE)' = Out(j, TRUE) /\ Out(j, FALSE)' = Out(j, FALSE)
                                 /\ Err(j, TRUE)' = Err(j, TRUE)
BY DEF Moves, File, Out, Err

(* A step of a job leaves everything of the others alone, so it suffices   *)
(* to look at the job and its files.                                       *)
LEMMA OneJob ==
  ASSUME FilesOfTrials, TrialsHaveFiles, NEW j \in JobId, NEW x, NEW t, Moves(j, x, t),
         \A f \in DOMAIN files : f.job # j => f \in DOMAIN files' /\ files'[f] = files[f],
         \A f \in DOMAIN files' : f.job # j => f \in DOMAIN files,
         \A f \in DOMAIN files' : f.job = j => OfTrial(f)',
         HasFiles(j)'
  PROVE  FilesOfTrials' /\ TrialsHaveFiles'
<1>1. \A f \in DOMAIN files' : OfTrial(f)'
  BY OthersFiles
<1>2. JobId' = JobId
  BY DEF Moves
<1>3. \A i \in JobId' : HasFiles(i)'
  BY <1>2, OthersTrials
<1> QED
  BY <1>1, <1>3 DEF FilesOfTrials, TrialsHaveFiles

LEMMA SameTree ==
  ASSUME Types, FilesOfTrials, TrialsHaveFiles, NEW j \in JobId, NEW x \in Pc,
         Moves(j, x, jobs[j].trial), files' = files,
         \/ x = "ended"
         \/ x = "trial" /\ jobs[j].pc = "queued" /\ SameNodes(j)
         \/ /\ x = "exited" /\ jobs[j].pc = "running"
            /\ Len(files[Out(j, TRUE)].records) = Records
  PROVE  FilesOfTrials' /\ TrialsHaveFiles'
<1>1. /\ JobId' = JobId /\ jobs'[j].topo = jobs[j].topo /\ jobs'[j].alloc = jobs[j].alloc
      /\ jobs'[j].pc = x /\ jobs'[j].trial = jobs[j].trial
  BY DEF Moves
<1>2. ASSUME NEW f \in DOMAIN files', f.job = j
      PROVE  OfTrial(f)'
  <2>1. OfTrial(f)
    BY DEF FilesOfTrials
  <2> QED
    BY <1>1, <1>2, <2>1 DEF OfTrial
<1>3. HasFiles(j)'
  <2>1. HasFiles(j)
    BY DEF TrialsHaveFiles
  <2>2. \A k, kind : File(j, k, kind, FALSE)' = File(j, k, kind, FALSE)
    BY SameNames
  <2>3. Out(j, TRUE)' = Out(j, TRUE) /\ Out(j, FALSE)' = Out(j, FALSE) /\ Err(j, TRUE)' = Err(j, TRUE)
    BY SameNames
  <2> QED
    BY <1>1, <2>1, <2>2, <2>3 DEF HasFiles, SameNodes
<1> QED
  BY <1>2, <1>3, OneJob

LEMMA BeginKeeps ==
  ASSUME Types, FilesOfTrials, TrialsHaveFiles, NEW j \in JobId, BeginTrial(j)
  PROVE  FilesOfTrials' /\ TrialsHaveFiles'
<1> DEFINE o == Out(j, TRUE)
           e == Err(j, TRUE)
<1>1. /\ jobs[j].pc = "trial" /\ Moves(j, "running", jobs[j].trial)
      /\ SameNodes(j)
  <2>1. jobs[j].pc = "trial" /\ Goto(j, "running")
    BY DEF BeginTrial, At
  <2>2. "running" \in Pc
    BY DEF Pc
  <2> QED
    BY <2>1, <2>2, GotoMoves DEF TrialsHaveFiles, HasFiles
<1>2. /\ JobId' = JobId /\ jobs'[j].topo = jobs[j].topo /\ jobs'[j].alloc = jobs[j].alloc
      /\ jobs'[j].pc = "running" /\ jobs'[j].trial = jobs[j].trial
  BY <1>1 DEF Moves
<1>3. /\ o.job = j /\ o.topo = jobs[j].topo /\ o.trial = jobs[j].trial /\ o.kind = "stdout" /\ o.tmp
      /\ e.job = j /\ e.topo = jobs[j].topo /\ e.trial = jobs[j].trial /\ e.kind = "stderr" /\ e.tmp
  BY PresentParts
<1> PICK w \in Placements(j) :
      \A f \in DOMAIN files' : files'[f] = IF f \in {o, e} THEN Empty(w) ELSE files[f]
  BY BeginFiles
<1>4. /\ DOMAIN files' = DOMAIN files \cup {o, e}
      /\ \A f \in DOMAIN files' : files'[f] = IF f \in {o, e} THEN Empty(w) ELSE files[f]
  BY BeginFiles
<1>5. Placed(jobs[j].topo, jobs[j].alloc, Empty(w)) /\ Empty(w).records = <<>>
  BY DEF Placed, Placements, Empty
<1>6. Out(j, TRUE)' = o /\ Err(j, TRUE)' = e /\ \A k, kind : File(j, k, kind, FALSE)' = File(j, k, kind, FALSE)
  BY <1>1, SameNames
<1> HIDE DEF o, e
<1>7. ASSUME NEW f \in DOMAIN files', f.job = j
      PROVE  OfTrial(f)'
  <2>1. CASE f \in {o, e}
    <3>1. jobs[j].trial \in Nat
      BY JobType, SMT
    <3> QED
      BY <1>1, <1>2, <1>3, <1>4, <1>5, <2>1, <3>1 DEF OfTrial, SameNodes
  <2>2. CASE f \notin {o, e}
    <3>1. OfTrial(f) /\ files'[f] = files[f]
      BY <1>4, <2>2 DEF FilesOfTrials
    <3>2. f.trial # jobs[j].trial
      BY <1>1, <1>7, <3>1 DEF OfTrial
    <3> QED
      BY <1>1, <1>2, <1>7, <3>1, <3>2 DEF OfTrial
  <2> QED
    BY <2>1, <2>2
<1>8. HasFiles(j)'
  <2>1. HasFiles(j)
    BY DEF TrialsHaveFiles
  <2>2. ASSUME NEW k \in 1..jobs[j].trial - 1, NEW kind \in {"stdout", "stderr"}
        PROVE  File(j, k, kind, FALSE)' \in DOMAIN files'
    <3>1. File(j, k, kind, FALSE) \in DOMAIN files
      BY <2>1 DEF HasFiles
    <3>2. File(j, k, kind, FALSE)' = File(j, k, kind, FALSE)
      BY <1>6
    <3> QED
      BY <1>4, <3>1, <3>2
  <2>3. {o, e} \subseteq DOMAIN files'
    BY <1>4
  <2> QED
    BY <1>1, <1>2, <1>6, <2>2, <2>3 DEF HasFiles, SameNodes
<1>9. /\ \A f \in DOMAIN files : f.job # j => f \in DOMAIN files' /\ files'[f] = files[f]
      /\ \A f \in DOMAIN files' : f.job # j => f \in DOMAIN files
  BY <1>3, <1>4
<1> QED
  BY <1>1, <1>7, <1>8, <1>9, OneJob

LEMMA ReportKeeps ==
  ASSUME Types, FilesOfTrials, TrialsHaveFiles, NEW j \in JobId, Report(j)
  PROVE  FilesOfTrials' /\ TrialsHaveFiles'
<1> DEFINE o == Out(j, TRUE)
<1>1. jobs[j].pc = "running" /\ jobs' = jobs /\ o \in DOMAIN files
  BY DEF Report, At, TrialsHaveFiles, HasFiles
<1>2. /\ DOMAIN files' = DOMAIN files
      /\ \A f \in DOMAIN files : files'[f].where = files[f].where
      /\ \A f \in DOMAIN files \ {o} : files'[f] = files[f]
  BY <1>1, ReportFiles
<1>3. o.tmp /\ files[o].where # Nowhere
  BY PresentParts DEF Report
<1>4. JobId' = JobId /\ Out(j, TRUE)' = o /\ Err(j, TRUE)' = Err(j, TRUE)
  BY <1>1 DEF JobId, Out, Err, File
<1>5. ASSUME NEW f \in DOMAIN files
      PROVE  OfTrial(f)'
  <2>1. OfTrial(f)
    BY DEF FilesOfTrials
  <2>2. CASE f = o
    <3>1. files[f].where # Nowhere /\ f.tmp
      BY <1>3, <2>2
    <3>2. files'[f].where = files[f].where
      BY <1>2
    <3>3. Placed(f.topo, jobs[f.job].alloc, files'[f])
      BY <2>1, <3>1, <3>2 DEF OfTrial, Placed
    <3> QED
      BY <1>1, <1>4, <2>1, <3>1, <3>3 DEF OfTrial
  <2>3. CASE f # o
    BY <1>1, <1>2, <1>4, <2>1, <2>3 DEF OfTrial
  <2> QED
    BY <2>2, <2>3
<1>6. ASSUME NEW i \in JobId
      PROVE  HasFiles(i)'
  <2>1. HasFiles(i)
    BY DEF TrialsHaveFiles
  <2>2. \A k, kind : File(i, k, kind, FALSE)' = File(i, k, kind, FALSE)
    BY <1>1 DEF File
  <2>3. Out(i, TRUE)' = Out(i, TRUE) /\ Out(i, FALSE)' = Out(i, FALSE) /\ Err(i, TRUE)' = Err(i, TRUE)
    BY <1>1 DEF File, Out, Err
  <2>4. jobs[i].pc = "exited" => Out(i, TRUE) # o
    <3>1. Out(i, TRUE).job = i /\ o.job = j
      BY DEF Out, File
    <3> QED
      BY <1>1, <3>1
  <2>5. ASSUME jobs[i].pc = "exited"
        PROVE  Len(files'[Out(i, TRUE)].records) = Records
    <3>1. Out(i, TRUE) \in DOMAIN files /\ Len(files[Out(i, TRUE)].records) = Records
      BY <2>1, <2>5 DEF HasFiles
    <3> QED
      BY <1>2, <2>4, <2>5, <3>1
  <2>6. DOMAIN files' = DOMAIN files
    BY <1>2
  <2> QED
    BY <1>1, <2>1, <2>2, <2>3, <2>5, <2>6 DEF HasFiles, SameNodes
<1> QED
  BY <1>2, <1>4, <1>5, <1>6 DEF FilesOfTrials, TrialsHaveFiles

LEMMA MoveOutKeeps ==
  ASSUME Types, FilesOfTrials, TrialsHaveFiles, NEW j \in JobId, MoveOut(j)
  PROVE  FilesOfTrials' /\ TrialsHaveFiles'
<1> DEFINE old == Out(j, TRUE)
           new == Out(j, FALSE)
           e == Err(j, TRUE)
<1>1. jobs[j].pc = "exited" /\ Moves(j, "moved", jobs[j].trial)
  <2>1. jobs[j].pc = "exited" /\ Goto(j, "moved")
    BY DEF MoveOut, At
  <2>2. "moved" \in Pc
    BY DEF Pc
  <2> QED
    BY <2>1, <2>2, GotoMoves
<1>2. /\ JobId' = JobId /\ jobs'[j].topo = jobs[j].topo /\ jobs'[j].alloc = jobs[j].alloc
      /\ jobs'[j].pc = "moved" /\ jobs'[j].trial = jobs[j].trial
  BY <1>1 DEF Moves
<1>3. /\ old.job = j /\ new.job = j /\ old.tmp /\ ~new.tmp
      /\ new.topo = jobs[j].topo /\ new.trial = jobs[j].trial /\ new.kind = "stdout"
      /\ e.kind = "stderr" /\ old.kind = "stdout"
  BY PresentParts
<1>4. /\ DOMAIN files' = (DOMAIN files \ {old}) \cup {new}
      /\ \A f \in DOMAIN files' : files'[f] = IF f = new THEN files[old] ELSE files[f]
  BY MoveOutFiles
<1>5. HasFiles(j) /\ old \in DOMAIN files /\ e \in DOMAIN files /\ Len(files[old].records) = Records
      /\ SameNodes(j)
  BY <1>1 DEF TrialsHaveFiles, HasFiles
<1>6. Placed(jobs[j].topo, jobs[j].alloc, files[old])
  BY <1>3, <1>5 DEF FilesOfTrials, OfTrial
<1>7. \A f \in DOMAIN files : f.job = j /\ f.trial = jobs[j].trial /\ f.kind = "stdout" /\ f.tmp => f = old
  <2>1. SUFFICES ASSUME NEW f \in DOMAIN files, f.job = j, f.trial = jobs[j].trial, f.kind = "stdout", f.tmp
                 PROVE  f = old
    OBVIOUS
  <2>2. f = File(f.job, f.trial, f.kind, f.tmp) /\ f.tmp \in BOOLEAN
    BY NameIs
  <2>3. f.tmp = TRUE
    BY <2>1, <2>2
  <2> QED
    BY <2>1, <2>2, <2>3 DEF Out
<1>8. Out(j, FALSE)' = new /\ Err(j, TRUE)' = e /\ \A k, kind : File(j, k, kind, FALSE)' = File(j, k, kind, FALSE)
  BY <1>1, SameNames
<1>9. \A k, kind : ~File(j, k, kind, FALSE).tmp
  BY DEF File
<1> HIDE DEF old, new, e
<1>10. ASSUME NEW f \in DOMAIN files', f.job = j
       PROVE  OfTrial(f)'
  <2>1. CASE f = new
    <3>1. jobs[j].trial \in Nat
      BY JobType, SMT
    <3> QED
      BY <1>2, <1>3, <1>4, <1>5, <1>6, <2>1, <3>1 DEF OfTrial, SameNodes
  <2>2. CASE f # new
    <3>1. f \in DOMAIN files /\ f # old /\ OfTrial(f) /\ files'[f] = files[f]
      BY <1>4, <2>2 DEF FilesOfTrials
    <3>2. f.trial = jobs[j].trial => f.tmp /\ f.kind = "stderr"
      <4>1. f.kind \in {"stdout", "stderr"}
        BY <3>1, NameIs
      <4> QED
        BY <1>1, <1>7, <1>10, <3>1, <4>1 DEF OfTrial
    <3> QED
      BY <1>2, <1>10, <3>1, <3>2 DEF OfTrial
  <2> QED
    BY <2>1, <2>2
<1>11. HasFiles(j)'
  <2>1. /\ new \in DOMAIN files' /\ e \in DOMAIN files'
        /\ \A k, kind : File(j, k, kind, FALSE) \in DOMAIN files => File(j, k, kind, FALSE) \in DOMAIN files'
    <3>1. new \in DOMAIN files' /\ \A f \in DOMAIN files : f # old => f \in DOMAIN files'
      BY <1>4
    <3>2. \A k, kind : File(j, k, kind, FALSE) # old
      BY <1>3, <1>9
    <3> QED
      BY <1>3, <1>5, <3>1, <3>2
  <2> QED
    BY <1>2, <1>5, <1>8, <2>1 DEF HasFiles, SameNodes
<1>12. /\ \A f \in DOMAIN files : f.job # j => f \in DOMAIN files' /\ files'[f] = files[f]
       /\ \A f \in DOMAIN files' : f.job # j => f \in DOMAIN files
  BY <1>3, <1>4
<1> QED
  BY <1>1, <1>10, <1>11, <1>12, OneJob

LEMMA MoveErrKeeps ==
  ASSUME Types, FilesOfTrials, TrialsHaveFiles, NEW j \in JobId, MoveErr(j)
  PROVE  FilesOfTrials' /\ TrialsHaveFiles'
<1> DEFINE old == Err(j, TRUE)
           new == Err(j, FALSE)
           o == Out(j, FALSE)
           x == AfterTrial(j)
           k0 == jobs[j].trial
           t == TrialAfter(j)
<1>1. jobs[j].pc = "moved" /\ Moves(j, x, t)
  BY MoveErrMoves DEF MoveErr, At
<1>2. /\ JobId' = JobId /\ jobs'[j].topo = jobs[j].topo /\ jobs'[j].alloc = jobs[j].alloc
      /\ jobs'[j].pc = x /\ jobs'[j].trial = t
  BY <1>1 DEF Moves
<1>3. /\ old.job = j /\ new.job = j /\ old.tmp /\ ~new.tmp
      /\ new.topo = jobs[j].topo /\ new.trial = k0 /\ new.kind = "stderr"
      /\ o.kind = "stdout" /\ old.kind = "stderr"
  BY PresentParts
<1>4. /\ DOMAIN files' = (DOMAIN files \ {old}) \cup {new}
      /\ \A f \in DOMAIN files' : files'[f] = IF f = new THEN files[old] ELSE files[f]
  BY MoveErrFiles
<1>5. HasFiles(j) /\ old \in DOMAIN files /\ o \in DOMAIN files /\ SameNodes(j)
  BY <1>1 DEF TrialsHaveFiles, HasFiles
<1>6. Placed(jobs[j].topo, jobs[j].alloc, files[old])
  BY <1>3, <1>5 DEF FilesOfTrials, OfTrial
<1>7. \A f \in DOMAIN files : f.job = j /\ f.trial = k0 /\ f.kind = "stderr" /\ f.tmp => f = old
  <2>1. SUFFICES ASSUME NEW f \in DOMAIN files, f.job = j, f.trial = k0, f.kind = "stderr", f.tmp
                 PROVE  f = old
    OBVIOUS
  <2>2. f = File(f.job, f.trial, f.kind, f.tmp) /\ f.tmp \in BOOLEAN
    BY NameIs
  <2>3. f.tmp = TRUE
    BY <2>1, <2>2
  <2> QED
    BY <2>1, <2>2, <2>3 DEF Err
<1>8. /\ \A k, kind : File(j, k, kind, FALSE)' = File(j, k, kind, FALSE)
      /\ o = File(j, k0, "stdout", FALSE) /\ new = File(j, k0, "stderr", FALSE)
  BY <1>1, SameNames DEF Out, Err
<1>9. \A k, kind : ~File(j, k, kind, FALSE).tmp
  BY DEF File
<1>10. /\ k0 \in Nat \ {0}
       /\ (x = "trial" /\ t = k0 + 1) \/ (x = "ended" /\ t = k0)
  <2>1. k0 \in Nat \ {0}
    BY JobType, SMT
  <2>2. CASE k0 < Trials
    <3>1. x = "trial"
      BY <2>2 DEF AfterTrial
    <3>2. t = k0 + 1
      BY <2>2 DEF TrialAfter
    <3> QED
      BY <2>1, <3>1, <3>2
  <2>3. CASE ~(k0 < Trials)
    <3>1. x = "ended"
      BY <2>3 DEF AfterTrial
    <3>2. t = k0
      BY <2>3 DEF TrialAfter
    <3> QED
      BY <2>1, <3>1, <3>2
  <2> QED
    BY <2>1, <2>2, <2>3
<1> HIDE DEF old, new, o, x, k0, t
<1>11. ASSUME NEW f \in DOMAIN files', f.job = j
       PROVE  OfTrial(f)'
  <2>1. CASE f = new
    BY <1>2, <1>3, <1>4, <1>5, <1>6, <1>10, <2>1, SMT DEF OfTrial, SameNodes
  <2>2. CASE f # new
    <3>1. f \in DOMAIN files /\ f # old /\ OfTrial(f) /\ files'[f] = files[f]
      BY <1>4, <2>2 DEF FilesOfTrials
    <3>2. f.trial \in Nat /\ f.trial <= k0 /\ ~f.tmp
      <4>1. f.kind \in {"stdout", "stderr"} /\ f.trial \in 1..Trials
        BY <3>1, NameIs
      <4>2. f.trial \in Nat /\ f.trial <= k0 /\ (f.trial < k0 \/ f.trial = k0)
        BY <1>10, <1>11, <3>1, <4>1, SMT DEF OfTrial, k0
      <4>3. CASE f.trial < k0
        BY <1>11, <3>1, <4>2, <4>3 DEF OfTrial, k0
      <4>4. CASE f.trial = k0
        <5>1. f.tmp <=> f.kind = "stderr"
          BY <1>1, <1>11, <3>1, <4>4 DEF OfTrial, k0
        <5> QED
          BY <1>7, <1>11, <3>1, <4>2, <4>4, <5>1
      <4> QED
        BY <4>2, <4>3, <4>4
    <3>3. f.trial <= t
      BY <1>10, <3>2, SMT
    <3> QED
      BY <1>2, <1>10, <1>11, <3>1, <3>2, <3>3 DEF OfTrial
  <2> QED
    BY <2>1, <2>2
<1>12. HasFiles(j)'
  <2>1. /\ new \in DOMAIN files' /\ o \in DOMAIN files'
        /\ \A k, kind : File(j, k, kind, FALSE) \in DOMAIN files => File(j, k, kind, FALSE) \in DOMAIN files'
    <3>1. new \in DOMAIN files' /\ \A f \in DOMAIN files : f # old => f \in DOMAIN files'
      BY <1>4
    <3>2. \A k, kind : File(j, k, kind, FALSE) # old
      BY <1>3, <1>9
    <3> QED
      BY <1>3, <1>5, <3>1, <3>2
  <2>2. ASSUME NEW k \in 1..t - 1, NEW kind \in {"stdout", "stderr"}
        PROVE  File(j, k, kind, FALSE)' \in DOMAIN files'
    <3>1. k \in 1..k0 - 1 \/ k = k0
      BY <1>10, SMT
    <3>2. CASE k \in 1..k0 - 1
      BY <1>5, <1>8, <2>1, <3>2 DEF HasFiles, k0
    <3>3. CASE k = k0
      BY <1>8, <2>1, <3>3
    <3> QED
      BY <3>1, <3>2, <3>3
  <2> QED
    BY <1>2, <1>5, <1>10, <2>2 DEF HasFiles, SameNodes
<1>13. /\ \A f \in DOMAIN files : f.job # j => f \in DOMAIN files' /\ files'[f] = files[f]
       /\ \A f \in DOMAIN files' : f.job # j => f \in DOMAIN files
  BY <1>3, <1>4
<1> QED
  BY <1>1, <1>11, <1>12, <1>13, OneJob

(* A trial that is let in, is over or is killed leaves the tree as it is.  *)
LEMMA JobKeeps ==
  ASSUME Types, FilesOfTrials, TrialsHaveFiles, NEW j \in JobId, JobStep(j) \/ Kill(j)
  PROVE  FilesOfTrials' /\ TrialsHaveFiles'
<1> DEFINE go == SameNodes(j)
<1>1. {"trial", "exited", "ended"} \subseteq Pc
  BY DEF Pc
<1>2. ASSUME Goto(j, "ended"), files' = files
      PROVE  FilesOfTrials' /\ TrialsHaveFiles'
  BY <1>1, <1>2, GotoMoves, SameTree
<1>3. CASE Start(j)
  <2>1. jobs[j].pc = "queued" /\ files' = files
    BY <1>3 DEF Start, At
  <2>2. CASE go
    <3>1. Goto(j, "trial")
      BY <1>3, <2>2 DEF Start, SameNodes
    <3> QED
      BY <1>1, <2>1, <2>2, <3>1, GotoMoves, SameTree
  <2>3. CASE ~go
    <3>1. Goto(j, "ended")
      BY <1>3, <2>3 DEF Start, SameNodes
    <3> QED
      BY <1>2, <2>1, <3>1
  <2> QED
    BY <2>2, <2>3
<1>4. CASE Succeed(j)
  <2>1. /\ jobs[j].pc = "running" /\ files' = files /\ Goto(j, "exited")
        /\ Len(files[Out(j, TRUE)].records) = Records
    BY <1>4 DEF Succeed, At
  <2> QED
    BY <1>1, <2>1, GotoMoves, SameTree
<1>5. CASE Fail(j) \/ Timeout(j) \/ Kill(j)
  <2>1. Goto(j, "ended") /\ files' = files
    BY <1>5 DEF Fail, Timeout, Kill
  <2> QED
    BY <1>2, <2>1
<1> QED
  BY <1>3, <1>4, <1>5, BeginKeeps, ReportKeeps, MoveOutKeeps, MoveErrKeeps DEF JobStep

(* A job that is submitted has no files, and the others keep theirs.       *)
LEMMA SubmitMoves ==
  ASSUME Types, Submit
  PROVE  /\ todo' \in Seq(Topologies \X Granted) /\ jobs' \in Seq(Job)
         /\ Len(jobs') = Len(jobs) + 1 /\ Len(jobs') + Len(todo') <= MaxJobs
         /\ \A i \in JobId : i \in JobId' /\ jobs'[i] = jobs[i]
         /\ JobId' = JobId \cup {Len(jobs) + 1} /\ Len(jobs) + 1 \notin JobId
         /\ jobs'[Len(jobs) + 1].pc = "queued" /\ jobs'[Len(jobs) + 1].trial = 1
<1> DEFINE cell == Head(todo)
           job == [topo |-> cell[1], alloc |-> cell[2], pc |-> "queued", trial |-> 1]
<1>1. /\ todo \in Seq(Topologies \X Granted) /\ todo # <<>> /\ jobs \in Seq(Job)
      /\ Len(jobs) + Len(todo) <= MaxJobs /\ todo' = Tail(todo) /\ jobs' = Append(jobs, job)
  BY DEF Types, Submit
<1>2. /\ cell \in Topologies \X Granted /\ todo' \in Seq(Topologies \X Granted)
      /\ Len(todo') = Len(todo) - 1 /\ Len(todo) \in Nat
  BY <1>1, HeadTailProperties, LenProperties
<1>3. 1 \in 1..Trials
  BY HarnessAssumption, SMT
<1>4. job \in Job /\ job.pc = "queued" /\ job.trial = 1
  BY <1>2, <1>3 DEF Job, Pc
<1> HIDE DEF cell, job
<1>5. /\ jobs' \in Seq(Job) /\ Len(jobs') = Len(jobs) + 1 /\ Len(jobs) \in Nat
      /\ \A i \in 1..Len(jobs) : jobs'[i] = jobs[i]
      /\ jobs'[Len(jobs) + 1] = job
  BY <1>1, <1>4, AppendProperties, LenProperties
<1>6. JobId = 1..Len(jobs) /\ JobId' = 1..Len(jobs) + 1
  BY <1>1, <1>5 DEF JobId
<1>7. JobId' = JobId \cup {Len(jobs) + 1} /\ Len(jobs) + 1 \notin JobId
  BY <1>5, <1>6, SMT
<1>8. Len(jobs') + Len(todo') <= MaxJobs
  BY <1>1, <1>2, <1>5, HarnessAssumption, SMT
<1> QED
  BY <1>2, <1>4, <1>5, <1>6, <1>7, <1>8

LEMMA SubmitKeeps ==
  ASSUME Types, FilesOfTrials, TrialsHaveFiles, Submit
  PROVE  FilesOfTrials' /\ TrialsHaveFiles'
<1> PICK new : new = Len(jobs) + 1
  OBVIOUS
<1>1. /\ files' = files /\ JobId' = JobId \cup {new} /\ new \notin JobId
      /\ \A i \in JobId : jobs'[i] = jobs[i]
      /\ jobs'[new].pc = "queued" /\ jobs'[new].trial = 1
  BY SubmitMoves DEF Submit
<1>2. ASSUME NEW f \in DOMAIN files
      PROVE  OfTrial(f)'
  <2>1. OfTrial(f)
    BY DEF FilesOfTrials
  <2>2. jobs'[f.job] = jobs[f.job] /\ f.job \in JobId'
    BY <1>1, <2>1 DEF OfTrial
  <2> QED
    BY <1>1, <2>1, <2>2 DEF OfTrial
<1>3. ASSUME NEW i \in JobId
      PROVE  HasFiles(i)'
  <2>1. HasFiles(i) /\ jobs'[i] = jobs[i]
    BY <1>1 DEF TrialsHaveFiles
  <2>2. /\ \A k, kind : File(i, k, kind, FALSE)' = File(i, k, kind, FALSE)
        /\ Out(i, TRUE)' = Out(i, TRUE) /\ Out(i, FALSE)' = Out(i, FALSE)
        /\ Err(i, TRUE)' = Err(i, TRUE)
    BY <2>1 DEF File, Out, Err
  <2> QED
    BY <1>1, <2>1, <2>2 DEF HasFiles, SameNodes
<1>4. HasFiles(new)'
  <2>1. 1..jobs'[new].trial - 1 = {}
    BY <1>1, SMT
  <2> QED
    BY <1>1, <2>1 DEF HasFiles, SameNodes
<1> QED
  BY <1>1, <1>2, <1>3, <1>4 DEF FilesOfTrials, TrialsHaveFiles

(* benchscribe and a failing sbatch leave the jobs and the tree alone.     *)
LEMMA AloneKeeps ==
  ASSUME FilesOfTrials, TrialsHaveFiles, jobs' = jobs, files' = files
  PROVE  FilesOfTrials' /\ TrialsHaveFiles'
<1>1. JobId' = JobId
  BY DEF JobId
<1>2. ASSUME NEW f \in DOMAIN files
      PROVE  OfTrial(f)'
  BY <1>1 DEF FilesOfTrials, OfTrial
<1>3. ASSUME NEW i \in JobId
      PROVE  HasFiles(i)'
  BY DEF TrialsHaveFiles, HasFiles, File, Out, Err, SameNodes
<1> QED
  BY <1>1, <1>2, <1>3 DEF FilesOfTrials, TrialsHaveFiles

-----------------------------------------------------------------------------
(* Every step keeps the types.                                             *)

TypedFiles ==
  /\ DOMAIN files \subseteq FileName
  /\ \A f \in DOMAIN files : files[f] \in Text /\ Len(files[f].records) <= Records

LEMMA FilesTyped ==
  ASSUME Types, FilesOfTrials, TrialsHaveFiles, NEW j \in JobId, JobStep(j) \/ Kill(j)
  PROVE  TypedFiles'
<1>1. TypedFiles
  BY DEF Types, TypedFiles
<1>2. /\ Out(j, TRUE) \in FileName /\ Out(j, FALSE) \in FileName
      /\ Err(j, TRUE) \in FileName /\ Err(j, FALSE) \in FileName
  BY PresentNames
<1>3. FileName' = FileName /\ Text' = Text
  BY DEF FileName, Text
<1>4. CASE Start(j) \/ Succeed(j) \/ Fail(j) \/ Timeout(j) \/ Kill(j)
  <2>1. files' = files
    BY <1>4 DEF Start, Succeed, Fail, Timeout, Kill
  <2> QED
    BY <1>1, <1>3, <2>1 DEF TypedFiles
<1>5. CASE BeginTrial(j)
  <2>1. ASSUME NEW w \in Placements(j)
        PROVE  Empty(w) \in Text /\ Len(Empty(w).records) <= Records
    <3>1. w \in [nodes : Nat, gpus : Nat]
      BY PlacementType
    <3>2. <<>> \in Seq(BOOLEAN) /\ Len(<<>>) = 0
      OBVIOUS
    <3>3. 0 <= Records
      BY HarnessAssumption, SMT
    <3>4. Empty(w).records = <<>>
      BY DEF Empty
    <3>5. Empty(w) \in Text
      BY <3>1, <3>2 DEF Empty, Text
    <3> QED
      BY <3>2, <3>3, <3>4, <3>5
  <2> QED
    BY <1>1, <1>2, <1>3, <1>5, <2>1, BeginFiles DEF TypedFiles
<1>6. CASE Report(j)
  <2>1. Out(j, TRUE) \in DOMAIN files
    BY <1>6 DEF Report, At, TrialsHaveFiles, HasFiles
  <2>2. /\ DOMAIN files' = DOMAIN files
        /\ \A f \in DOMAIN files \ {Out(j, TRUE)} : files'[f] = files[f]
        /\ files'[Out(j, TRUE)] \in Text /\ Len(files'[Out(j, TRUE)].records) <= Records
    BY <1>6, <2>1, ReportFiles
  <2> QED
    BY <1>1, <1>3, <2>2 DEF TypedFiles
<1>7. CASE MoveOut(j)
  <2>1. Out(j, TRUE) \in DOMAIN files
    BY <1>7 DEF MoveOut, At, TrialsHaveFiles, HasFiles
  <2> QED
    BY <1>1, <1>2, <1>3, <1>7, <2>1, MoveOutFiles DEF TypedFiles
<1>8. CASE MoveErr(j)
  <2>1. Err(j, TRUE) \in DOMAIN files
    BY <1>8 DEF MoveErr, At, TrialsHaveFiles, HasFiles
  <2> QED
    BY <1>1, <1>2, <1>3, <1>8, <2>1, MoveErrFiles DEF TypedFiles
<1> QED
  BY <1>4, <1>5, <1>6, <1>7, <1>8 DEF JobStep

(* A step of a job moves it, and it alone.                                 *)
LEMMA JobStepMoves ==
  ASSUME Types, NEW j \in JobId, JobStep(j) \/ Kill(j)
  PROVE  /\ jobs' \in Seq(Job) /\ Len(jobs') = Len(jobs)
         /\ UNCHANGED <<todo, unread, scan, summary>>
<1>1. Pc = {"queued", "trial", "running", "exited", "moved", "ended"}
  BY DEF Pc
<1>2. \A x \in Pc : Goto(j, x) => jobs' \in Seq(Job) /\ Len(jobs') = Len(jobs)
  BY GotoMoves DEF Moves
<1>3. CASE Start(j)
  <2>1. Goto(j, "trial") \/ Goto(j, "ended")
    BY <1>3 DEF Start, Goto
  <2> QED
    BY <1>1, <1>2, <1>3, <2>1 DEF Start
<1>4. CASE BeginTrial(j) \/ Succeed(j) \/ Fail(j) \/ Timeout(j) \/ MoveOut(j) \/ Kill(j)
  BY <1>1, <1>2, <1>4 DEF BeginTrial, Succeed, Fail, Timeout, MoveOut, Kill
<1>5. CASE Report(j)
  BY <1>5 DEF Report, Types
<1>6. CASE MoveErr(j)
  BY <1>6, MoveErrMoves DEF MoveErr, Moves
<1> QED
  BY <1>3, <1>4, <1>5, <1>6 DEF JobStep

LEMMA JobTypes ==
  ASSUME Types, FilesOfTrials, TrialsHaveFiles, NEW j \in JobId, JobStep(j) \/ Kill(j)
  PROVE  Types'
<1>1. /\ jobs' \in Seq(Job) /\ Len(jobs') = Len(jobs)
      /\ todo' = todo /\ unread' = unread /\ summary' = summary
  BY JobStepMoves
<1>2. TypedFiles'
  BY FilesTyped
<1>3. unread' \subseteq Listed'
  BY <1>1, ListedKept DEF Types
<1> QED
  BY <1>1, <1>2, <1>3 DEF Types, TypedFiles

-----------------------------------------------------------------------------
(* The tables.                                                             *)

LEMMA MeasuredJobs ==
  ASSUME Types, NEW F \in SUBSET DOMAIN files, NEW m \in All(files, F)
  PROVE  m.job \in 1..MaxJobs
<1>1. PICK f \in F : m \in Of(files, f)
  BY DEF All
<1>2. m.job = f.job
  BY <1>1 DEF Of
<1> QED
  BY <1>2 DEF Types, FileName

LEMMA RunsFinite ==
  ASSUME NEW M, \A m \in M : m.job \in 1..MaxJobs, NEW c
  PROVE  IsFiniteSet(Runs(M, c)) /\ Cardinality(Runs(M, c)) \in 0..MaxJobs
<1>1. Runs(M, c) \subseteq 1..MaxJobs
  BY DEF Runs, Group
<1>2. MaxJobs \in Nat \ {0}
  BY HarnessAssumption
<1>3. IsFiniteSet(1..MaxJobs) /\ Cardinality(1..MaxJobs) = MaxJobs
  <2>1. ~(1 > MaxJobs) /\ MaxJobs - 1 + 1 = MaxJobs /\ 1 \in Int /\ MaxJobs \in Int
    BY <1>2, SMT
  <2> QED
    BY <2>1, FS_Interval
<1>4. IsFiniteSet(Runs(M, c)) /\ Cardinality(Runs(M, c)) <= MaxJobs
  BY <1>1, <1>3, FS_Subset
<1>5. Cardinality(Runs(M, c)) \in Nat
  BY <1>4, FS_CardinalityType
<1> QED
  BY <1>2, <1>4, <1>5, SMT

(* More measurements cover what fewer do.                                  *)
LEMMA Monotone ==
  ASSUME NEW M, NEW K, M \subseteq K, \A m \in K : m.job \in 1..MaxJobs, NEW c
  PROVE  Cardinality(Runs(M, c)) <= Cardinality(Runs(K, c))
<1>1. Runs(M, c) \subseteq Runs(K, c)
  BY DEF Runs, Group
<1> QED
  BY <1>1, RunsFinite, FS_Subset

LEMMA CoveredByMore ==
  ASSUME NEW table, NEW M, NEW K, M \subseteq K, \A m \in K : m.job \in 1..MaxJobs,
         \A c \in Topologies \X (1..Records) : table[c] \in Table, CoveredBy(table, M)
  PROVE  CoveredBy(table, K)
<1> SUFFICES ASSUME NEW c \in Topologies \X (1..Records)
             PROVE  /\ table[c].runs <= Cardinality(Runs(K, c))
                    /\ table[c].status = "error" => \E m \in Group(K, c) : ~m.valid
  BY DEF CoveredBy
<1>1. table[c].runs <= Cardinality(Runs(K, c))
  <2>1. table[c].runs <= Cardinality(Runs(M, c)) /\ Cardinality(Runs(M, c)) <= Cardinality(Runs(K, c))
    BY Monotone DEF CoveredBy
  <2>2. table[c].runs \in Nat
    BY HarnessAssumption, SMT DEF Table
  <2>3. Cardinality(Runs(M, c)) \in Nat /\ Cardinality(Runs(K, c)) \in Nat
    <3>1. \A m \in M : m.job \in 1..MaxJobs
      OBVIOUS
    <3>2. Cardinality(Runs(M, c)) \in 0..MaxJobs /\ Cardinality(Runs(K, c)) \in 0..MaxJobs
      BY <3>1, RunsFinite
    <3> QED
      BY <3>2, HarnessAssumption, SMT
  <2> QED
    BY <2>1, <2>2, <2>3, SMT
<1>2. Group(M, c) \subseteq Group(K, c)
  BY DEF Group
<1> QED
  BY <1>1, <1>2 DEF CoveredBy

LEMMA EntryIs ==
  ASSUME NEW M, \A m \in M : m.job \in 1..MaxJobs, NEW c
  PROVE  /\ Entry(Group(M, c)) \in Table
         /\ Entry(Group(M, c)).runs = Cardinality(Runs(M, c))
         /\ Entry(Group(M, c)).status = "error" <=> \E m \in Group(M, c) : ~m.valid
<1> DEFINE group == Group(M, c)
           e == Entry(group)
<1>1. Cardinality(Runs(M, c)) \in 0..MaxJobs
  BY RunsFinite
<1>2. CASE group = {}
  <2>1. Runs(M, c) = {}
    BY <1>2 DEF Runs
  <2>2. Cardinality(Runs(M, c)) = 0
    BY <2>1, FS_EmptySet
  <2>3. e = NoEntry /\ e.runs = 0 /\ e.status = "absent"
    BY <1>2 DEF Entry, NoEntry
  <2>4. e \in Table
    BY <1>1, <2>2, <2>3 DEF NoEntry, Table
  <2> QED
    BY <1>2, <2>2, <2>3, <2>4
<1>3. CASE group # {}
  <2> DEFINE bad == \E m \in group : ~m.valid
  <2>1. e = [status |-> IF bad THEN "error" ELSE "ok", runs |-> Cardinality(Runs(M, c))]
    BY <1>3 DEF Entry, Runs
  <2> HIDE DEF bad, e
  <2>2. e \in Table
    BY <1>1, <2>1 DEF Table
  <2>3. e.runs = Cardinality(Runs(M, c)) /\ (e.status = "error" <=> bad)
    BY <2>1
  <2> QED
    BY <2>2, <2>3 DEF bad, e
<1> QED
  BY <1>2, <1>3

(* What the running scan, or the next one, will have read.                 *)
Covering == IF unread = {} /\ scan = {} THEN All(files, Listed) ELSE scan \cup All(files, unread)

LEMMA CoveringListed ==
  ASSUME Types, TableCovered
  PROVE  /\ Covering \subseteq All(files, Listed)
         /\ \A m \in All(files, Listed) : m.job \in 1..MaxJobs
<1>1. unread \subseteq Listed /\ scan \subseteq All(files, Listed) /\ Listed \subseteq DOMAIN files
  BY DEF Types, TableCovered, Listed
<1>2. All(files, unread) \subseteq All(files, Listed)
  BY <1>1 DEF All
<1>3. \A m \in All(files, Listed) : m.job \in 1..MaxJobs
  BY <1>1, MeasuredJobs
<1> QED
  BY <1>1, <1>2, <1>3 DEF Covering

LEMMA JobCovers ==
  ASSUME Types, FilesOfTrials, TrialsHaveFiles, TableCovered,
         NEW j \in JobId, JobStep(j) \/ Kill(j)
  PROVE  TableCovered'
<1>1. unread' = unread /\ scan' = scan /\ summary' = summary
  BY JobStepMoves
<1>2. Listed \subseteq Listed' /\ \A f \in Listed : files'[f] = files[f]
  BY ListedKept
<1>3. unread \subseteq Listed /\ unread \subseteq Listed'
  BY <1>2 DEF Types
<1>4. \A f \in Listed : Of(files', f) = Of(files, f)
  BY <1>2 DEF Of
<1>5. All(files, Listed) \subseteq All(files', Listed') /\ All(files', unread) = All(files, unread)
  BY <1>2, <1>3, <1>4 DEF All
<1>6. scan' \subseteq All(files', Listed')
  BY <1>1, <1>5 DEF TableCovered
<1>7. Covering \subseteq Covering'
  BY <1>1, <1>5 DEF Covering
<1>8. Types'
  BY JobTypes
<1>9. \A m \in Covering' : m.job \in 1..MaxJobs
  <2>1. Listed' \subseteq DOMAIN files'
    BY DEF Listed
  <2>2. \A m \in All(files', Listed') : m.job \in 1..MaxJobs
    <3>1. \A f \in Listed' : f.job \in 1..MaxJobs
      BY <1>8, <2>1 DEF Types, FileName
    <3> QED
      BY <3>1 DEF All, Of
  <2>3. All(files', unread') \subseteq All(files', Listed')
    BY <1>1, <1>3 DEF All
  <2> QED
    BY <1>6, <2>2, <2>3 DEF Covering
<1>10. CoveredBy(summary, Covering) /\ \A c \in Topologies \X (1..Records) : summary[c] \in Table
  BY DEF TableCovered, Covering, Types
<1>11. CoveredBy(summary, Covering')
  BY <1>7, <1>9, <1>10, CoveredByMore
<1> QED
  BY <1>1, <1>6, <1>11 DEF TableCovered, Covering, CoveredBy

(* One file read: its measurements move from what is unread to the scan.   *)
LEMMA ReadOne ==
  ASSUME Read
  PROVE  /\ \E f \in unread : unread' = unread \ {f} /\ scan' = scan \cup Of(files, f)
         /\ UNCHANGED <<todo, jobs, files, summary>>
<1> DEFINE f == CHOOSE f \in unread : TRUE
<1>1. unread # {} /\ unread' = unread \ {f}
      /\ scan' = scan \cup Of(files, f) /\ UNCHANGED <<todo, jobs, files, summary>>
  BY DEF Read, Of
<1>2. f \in unread
  BY <1>1
<1> QED
  BY <1>1, <1>2

LEMMA ReadCovers ==
  ASSUME Types, TableCovered, Read
  PROVE  TableCovered'
<1>1. /\ \E f \in unread : unread' = unread \ {f} /\ scan' = scan \cup Of(files, f)
      /\ files' = files /\ summary' = summary
  BY ReadOne
<1>2. PICK f \in unread : unread' = unread \ {f} /\ scan' = scan \cup Of(files, f)
  BY <1>1
<1>3. Listed' = Listed /\ f \in Listed
  BY <1>1 DEF Listed, Types
<1>4. Of(files, f) \subseteq All(files, Listed)
  BY <1>3 DEF All
<1>5. scan' \subseteq All(files', Listed')
  BY <1>1, <1>2, <1>3, <1>4 DEF TableCovered
<1>6. Covering = scan \cup All(files, unread)
  BY DEF Covering
<1>7. scan' \cup All(files, unread') = scan \cup All(files, unread)
  <2>1. All(files, unread) = Of(files, f) \cup All(files, unread')
    BY <1>2 DEF All
  <2> QED
    BY <1>2, <2>1
<1>8. Covering \subseteq Covering' /\ Covering' \subseteq All(files, Listed)
  <2>1. CASE unread' = {} /\ scan' = {}
    <3>1. Covering' = All(files, Listed)
      BY <1>1, <1>3, <2>1 DEF Covering
    <3> QED
      BY <3>1, CoveringListed
  <2>2. CASE ~(unread' = {} /\ scan' = {})
    <3>1. Covering' = scan' \cup All(files, unread')
      BY <1>1, <2>2 DEF Covering
    <3> QED
      BY <1>6, <1>7, <3>1, CoveringListed
  <2> QED
    BY <2>1, <2>2
<1>9. CoveredBy(summary, Covering) /\ \A c \in Topologies \X (1..Records) : summary[c] \in Table
  BY DEF TableCovered, Covering, Types
<1>10. CoveredBy(summary, Covering')
  BY <1>8, <1>9, CoveringListed, CoveredByMore
<1> QED
  BY <1>1, <1>5, <1>10 DEF TableCovered, Covering, CoveredBy

(* The new table rests on all that the scan has read, and so says at least *)
(* as much as the last one, which rested on no more.                       *)
LEMMA SummariseIs ==
  ASSUME Types, TableCovered, Summarise
  PROVE  /\ DOMAIN summary' = DOMAIN summary
         /\ \A c \in DOMAIN summary :
              /\ summary'[c] \in Table
              /\ summary'[c].runs = Cardinality(Runs(scan, c))
              /\ summary'[c].status = "error" <=> \E m \in Group(scan, c) : ~m.valid
<1>1. scan \subseteq All(files, Listed) /\ \A m \in All(files, Listed) : m.job \in 1..MaxJobs
  BY CoveringListed DEF TableCovered
<1>2. \A m \in scan : m.job \in 1..MaxJobs
  BY <1>1
<1>3. DOMAIN summary' = DOMAIN summary /\ \A c \in DOMAIN summary : summary'[c] = Entry(Group(scan, c))
  BY DEF Summarise, Group
<1> QED
  BY <1>2, <1>3, EntryIs

LEMMA SummariseCovers ==
  ASSUME Types, TableCovered, Summarise
  PROVE  TableCovered'
<1>1. unread = {} /\ unread' = {} /\ scan' = {} /\ files' = files /\ Listed' = Listed
  BY DEF Summarise, Listed
<1>2. Covering' = All(files, Listed)
  BY <1>1 DEF Covering
<1>3. DOMAIN summary = Topologies \X (1..Records)
  BY DEF Types
<1>4. CoveredBy(summary', scan) /\ \A c \in Topologies \X (1..Records) : summary'[c] \in Table
  <2>1. ASSUME NEW c \in Topologies \X (1..Records)
        PROVE  summary'[c].runs <= Cardinality(Runs(scan, c))
    <3>1. Cardinality(Runs(scan, c)) \in 0..MaxJobs
      <4>1. \A m \in scan : m.job \in 1..MaxJobs
        BY CoveringListed DEF TableCovered
      <4> QED
        BY <4>1, RunsFinite
    <3>2. summary'[c].runs = Cardinality(Runs(scan, c))
      BY <1>3, SummariseIs
    <3> QED
      BY <3>1, <3>2, HarnessAssumption, SMT
  <2> QED
    BY <1>3, <2>1, SummariseIs DEF CoveredBy
<1>5. CoveredBy(summary', Covering')
  BY <1>2, <1>4, CoveringListed, CoveredByMore DEF TableCovered
<1> QED
  BY <1>1, <1>5 DEF TableCovered, Covering, CoveredBy

(* What leaves the tree and the scan alone.                                *)
LEMMA AloneCovers ==
  ASSUME TableCovered, UNCHANGED <<files, unread, scan, summary>>
  PROVE  TableCovered'
<1>1. Listed' = Listed
  BY DEF Listed
<1> QED
  BY <1>1 DEF TableCovered, CoveredBy

LEMMA ListCovers ==
  ASSUME Types, TableCovered, List
  PROVE  TableCovered'
<1>1. /\ unread = {} /\ scan = {} /\ unread' = Listed /\ Listed # {} /\ scan' = {}
      /\ files' = files /\ summary' = summary /\ Listed' = Listed
  BY DEF List, Listed
<1>2. Covering' = All(files, Listed) /\ Covering = All(files, Listed)
  BY <1>1 DEF Covering
<1>3. CoveredBy(summary, Covering')
  BY <1>2 DEF TableCovered, Covering
<1> QED
  BY <1>1, <1>3 DEF TableCovered, Covering, CoveredBy

-----------------------------------------------------------------------------
(* The invariant.                                                          *)

LEMMA AloneTypes ==
  ASSUME Types, UNCHANGED <<todo, jobs, files>>, unread' \subseteq Listed,
         DOMAIN summary' = DOMAIN summary, \A c \in DOMAIN summary : summary'[c] \in Table
  PROVE  Types'
<1>1. Listed' = Listed
  BY DEF Listed
<1> QED
  BY <1>1 DEF Types

LEMMA HarnessInvStep == HarnessInv /\ [HarnessNext]_harnessVars => HarnessInv'
<1> SUFFICES ASSUME Types, FilesOfTrials, TrialsHaveFiles, TableCovered, [HarnessNext]_harnessVars
             PROVE  Types' /\ FilesOfTrials' /\ TrialsHaveFiles' /\ TableCovered'
  BY DEF HarnessInv
<1>1. ASSUME NEW j \in JobId, JobStep(j) \/ Kill(j)
      PROVE  Types' /\ FilesOfTrials' /\ TrialsHaveFiles' /\ TableCovered'
  BY <1>1, JobTypes, JobKeeps, JobCovers
<1>2. CASE Submit
  <2>1. files' = files /\ unread' = unread /\ scan' = scan /\ summary' = summary /\ Listed' = Listed
    BY <1>2 DEF Submit, Listed
  <2>2. Types'
    BY <1>2, <2>1, SubmitMoves DEF Types
  <2> QED
    BY <1>2, <2>1, <2>2, SubmitKeeps, AloneCovers
<1>3. CASE SubmitFails
  <2>1. todo' = <<>> /\ UNCHANGED <<jobs, files, unread, scan, summary>>
    BY <1>3 DEF SubmitFails
  <2>2. Types'
    <3>1. todo' \in Seq(Topologies \X Granted) /\ Len(todo') = 0 /\ Len(todo) \in Nat
      BY <2>1, LenProperties DEF Types
    <3>2. Len(jobs) \in Nat /\ Len(jobs) + Len(todo) <= MaxJobs
      BY LenProperties DEF Types
    <3>3. Len(jobs) + Len(todo') <= MaxJobs
      BY <3>1, <3>2, HarnessAssumption, SMT
    <3>4. Listed' = Listed
      BY <2>1 DEF Listed
    <3> QED
      BY <2>1, <3>1, <3>3, <3>4 DEF Types
  <2> QED
    BY <2>1, <2>2, AloneKeeps, AloneCovers
<1>4. CASE List
  <2>1. unread' = Listed /\ UNCHANGED <<todo, jobs, files, summary>>
    BY <1>4 DEF List
  <2>2. Types'
    BY <2>1, AloneTypes DEF Types
  <2> QED
    BY <1>4, <2>1, <2>2, AloneKeeps, ListCovers
<1>5. CASE Read
  <2>1. unread' \subseteq unread /\ UNCHANGED <<todo, jobs, files, summary>>
    BY <1>5, ReadOne
  <2>2. Types'
    BY <2>1, AloneTypes DEF Types
  <2> QED
    BY <1>5, <2>1, <2>2, AloneKeeps, ReadCovers
<1>6. CASE Summarise
  <2>1. unread' = unread /\ UNCHANGED <<todo, jobs, files>>
    BY <1>6 DEF Summarise
  <2>2. Types'
    BY <1>6, <2>1, SummariseIs, AloneTypes DEF Types
  <2> QED
    BY <1>6, <2>1, <2>2, AloneKeeps, SummariseCovers
<1>7. CASE UNCHANGED harnessVars
  <2>1. UNCHANGED <<todo, jobs, files, unread, scan, summary>>
    BY <1>7 DEF harnessVars
  <2>2. Types'
    BY <2>1, AloneTypes DEF Types
  <2> QED
    BY <2>1, <2>2, AloneKeeps, AloneCovers
<1> QED
  BY <1>1, <1>2, <1>3, <1>4, <1>5, <1>6, <1>7 DEF HarnessNext, Finished

(* What the harness keeps: how far each job has come says which of its     *)
(* files there are, under which names and with how many records, and the   *)
(* next table will rest on all that the last one rests on.                 *)
THEOREM HarnessInductive == HarnessSpec => []HarnessInv
BY HarnessInvInit, HarnessInvStep, PTL DEF HarnessSpec

(* Every variable keeps its type: every name in the tree is one trial's,   *)
(* and benchscribe opens no file that a job has moved away.                *)
THEOREM HarnessTypeCorrect == HarnessSpec => []HarnessTypeOK
<1>1. HarnessInv => HarnessTypeOK
  <2> SUFFICES ASSUME Types
               PROVE  HarnessTypeOK
    BY DEF HarnessInv
  <2>1. Len(todo) \in Nat /\ Len(jobs) \in Nat /\ Len(jobs) + Len(todo) <= MaxJobs
    BY LenProperties DEF Types
  <2>2. Len(todo) <= MaxJobs /\ Len(jobs) <= MaxJobs
    BY <2>1, HarnessAssumption, SMT
  <2>3. \A i \in 1..Len(todo) : todo[i] \in Topologies \X Granted
    BY ElementOfSeq DEF Types
  <2>4. \A j \in JobId : jobs[j] \in [topo : Topologies, alloc : Granted, pc : Pc, trial : 1..Trials]
    BY JobType DEF Job
  <2>5. ASSUME NEW f \in DOMAIN files
        PROVE  /\ files[f].where \in [nodes : Nat, gpus : Nat] /\ Len(files[f].records) <= Records
               /\ \A i \in Sizes(files[f]) : files[f].records[i] \in BOOLEAN
    <3>1. files[f].records \in Seq(BOOLEAN)
      BY DEF Types, Text
    <3>2. \A i \in 1..Len(files[f].records) : files[f].records[i] \in BOOLEAN
      BY <3>1, ElementOfSeq
    <3> QED
      BY <3>2 DEF Types, Text, Sizes
  <2>6. unread \subseteq DOMAIN files
    BY DEF Types, Listed
  <2> QED
    BY <2>2, <2>3, <2>4, <2>5, <2>6 DEF HarnessTypeOK, Types, Table
<1> QED
  BY <1>1, HarnessInductive, PTL

(* No result is filed under a topology it was not measured on, with either *)
(* launcher and wherever mpirun has the ranks placed, as long as no sbatch *)
(* argument of the operator's changed the tasks per node: job.sh compares  *)
(* the nodes, and then only the placement of the label is left.            *)
THEOREM FiledWhereMeasuredHolds == HarnessSpec => []FiledWhereMeasured
<1>1. HarnessInv => FiledWhereMeasured
  <2> SUFFICES ASSUME Types, FilesOfTrials, NEW f \in DOMAIN files,
                      files[f].records # <<>>, ~Overridden(f.job)
               PROVE  files[f].where = f.topo
    BY DEF HarnessInv, FiledWhereMeasured
  <2>1. /\ f.job \in JobId /\ f.topo = jobs[f.job].topo
        /\ jobs[f.job].alloc.nodes = f.topo.nodes
        /\ Placed(f.topo, jobs[f.job].alloc, files[f])
    BY DEF FilesOfTrials, OfTrial
  <2>2. f.topo \in Granted /\ jobs[f.job].alloc \in Granted
    BY <2>1, JobType, HarnessAssumption
  <2>3. files[f].where \in Layouts(f.topo, jobs[f.job].alloc)
    BY <2>1 DEF Placed
  <2>4. jobs[f.job].alloc.gpus = f.topo.gpus
    BY <2>1 DEF Overridden
  <2> QED
    BY <2>1, <2>2, <2>3, <2>4, AsLabelled
<1> QED
  BY <1>1, HarnessInductive, PTL

(* benchscribe reads whole sweeps of trials that their jobs have left      *)
(* behind with status 0, however its scan runs into the jobs.              *)
THEOREM ReadsFinishedTrialsHolds == HarnessSpec => []ReadsFinishedTrials
<1>1. HarnessInv => ReadsFinishedTrials
  <2> SUFFICES ASSUME Types, FilesOfTrials, NEW f \in unread
               PROVE  /\ Len(files[f].records) = Records
                      /\ \/ jobs[f.job].trial > f.trial
                         \/ jobs[f.job].trial = f.trial /\ jobs[f.job].pc \in {"moved", "ended"}
    BY DEF HarnessInv, ReadsFinishedTrials
  <2>1. f \in DOMAIN files /\ f.kind = "stdout" /\ ~f.tmp
    BY DEF Types, Listed
  <2>2. OfTrial(f) /\ f.job \in JobId
    BY <2>1 DEF FilesOfTrials, OfTrial
  <2>3. f.trial \in 1..Trials /\ jobs[f.job].trial \in 1..Trials /\ jobs[f.job].pc \in Pc
    BY <2>1, <2>2, NameIs, JobType DEF Types, FileName
  <2>4. Len(files[f].records) = Records
    BY <2>1, <2>2 DEF OfTrial
  <2>5. f.trial = jobs[f.job].trial => jobs[f.job].pc \in {"moved", "ended"}
    BY <2>1, <2>2, <2>3 DEF OfTrial, Pc
  <2>6. jobs[f.job].trial > f.trial \/ jobs[f.job].trial = f.trial
    <3>1. f.trial <= jobs[f.job].trial
      BY <2>2 DEF OfTrial
    <3> QED
      BY <2>3, <3>1, HarnessAssumption, SMT
  <2> QED
    BY <2>4, <2>5, <2>6
<1> QED
  BY <1>1, HarnessInductive, PTL

(* A job's filed trials are its first ones, both files of each: a trial    *)
(* that fails, hangs or is killed leaves no gap behind which others follow.*)
THEOREM FiledTrialsAreFirstHolds == HarnessSpec => []FiledTrialsAreFirst
<1>1. HarnessInv => FiledTrialsAreFirst
  <2> SUFFICES ASSUME Types, FilesOfTrials, TrialsHaveFiles,
                      NEW f \in DOMAIN files, f.kind = "stdout", ~f.tmp,
                      NEW k \in 1..f.trial - 1, NEW kind \in {"stdout", "stderr"}
               PROVE  /\ [f EXCEPT !.trial = k, !.kind = kind] \in DOMAIN files
                      /\ [f EXCEPT !.trial = k, !.kind = kind, !.tmp = TRUE] \notin DOMAIN files
    BY DEF HarnessInv, FiledTrialsAreFirst
  <2> DEFINE j == f.job
             g == [f EXCEPT !.trial = k, !.kind = kind, !.tmp = TRUE]
  <2>1. f = File(j, f.trial, "stdout", f.tmp) /\ j \in JobId /\ f.trial \in 1..Trials /\ f.tmp = FALSE
    BY NameIs
  <2>2. f.trial <= jobs[j].trial /\ jobs[j].trial \in 1..Trials
    BY <2>1, JobType DEF FilesOfTrials, OfTrial
  <2>3. k \in 1..jobs[j].trial - 1 /\ k < jobs[j].trial
    BY <2>1, <2>2, HarnessAssumption, SMT
  <2>4. File(j, k, kind, FALSE) \in DOMAIN files
    BY <2>1, <2>3 DEF TrialsHaveFiles, HasFiles
  <2>5. [f EXCEPT !.trial = k, !.kind = kind] = File(j, k, kind, FALSE)
    <3>1. PICK i, topo, tmp : i = f.job /\ topo = jobs[i].topo /\ tmp = f.tmp
      OBVIOUS
    <3>2. f = [topo |-> topo, job |-> i, trial |-> f.trial, kind |-> "stdout", tmp |-> tmp]
      BY <2>1, <3>1 DEF File
    <3>3. PICK h : h = [f EXCEPT !.trial = k]
      OBVIOUS
    <3>4. h = [topo |-> topo, job |-> i, trial |-> k, kind |-> "stdout", tmp |-> tmp]
      BY <3>2, <3>3
    <3>5. [h EXCEPT !.kind = kind] = [topo |-> topo, job |-> i, trial |-> k, kind |-> kind, tmp |-> tmp]
      BY <3>4
    <3>6. tmp = FALSE
      BY <2>1, <3>1
    <3> QED
      BY <3>1, <3>3, <3>5, <3>6 DEF File
  <2>6. g \notin DOMAIN files
    <3>1. g.job = j /\ g.trial = k /\ g.tmp
      BY <2>1 DEF File
    <3> HIDE DEF g, j
    <3> QED
      BY <2>3, <3>1 DEF FilesOfTrials, OfTrial
  <2> QED
    BY <2>4, <2>5, <2>6
<1> QED
  BY <1>1, HarnessInductive, PTL

(* No run of an earlier table disappears from a later one, and no error is *)
(* averaged away, whatever the jobs do between the scans and during them.  *)
THEOREM TablesAddUpHolds == HarnessSpec => TablesAddUp
<1> DEFINE Add == \A c \in DOMAIN summary :
                    /\ summary'[c].runs >= summary[c].runs
                    /\ summary[c].status = "error" => summary'[c].status = "error"
<1>1. HarnessInv /\ [HarnessNext]_harnessVars => [Add]_harnessVars
  <2> SUFFICES ASSUME Types, TableCovered, [HarnessNext]_harnessVars
               PROVE  [Add]_harnessVars
    BY DEF HarnessInv
  <2>1. ASSUME summary' = summary
        PROVE  Add
    <3>1. \A c \in DOMAIN summary : summary[c].runs \in Nat
      BY HarnessAssumption, SMT DEF Types, Table
    <3>2. \A c \in DOMAIN summary : summary[c].runs >= summary[c].runs
      BY <3>1, SMT
    <3> QED
      BY <2>1, <3>2
  <2>2. CASE Summarise
    <3>1. CoveredBy(summary, scan)
      <4>1. unread = {} /\ scan # {}
        BY <2>2 DEF Summarise
      <4>2. All(files, unread) = {}
        BY <4>1 DEF All
      <4> QED
        BY <4>1, <4>2 DEF TableCovered
    <3>2. ASSUME NEW c \in DOMAIN summary
          PROVE  /\ summary'[c].runs >= summary[c].runs
                 /\ summary[c].status = "error" => summary'[c].status = "error"
      <4>1. /\ summary'[c] \in Table /\ summary[c] \in Table
            /\ summary'[c].runs = Cardinality(Runs(scan, c))
            /\ summary'[c].status = "error" <=> \E m \in Group(scan, c) : ~m.valid
        BY <2>2, SummariseIs DEF Types
      <4>2. /\ summary[c].runs <= Cardinality(Runs(scan, c))
            /\ summary[c].status = "error" => \E m \in Group(scan, c) : ~m.valid
        BY <3>1 DEF Types, CoveredBy
      <4>3. summary'[c].runs \in 0..MaxJobs /\ summary[c].runs \in 0..MaxJobs
        BY <4>1 DEF Table
      <4>4. summary'[c].runs >= summary[c].runs
        BY <4>1, <4>2, <4>3, HarnessAssumption, SMT
      <4> QED
        BY <4>1, <4>2, <4>4
    <3> QED
      BY <3>2
  <2>3. ASSUME NEW j \in JobId, JobStep(j) \/ Kill(j)
        PROVE  summary' = summary
    BY <2>3, JobStepMoves
  <2>4. Submit \/ SubmitFails \/ List \/ Read \/ Finished \/ UNCHANGED harnessVars => summary' = summary
    BY DEF Submit, SubmitFails, List, Read, Finished, harnessVars
  <2> QED
    BY <2>1, <2>2, <2>3, <2>4 DEF HarnessNext
<1> QED
  BY <1>1, HarnessInductive, PTL DEF HarnessSpec, TablesAddUp

-----------------------------------------------------------------------------
(* The lifecycle: its inductive invariant.                                 *)

Ops == Operations(program)

(* What lives when the first i - 1 operations have returned, and what of   *)
(* it the handler has a pointer to, or a flag for.                         *)
Live(i) ==
  {o \in Objects : \E j \in 1 .. i - 1 :
     o \in Creates(Ops[j]) /\ \A k \in j .. i - 1 : o \notin Releases(Ops[k])}

Kept(i) ==
  {o \in Known : \E j \in 1 .. i - 1 :
     o \in Creates(Ops[j]) /\ \A k \in j .. i - 1 : o \notin SetBack(Ops[k])}

(* A rank that has come to the layout check, the third operation, with a   *)
(* runtime that is not up.                                                 *)
Lost(p) == IgnoresAttach /\ at[p] = 3 /\ "heap" \notin holds[p]

(* No rank has left a collective operation that another has not begun,     *)
(* unless by failing in it unnoticed.                                      *)
Together ==
  \A p, q \in PE, i \in Nat \ {0} :
    ~Lost(p) /\ i < at[p] /\ Ops[i] \in Collective => Arrived(q, i)

(* What a rank holds, and what its handler knows of, is told by how far it *)
(* has come.  Only a check that fails leads to the handler.                *)
Accounted ==
  \A p \in PE :
    /\ mode[p] = "try" => Lost(p) \/ holds[p] = Live(at[p])
    /\ mode[p] = "catch" => /\ \/ Lost(p)
                               \/ holds[p] = IF program \in OneCcl THEN {} ELSE Live(at[p])
                            /\ at[p] <= Len(Ops) /\ Op(p) \in Checked
    /\ mode[p] \in {"try", "catch"} => handles[p] = Kept(at[p])
    /\ mode[p] = "abort" => program \in Nccl

(* Operations are counted from one.                                        *)
Positions == at \in [PE -> Nat \ {0}]

LifecycleInv == TypeOK /\ Positions /\ Together /\ Accounted

-----------------------------------------------------------------------------
(* The operations of each program.                                         *)

LEMMA MpiOps ==
  LET ops == Operations("mpi")
  IN  /\ Len(ops) = 6
      /\ ops[1] = "device" /\ ops[2] = "alloc" /\ ops[3] = "align" /\ ops[4] = "run"
      /\ ops[5] = "free" /\ ops[6] = "finalize"
BY DEF Operations, MpiSetup, Measured, MpiTeardown

LEMMA NcclOps ==
  LET ops == Operations("nccl")
  IN  /\ Len(ops) = 11
      /\ ops[1] = "device" /\ ops[2] = "stream" /\ ops[3] = "id" /\ ops[4] = "comm"
      /\ ops[5] = "alloc" /\ ops[6] = "align" /\ ops[7] = "run" /\ ops[8] = "free"
      /\ ops[9] = "commDestroy" /\ ops[10] = "streamDestroy" /\ ops[11] = "finalize"
BY DEF Operations, NcclSetup, Measured, NcclTeardown

LEMMA NcclMoeOps ==
  LET ops == Operations("nccl_moe")
  IN  /\ Len(ops) = 9
      /\ ops[1] = "device" /\ ops[2] = "stream" /\ ops[3] = "id" /\ ops[4] = "comm"
      /\ ops[5] = "align" /\ ops[6] = "run"
      /\ ops[7] = "commDestroy" /\ ops[8] = "streamDestroy" /\ ops[9] = "finalize"
BY DEF Operations, NcclMoeSetup, Measured, NcclMoeTeardown

LEMMA OneCclOps ==
  LET ops == Operations("oneccl")
  IN  /\ Len(ops) = 8
      /\ ops[1] = "device" /\ ops[2] = "id" /\ ops[3] = "comm" /\ ops[4] = "alloc"
      /\ ops[5] = "align" /\ ops[6] = "run" /\ ops[7] = "scopeEnd" /\ ops[8] = "finalize"
BY DEF Operations, OneCclSetup, Measured, OneCclTeardown

LEMMA OneCclMoeOps ==
  /\ Len(Operations("oneccl_moe")) = 8
  /\ Len(Operations("oneccl_moe_unsupported")) = 6
BY DEF Operations, OneCclMoeSetup, Measured, OneCclMoeTeardown

LEMMA NvshmemOps ==
  LET ops == Operations("nvshmem")
  IN  /\ Len(ops) = 10
      /\ ops[1] = "device" /\ ops[2] = "attach" /\ ops[3] = "layout" /\ ops[4] = "symAlloc"
      /\ ops[5] = "align" /\ ops[6] = "run" /\ ops[7] = "symFree" /\ ops[8] = "free"
      /\ ops[9] = "detach" /\ ops[10] = "finalize"
BY DEF Operations, NvshmemSetup, Measured, NvshmemTeardown

LEMMA NvshmemAlike == Operations("nvshmem_unchecked") = Operations("nvshmem")
BY DEF Operations

LEMMA OshmpiOps ==
  LET ops == Operations("oshmpi")
  IN  /\ Len(ops) = 8
      /\ ops[1] = "device" /\ ops[2] = "space" /\ ops[3] = "symAlloc" /\ ops[4] = "align"
      /\ ops[5] = "run" /\ ops[6] = "symFree" /\ ops[7] = "spaceDestroy"
      /\ ops[8] = "shmemFinalize"
BY DEF Operations, OshmpiSetup, Measured, OshmpiTeardown

LEMMA StagedOps ==
  LET ops == Operations("oshmpi_staged")
  IN  /\ Len(ops) = 8
      /\ ops[1] = "device" /\ ops[2] = "symAlloc" /\ ops[3] = "alloc" /\ ops[4] = "align"
      /\ ops[5] = "run" /\ ops[6] = "symFree" /\ ops[7] = "free" /\ ops[8] = "shmemFinalize"
BY DEF Operations, StagedSetup, Measured, StagedTeardown

(* The same operations for every routing.                                  *)
Entries(case) == {case[j] : j \in 1 .. Len(case)}

LEMMA CaseOps ==
  ASSUME NEW case, Len(case) \in Nat \ {0}
  PROVE  /\ PerRouting(case) \in Seq(Entries(case))
         /\ Len(PerRouting(case)) = Len(case) * Routings
         /\ \A i \in 1 .. Len(case) * Routings : PerRouting(case)[i] = case[((i - 1) % Len(case)) + 1]
<1> DEFINE n == Len(case)
<1>1. n * Routings \in Nat /\ Routings * n = n * Routings
  BY LifecycleAssumption, SMT
<1>2. \A i \in 1 .. n * Routings : ((i - 1) % n) + 1 \in 1 .. n
  <2>1. \A i \in Nat \ {0} : ((i - 1) % n) + 1 \in 1 .. n
    BY SMT
  <2> QED
    BY <1>1, <2>1, SMT
<1>3. PerRouting(case) = [i \in 1 .. n * Routings |-> case[((i - 1) % n) + 1]]
  BY <1>1 DEF PerRouting
<1>4. \A i \in 1 .. n * Routings : case[((i - 1) % n) + 1] \in Entries(case)
  BY <1>2 DEF Entries
<1> HIDE DEF n
<1>5. PerRouting(case) \in Seq(Entries(case)) /\ Len(PerRouting(case)) = n * Routings
  BY <1>1, <1>3, <1>4
<1> QED
  BY <1>3, <1>5 DEF n

LEMMA AroundTwo ==
  ASSUME NEW S, NEW r \in Seq(S), NEW a, NEW b, NEW y, NEW z
  PROVE  LET ops == <<a, b>> \o r \o <<y, z>>
         IN  /\ Len(ops) = Len(r) + 4
             /\ ops[1] = a /\ ops[2] = b
             /\ \A i \in 1 .. Len(r) : ops[i + 2] = r[i]
             /\ ops[Len(r) + 3] = y /\ ops[Len(r) + 4] = z
OBVIOUS

LEMMA AroundThree ==
  ASSUME NEW S, NEW r \in Seq(S), NEW a, NEW b, NEW c, NEW y, NEW z
  PROVE  LET ops == <<a, b, c>> \o r \o <<y, z>>
         IN  /\ Len(ops) = Len(r) + 5
             /\ ops[1] = a /\ ops[2] = b /\ ops[3] = c
             /\ \A i \in 1 .. Len(r) : ops[i + 3] = r[i]
             /\ ops[Len(r) + 4] = y /\ ops[Len(r) + 5] = z
OBVIOUS

LEMMA NvshmemMoeOps ==
  LET ops == Operations("nvshmem_moe")
  IN  /\ Len(ops) = 4 * Routings + 5
      /\ ops[1] = "device" /\ ops[2] = "attach" /\ ops[3] = "layout"
      /\ \A i \in 1 .. 4 * Routings :
           /\ (i - 1) % 4 = 0 => ops[i + 3] = "symAlloc"
           /\ (i - 1) % 4 = 1 => ops[i + 3] = "align"
           /\ (i - 1) % 4 = 2 => ops[i + 3] = "run"
           /\ (i - 1) % 4 = 3 => ops[i + 3] = "symFree"
      /\ ops[4 * Routings + 4] = "detach" /\ ops[4 * Routings + 5] = "finalize"
<1> DEFINE c == NvshmemMoeCase
           r == PerRouting(c)
<1>1. Operations("nvshmem_moe") = <<"device", "attach", "layout">> \o r \o <<"detach", "finalize">>
  BY DEF Operations, NvshmemMoeSetup, NvshmemMoeTeardown
<1>2. Len(c) = 4 /\ c[1] = "symAlloc" /\ c[2] = "align" /\ c[3] = "run" /\ c[4] = "symFree"
  BY DEF NvshmemMoeCase, Measured
<1>3. /\ r \in Seq(Entries(c)) /\ Len(r) = 4 * Routings
      /\ \A i \in 1 .. 4 * Routings : r[i] = c[((i - 1) % 4) + 1]
  <2> HIDE DEF c
  <2>1. Len(c) \in Nat \ {0}
    BY <1>2
  <2>2. /\ PerRouting(c) \in Seq(Entries(c)) /\ Len(PerRouting(c)) = Len(c) * Routings
        /\ \A i \in 1 .. Len(c) * Routings : PerRouting(c)[i] = c[((i - 1) % Len(c)) + 1]
    BY <2>1, CaseOps
  <2> QED
    BY <1>2, <2>2
<1>4. Routings \in Nat \ {0}
  BY LifecycleAssumption
<1> HIDE DEF c, r
<1> DEFINE w == <<"device", "attach", "layout">> \o r \o <<"detach", "finalize">>
<1>5. /\ Len(w) = Len(r) + 5
      /\ w[1] = "device" /\ w[2] = "attach" /\ w[3] = "layout"
      /\ \A i \in 1 .. Len(r) : w[i + 3] = r[i]
      /\ w[Len(r) + 4] = "detach" /\ w[Len(r) + 5] = "finalize"
  BY <1>3, AroundThree
<1>6. Operations("nvshmem_moe") = w
  BY <1>1
<1> HIDE DEF w
<1>7. \A i \in 1 .. 4 * Routings :
        /\ (i - 1) % 4 = 0 => r[i] = "symAlloc"
        /\ (i - 1) % 4 = 1 => r[i] = "align"
        /\ (i - 1) % 4 = 2 => r[i] = "run"
        /\ (i - 1) % 4 = 3 => r[i] = "symFree"
  BY <1>2, <1>3
<1>8. /\ Len(r) + 3 = 4 * Routings + 3 /\ Len(r) + 4 = 4 * Routings + 4
      /\ Len(r) + 5 = 4 * Routings + 5
  BY <1>3
<1> QED
  BY <1>3, <1>5, <1>6, <1>7, <1>8

LEMMA OshmpiMoeOps ==
  LET ops == Operations("oshmpi_moe")
  IN  /\ Len(ops) = 6 * Routings + 4
      /\ ops[1] = "device" /\ ops[2] = "symAlloc"
      /\ \A i \in 1 .. 6 * Routings :
           /\ (i - 1) % 6 = 0 => ops[i + 2] = "space"
           /\ (i - 1) % 6 = 1 => ops[i + 2] = "symAlloc"
           /\ (i - 1) % 6 = 2 => ops[i + 2] = "align"
           /\ (i - 1) % 6 = 3 => ops[i + 2] = "run"
           /\ (i - 1) % 6 = 4 => ops[i + 2] = "symFree"
           /\ (i - 1) % 6 = 5 => ops[i + 2] = "spaceDestroy"
      /\ ops[6 * Routings + 3] = "symFree" /\ ops[6 * Routings + 4] = "shmemFinalize"
<1> DEFINE c == OshmpiMoeCase
           r == PerRouting(c)
<1>1. Operations("oshmpi_moe") = <<"device", "symAlloc">> \o r \o <<"symFree", "shmemFinalize">>
  BY DEF Operations, OshmpiMoeSetup, OshmpiMoeTeardown
<1>2. /\ Len(c) = 6 /\ c[1] = "space" /\ c[2] = "symAlloc" /\ c[3] = "align" /\ c[4] = "run"
      /\ c[5] = "symFree" /\ c[6] = "spaceDestroy"
  BY DEF OshmpiMoeCase, Measured
<1>3. /\ r \in Seq(Entries(c)) /\ Len(r) = 6 * Routings
      /\ \A i \in 1 .. 6 * Routings : r[i] = c[((i - 1) % 6) + 1]
  <2> HIDE DEF c
  <2>1. Len(c) \in Nat \ {0}
    BY <1>2
  <2>2. /\ PerRouting(c) \in Seq(Entries(c)) /\ Len(PerRouting(c)) = Len(c) * Routings
        /\ \A i \in 1 .. Len(c) * Routings : PerRouting(c)[i] = c[((i - 1) % Len(c)) + 1]
    BY <2>1, CaseOps
  <2> QED
    BY <1>2, <2>2
<1>4. Routings \in Nat \ {0}
  BY LifecycleAssumption
<1> HIDE DEF c, r
<1> DEFINE w == <<"device", "symAlloc">> \o r \o <<"symFree", "shmemFinalize">>
<1>5. /\ Len(w) = Len(r) + 4
      /\ w[1] = "device" /\ w[2] = "symAlloc"
      /\ \A i \in 1 .. Len(r) : w[i + 2] = r[i]
      /\ w[Len(r) + 3] = "symFree" /\ w[Len(r) + 4] = "shmemFinalize"
  BY <1>3, AroundTwo
<1>6. Operations("oshmpi_moe") = w
  BY <1>1
<1> HIDE DEF w
<1>7. \A i \in 1 .. 6 * Routings :
        /\ (i - 1) % 6 = 0 => r[i] = "space"
        /\ (i - 1) % 6 = 1 => r[i] = "symAlloc"
        /\ (i - 1) % 6 = 2 => r[i] = "align"
        /\ (i - 1) % 6 = 3 => r[i] = "run"
        /\ (i - 1) % 6 = 4 => r[i] = "symFree"
        /\ (i - 1) % 6 = 5 => r[i] = "spaceDestroy"
  BY <1>2, <1>3
<1>8. Len(r) + 3 = 6 * Routings + 3 /\ Len(r) + 4 = 6 * Routings + 4
  BY <1>3
<1> QED
  BY <1>3, <1>5, <1>6, <1>7, <1>8

(* A program has finitely many operations.                                 *)
LEMMA OpsLen ==
  ASSUME program \in Programs
  PROVE  Len(Ops) \in Nat
<1>1. Routings \in Nat
  BY LifecycleAssumption
<1>2. /\ program \in {"mpi", "nccl", "nccl_moe", "oneccl", "oneccl_moe", "oneccl_moe_unsupported",
                      "nvshmem", "nvshmem_unchecked", "nvshmem_moe",
                      "oshmpi", "oshmpi_staged", "oshmpi_moe"}
  BY LifecycleAssumption DEF Nccl, OneCcl, Nvshmem, Oshmpi
<1>3. 4 * Routings + 5 \in Nat /\ 6 * Routings + 4 \in Nat
  BY <1>1, SMT
<1> QED
  BY <1>2, <1>3, MpiOps, NcclOps, NcclMoeOps, OneCclOps, OneCclMoeOps, NvshmemOps, NvshmemAlike,
     NvshmemMoeOps, OshmpiOps, StagedOps, OshmpiMoeOps DEF Ops

-----------------------------------------------------------------------------
(* What the operations set up and take down.                               *)

LEMMA Effects ==
  /\ \A op : op \notin {"stream", "id", "comm", "attach", "space"} => Creates(op) = {}
  /\ Creates("stream") = {"stream"} /\ Creates("attach") = {"heap"}
  /\ Creates("space") = {"space"}
  /\ program \in OneCcl => Creates("id") = {"kvs"} /\ Creates("comm") = {"comm", "stream"}
  /\ program \notin OneCcl => Creates("id") = {}
  /\ program \in Nccl => Creates("comm") = {"comm"}
  /\ \A op : op \notin {"commDestroy", "streamDestroy", "scopeEnd", "detach", "spaceDestroy"}
       => Releases(op) = {}
  /\ Releases("commDestroy") = {"comm"} /\ Releases("streamDestroy") = {"stream"}
  /\ Releases("scopeEnd") = {"kvs", "comm", "stream"}
  /\ Releases("detach") = {"heap"} /\ Releases("spaceDestroy") = {"space"}
BY DEF Creates, Releases, OneCcl, Nccl

(* Nothing lives if all that was set up has been taken down since.         *)
LEMMA NothingLeft ==
  ASSUME NEW i,
         \A j \in 1 .. i - 1 : \A o \in Creates(Ops[j]) :
            \E k \in j .. i - 1 : o \in Releases(Ops[k])
  PROVE  Live(i) = {}
BY DEF Live

(* An object set up and not taken down since lives.                        *)
LEMMA StillLive ==
  ASSUME NEW i, NEW o \in Objects, NEW j \in 1 .. i - 1, o \in Creates(Ops[j]),
         \A k \in j .. i - 1 : o \notin Releases(Ops[k])
  PROVE  o \in Live(i)
BY DEF Live

(* Where the status of the attach is ignored.                              *)
LEMMA UncheckedOps ==
  ASSUME IgnoresAttach
  PROVE  /\ Len(Ops) = 10
         /\ Ops[1] = "device" /\ Ops[2] = "attach" /\ Ops[3] = "layout"
         /\ \A i \in 1 .. 10 : (Ops[i] = "attach" => i = 2) /\ (Ops[i] = "run" => i = 6)
         /\ program \notin OneCcl /\ program \notin Nccl /\ program \in Nvshmem
<1>1. program = "nvshmem_unchecked"
  BY DEF IgnoresAttach
<1>2. Ops = Operations("nvshmem")
  BY <1>1, NvshmemAlike DEF Ops
<1>3. \A i \in 1 .. 10 : i = 1 \/ i = 2 \/ i = 3 \/ i = 4 \/ i = 5 \/ i = 6 \/ i = 7 \/ i = 8
                         \/ i = 9 \/ i = 10
  BY SMT
<1> QED
  BY <1>1, <1>2, <1>3, NvshmemOps DEF OneCcl, Nccl, Nvshmem

-----------------------------------------------------------------------------
(* The invariant is inductive.                                             *)

(* One more operation has returned.                                        *)
LEMMA LiveGrows ==
  ASSUME NEW i \in Nat \ {0}
  PROVE  /\ Live(i + 1) = (Live(i) \cup Creates(Ops[i])) \ Releases(Ops[i])
         /\ Kept(i + 1) = (Kept(i) \cup (Creates(Ops[i]) \cap Known)) \ SetBack(Ops[i])
<1>1. Creates(Ops[i]) \subseteq Objects
  BY DEF Creates, Objects
<1>2. /\ (i + 1) - 1 = i
      /\ \A j \in 1 .. i : j \in 1 .. i - 1 \/ j = i
      /\ \A j \in 1 .. i - 1 : j \in 1 .. i
      /\ i \in 1 .. i
  BY SMT
<1>3. \A j \in 1 .. i - 1 : i \in j .. i /\ \A k \in j .. i : k \in j .. i - 1 \/ k = i
  BY SMT
<1>4. \A j \in 1 .. i - 1 : \A k \in j .. i - 1 : k \in j .. i
  BY SMT
<1>5. \A k \in i .. i : k = i
  BY SMT
<1>6. ASSUME NEW o
      PROVE  o \in Live(i + 1) <=> o \in (Live(i) \cup Creates(Ops[i])) \ Releases(Ops[i])
  <2>1. ASSUME o \in Live(i + 1)
        PROVE  o \in (Live(i) \cup Creates(Ops[i])) \ Releases(Ops[i])
    <3>1. PICK j \in 1 .. i : o \in Creates(Ops[j]) /\ \A k \in j .. i : o \notin Releases(Ops[k])
      BY <1>2, <2>1 DEF Live
    <3>2. o \in Objects /\ o \notin Releases(Ops[i])
      BY <1>3, <2>1, <3>1, <1>2 DEF Live
    <3>3. CASE j = i
      BY <3>1, <3>2, <3>3
    <3>4. CASE j \in 1 .. i - 1
      BY <1>4, <3>1, <3>2, <3>4 DEF Live
    <3> QED
      BY <1>2, <3>3, <3>4
  <2>2. ASSUME o \in (Live(i) \cup Creates(Ops[i])) \ Releases(Ops[i])
        PROVE  o \in Live(i + 1)
    <3>1. CASE o \in Live(i)
      <4>1. PICK j \in 1 .. i - 1 : o \in Creates(Ops[j]) /\ \A k \in j .. i - 1 : o \notin Releases(Ops[k])
        BY <3>1 DEF Live
      <4>2. \A k \in j .. i : o \notin Releases(Ops[k])
        BY <1>3, <2>2, <4>1
      <4> QED
        BY <1>2, <3>1, <4>1, <4>2 DEF Live
    <3>2. CASE o \in Creates(Ops[i])
      <4>1. o \in Objects /\ \A k \in i .. i : o \notin Releases(Ops[k])
        BY <1>1, <1>5, <2>2, <3>2
      <4> QED
        BY <1>2, <3>2, <4>1 DEF Live
    <3> QED
      BY <2>2, <3>1, <3>2
  <2> QED
    BY <2>1, <2>2
<1>7. ASSUME NEW o
      PROVE  o \in Kept(i + 1) <=> o \in (Kept(i) \cup (Creates(Ops[i]) \cap Known)) \ SetBack(Ops[i])
  <2>1. ASSUME o \in Kept(i + 1)
        PROVE  o \in (Kept(i) \cup (Creates(Ops[i]) \cap Known)) \ SetBack(Ops[i])
    <3>1. PICK j \in 1 .. i : o \in Creates(Ops[j]) /\ \A k \in j .. i : o \notin SetBack(Ops[k])
      BY <1>2, <2>1 DEF Kept
    <3>2. o \in Known /\ o \notin SetBack(Ops[i])
      BY <1>3, <2>1, <3>1, <1>2 DEF Kept
    <3>3. CASE j = i
      BY <3>1, <3>2, <3>3
    <3>4. CASE j \in 1 .. i - 1
      BY <1>4, <3>1, <3>2, <3>4 DEF Kept
    <3> QED
      BY <1>2, <3>3, <3>4
  <2>2. ASSUME o \in (Kept(i) \cup (Creates(Ops[i]) \cap Known)) \ SetBack(Ops[i])
        PROVE  o \in Kept(i + 1)
    <3>1. CASE o \in Kept(i)
      <4>1. PICK j \in 1 .. i - 1 : o \in Creates(Ops[j]) /\ \A k \in j .. i - 1 : o \notin SetBack(Ops[k])
        BY <3>1 DEF Kept
      <4>2. \A k \in j .. i : o \notin SetBack(Ops[k])
        BY <1>3, <2>2, <4>1
      <4> QED
        BY <1>2, <3>1, <4>1, <4>2 DEF Kept
    <3>2. CASE o \in Creates(Ops[i]) \cap Known
      <4>1. \A k \in i .. i : o \notin SetBack(Ops[k])
        BY <1>5, <2>2
      <4> QED
        BY <1>2, <3>2, <4>1 DEF Kept
    <3> QED
      BY <2>2, <3>1, <3>2
  <2> QED
    BY <2>1, <2>2
<1> QED
  BY <1>6, <1>7

(* A rank whose attach fails has nothing, and its handler thinks it has.   *)
LEMMA AttachLost ==
  ASSUME LifecycleInv, NEW p \in PE, AttachFails(p)
  PROVE  /\ IgnoresAttach /\ at[p] = 2 /\ at'[p] = 3 /\ Lost(p)' /\ ~Lost(p)
         /\ handles'[p] = Kept(3)
<1>1. /\ IgnoresAttach /\ mode[p] = "try" /\ Ops[at[p]] = "attach" /\ at[p] <= Len(Ops)
      /\ at[p] \in Nat \ {0} /\ at \in [PE -> Nat \ {0}] /\ handles \in [PE -> SUBSET Objects]
      /\ at' = [at EXCEPT ![p] = at[p] + 1] /\ holds' = holds /\ program' = program
      /\ handles' = [handles EXCEPT ![p] = handles[p] \cup {"heap"}]
  BY DEF AttachFails, Running, Op, Ops, LifecycleInv, Positions, TypeOK
<1>2. at[p] \in 1 .. 10
  <2>1. Len(Ops) = 10
    BY <1>1, UncheckedOps
  <2> QED
    BY <1>1, <2>1, SMT
<1>3. at[p] = 2 /\ at'[p] = 3
  <2>1. at[p] = 2
    BY <1>1, <1>2, UncheckedOps
  <2>2. at'[p] = at[p] + 1
    BY <1>1
  <2> QED
    BY <2>1, <2>2
<1>4. ~Lost(p)
  BY <1>3 DEF Lost
<1>5. holds[p] = Live(2) /\ handles[p] = Kept(2)
  BY <1>1, <1>3, <1>4 DEF LifecycleInv, Accounted
<1>6. Live(2) = {}
  <2>1. \A j \in 1 .. 2 - 1 : j = 1
    BY SMT
  <2>2. Creates(Ops[1]) = {}
    BY <1>1, UncheckedOps, Effects
  <2> QED
    BY <2>1, <2>2, NothingLeft
<1>7. Kept(3) = Kept(2) \cup {"heap"}
  <2>1. /\ Creates(Ops[2]) = {"heap"} /\ Known = {"heap"} /\ SetBack(Ops[2]) = {}
    BY <1>1, UncheckedOps, Effects DEF Known, SetBack
  <2>2. 2 \in Nat \ {0} /\ 2 + 1 = 3
    OBVIOUS
  <2>3. Kept(3) = (Kept(2) \cup (Creates(Ops[2]) \cap Known)) \ SetBack(Ops[2])
    BY <2>2, LiveGrows
  <2> QED
    BY <2>1, <2>3
<1>8. IgnoresAttach' /\ "heap" \notin holds'[p]
  BY <1>1, <1>5, <1>6 DEF IgnoresAttach
<1> QED
  BY <1>1, <1>3, <1>4, <1>5, <1>7, <1>8 DEF Lost

LEMMA LifecycleInvInit == Init => LifecycleInv
<1> SUFFICES ASSUME Init
             PROVE  LifecycleInv
  OBVIOUS
<1>1. /\ program \in Programs
      /\ \A p \in PE : at[p] = 1 /\ mode[p] = "try" /\ holds[p] = {} /\ handles[p] = {}
  BY DEF Init
<1>2. TypeOK
  <2>1. Len(Operations(program)) \in Nat
    BY <1>1, OpsLen DEF Ops
  <2>2. 1 \in 1 .. Len(Operations(program)) + 1
    BY <2>1, SMT
  <2> QED
    BY <1>1, <2>2 DEF Init, TypeOK
<1>3. Together
  <2>1. \A i \in Nat \ {0} : ~(i < 1)
    BY SMT
  <2> QED
    BY <1>1, <2>1 DEF Together
<1>4. Live(1) = {} /\ Kept(1) = {}
  <2>1. 1 .. 1 - 1 = {}
    BY SMT
  <2> QED
    BY <2>1 DEF Live, Kept
<1> QED
  BY <1>1, <1>2, <1>3, <1>4 DEF Accounted, LifecycleInv, Positions, Init

(* A rank that is not in the try block stays where it is.                  *)
Stands ==
  /\ program' = program /\ at' = at /\ inside' = inside

LEMMA TogetherStands ==
  ASSUME Together, Stands, \A p \in PE : Lost(p) => Lost(p)'
  PROVE  Together'
BY DEF Together, Stands, Arrived, Ops

LEMMA LifecycleInvStep == LifecycleInv /\ [Next]_vars => LifecycleInv'
<1> SUFFICES ASSUME LifecycleInv, [Next]_vars
             PROVE  LifecycleInv'
  OBVIOUS
<1>0. /\ TypeOK /\ Together /\ Accounted
      /\ at \in [PE -> Nat \ {0}] /\ \A p \in PE : at[p] \in Nat \ {0}
  BY DEF LifecycleInv, Positions
<1>1. ASSUME NEW p \in PE, Begin(p)
      PROVE  LifecycleInv'
  <2>1. TypeOK'
    BY <1>0, <1>1 DEF Begin, TypeOK
  <2>2. Together'
    BY <1>0, <1>1 DEF Begin, Together, Arrived, Ops, TypeOK, Lost, IgnoresAttach
  <2>3. program' = program /\ UNCHANGED <<at, mode, holds, handles>>
    BY <1>1 DEF Begin
  <2>4. \A n : Live(n)' = Live(n) /\ Kept(n)' = Kept(n)
    BY <2>3 DEF Live, Kept, Ops, Creates, Releases, Known, SetBack
  <2>5. Accounted'
    BY <1>0, <2>3, <2>4 DEF Accounted, Op, Ops, Lost, IgnoresAttach, Checked
  <2>6. Positions'
    BY <1>0, <2>3 DEF Positions
  <2> QED
    BY <2>1, <2>2, <2>5, <2>6 DEF LifecycleInv
<1>2. ASSUME NEW p \in PE, Return(p)
      PROVE  LifecycleInv'
  <2> DEFINE i == at[p]
  <2>1. /\ program' = program /\ mode' = mode /\ aborting' = aborting
        /\ mode[p] = "try" /\ i <= Len(Operations(program))
        /\ at' = [at EXCEPT ![p] = i + 1]
        /\ inside' = [inside EXCEPT ![p] = FALSE]
        /\ holds' = [holds EXCEPT ![p] = (holds[p] \cup Creates(Ops[i])) \ Releases(Ops[i])]
        /\ handles' = [handles EXCEPT ![p] = (handles[p] \cup (Creates(Ops[i]) \cap Known)) \ SetBack(Ops[i])]
        /\ \A q \in WaitsFor(Ops[i]) : Arrived(q, i)
    BY <1>2 DEF Return, Running, Op, Ops
  <2>2. ~Lost(p) /\ \A q \in PE \ {p} : Lost(q) => Lost(q)'
    <3>1. ASSUME Lost(p)
          PROVE  FALSE
      <4>1. Op(p) = "layout" /\ Running(p) /\ IgnoresAttach /\ "heap" \notin holds[p]
        BY <1>2, <3>1, UncheckedOps DEF Lost, Op, Ops, Return
      <4> QED
        BY <1>2, <4>1 DEF Return, Detached
    <3>2. \A q \in PE \ {p} : at'[q] = at[q] /\ holds'[q] = holds[q]
      BY <1>0, <2>1 DEF TypeOK
    <3> QED
      BY <2>1, <3>1, <3>2 DEF Lost, IgnoresAttach
  <2>3. i \in Nat \ {0} /\ Len(Operations(program)) \in Nat
    BY <1>0, OpsLen DEF TypeOK, Ops
  <2>4. \A q \in PE : at'[q] = (IF q = p THEN i + 1 ELSE at[q]) /\ (q # p => inside'[q] = inside[q])
    <3>1. i + 1 \in 1 .. Len(Operations(program)) + 1
      BY <2>1, <2>3, SMT
    <3>2. \A q \in PE : at'[q] = IF q = p THEN i + 1 ELSE at[q]
      BY <1>0, <2>1
    <3> QED
      BY <1>0, <2>1, <3>2 DEF TypeOK
  <2>5. TypeOK'
    <3>1. \A q \in PE : at'[q] \in 1 .. Len(Operations(program')) + 1
      BY <1>0, <2>1, <2>3, <2>4, SMT DEF TypeOK
    <3>2. Creates(Ops[i]) \subseteq Objects
      BY DEF Creates, Objects
    <3>3. holds' \in [PE -> SUBSET Objects] /\ handles' \in [PE -> SUBSET Objects]
      BY <1>0, <2>1, <3>2 DEF TypeOK
    <3> QED
      BY <1>0, <2>1, <3>1, <3>3 DEF TypeOK
  <2>6. ASSUME NEW q \in PE, NEW j \in Nat \ {0}, Arrived(q, j)
        PROVE  Arrived(q, j)'
    BY <1>0, <2>3, <2>4, <2>6, SMT DEF Arrived
  <2>7. Together'
    <3> SUFFICES ASSUME NEW a \in PE, NEW q \in PE, NEW j \in Nat \ {0},
                        ~Lost(a)', j < at'[a], Ops[j] \in Collective
                 PROVE  Arrived(q, j)'
      BY <2>1 DEF Together, Ops
    <3>1. CASE j < at[a]
      <4>1. ~Lost(a)
        BY <2>2
      <4> QED
        BY <1>0, <2>6, <3>1, <4>1 DEF Together
    <3>2. CASE ~(j < at[a])
      <4>1. a = p /\ j = i
        BY <1>0, <2>3, <2>4, <3>2, SMT
      <4>2. Arrived(q, j)
        BY <2>1, <4>1 DEF WaitsFor
      <4> QED
        BY <2>6, <4>2
    <3> QED
      BY <3>1, <3>2
  <2>8. Accounted'
    <3>1. \A n : Live(n)' = Live(n) /\ Kept(n)' = Kept(n)
      BY <2>1 DEF Live, Kept, Ops, Creates, Releases, Known, SetBack
    <3>2. holds[p] = Live(i) /\ handles[p] = Kept(i)
      BY <1>0, <2>2, <2>1 DEF Accounted
    <3>3. holds'[p] = Live(i + 1) /\ handles'[p] = Kept(i + 1)
      BY <1>0, <2>1, <2>3, <3>2, LiveGrows DEF TypeOK
    <3>4. \A q \in PE \ {p} : holds'[q] = holds[q] /\ handles'[q] = handles[q]
      BY <1>0, <2>1 DEF TypeOK
    <3>5. mode'[p] = "try" /\ at'[p] = i + 1
      BY <2>1, <2>4
    <3> HIDE DEF i
    <3>6. \A q \in PE \ {p} : Op(q)' = Op(q) /\ at'[q] = at[q] /\ mode'[q] = mode[q]
      BY <2>1, <2>4 DEF Op
    <3>7. program' = program /\ Ops' = Ops /\ Checked' = Checked
      BY <2>1 DEF Ops, Checked, IgnoresAttach
    <3>8. ASSUME NEW q \in PE
          PROVE  /\ mode'[q] = "try" => Lost(q)' \/ holds'[q] = Live(at'[q])
                 /\ mode'[q] = "catch" =>
                      /\ Lost(q)' \/ holds'[q] = IF program \in OneCcl THEN {} ELSE Live(at'[q])
                      /\ at'[q] <= Len(Ops) /\ Op(q)' \in Checked
                 /\ mode'[q] \in {"try", "catch"} => handles'[q] = Kept(at'[q])
                 /\ mode'[q] = "abort" => program \in Nccl
      <4>1. CASE q = p
        BY <3>3, <3>5, <4>1
      <4>2. CASE q # p
        BY <1>0, <2>2, <3>4, <3>6, <4>2 DEF Accounted
      <4> QED
        BY <4>1, <4>2
    <3> QED
      BY <3>1, <3>7, <3>8 DEF Accounted
  <2>9. Positions'
    BY <1>0, <2>1, <2>3 DEF Positions
  <2> QED
    BY <2>5, <2>7, <2>8, <2>9 DEF LifecycleInv
<1>3. ASSUME NEW p \in PE, Throw(p)
      PROVE  LifecycleInv'
  <2>1. /\ Stands /\ handles' = handles /\ aborting' = aborting
        /\ mode[p] = "try" /\ at[p] <= Len(Ops) /\ Op(p) \in Checked
        /\ mode' = [mode EXCEPT ![p] = "catch"]
        /\ holds' = [holds EXCEPT ![p] = IF program \in OneCcl THEN {} ELSE holds[p]]
    BY <1>3 DEF Throw, Running, Stands, Ops
  <2>2. \A q \in PE : Lost(q) => Lost(q)'
    <3> SUFFICES ASSUME NEW q \in PE, Lost(q)
                 PROVE  Lost(q)'
      OBVIOUS
    <3>1. program \notin OneCcl
      BY UncheckedOps DEF Lost
    <3>2. holds'[q] = holds[q]
      BY <1>0, <2>1, <3>1 DEF TypeOK
    <3> QED
      BY <2>1, <3>2 DEF Lost, Stands, IgnoresAttach
  <2>3. TypeOK'
    BY <1>0, <2>1 DEF TypeOK, Stands
  <2>4. \A n : Live(n)' = Live(n) /\ Kept(n)' = Kept(n)
    BY <2>1 DEF Live, Kept, Ops, Creates, Releases, Known, SetBack, Stands
  <2>5. Accounted'
    BY <1>0, <2>1, <2>4, <2>2 DEF Accounted, Stands, TypeOK, Op, Ops, Checked, IgnoresAttach
  <2> QED
    BY <1>0, <2>1, <2>3, <2>5, <2>2, TogetherStands DEF LifecycleInv, Positions, Stands
<1>4. ASSUME NEW p \in PE, Exit(p) \/ GlobalExit(p) \/ MpiAbort(p) \/ Killed(p)
      PROVE  LifecycleInv'
  <2>1. /\ Stands /\ handles' = handles /\ holds' = holds /\ aborting' \in BOOLEAN
        /\ mode' = [mode EXCEPT ![p] = "gone"]
    BY <1>0, <1>4 DEF Exit, GlobalExit, MpiAbort, Killed, Stands, TypeOK
  <2>2. \A q \in PE : Lost(q) => Lost(q)'
    BY <2>1 DEF Lost, Stands, IgnoresAttach
  <2>3. TypeOK'
    BY <1>0, <2>1 DEF TypeOK, Stands
  <2>4. \A n : Live(n)' = Live(n) /\ Kept(n)' = Kept(n)
    BY <2>1 DEF Live, Kept, Ops, Creates, Releases, Known, SetBack, Stands
  <2>5. Accounted'
    BY <1>0, <2>1, <2>4, <2>2 DEF Accounted, Stands, TypeOK, Op, Ops, Checked, IgnoresAttach
  <2> QED
    BY <1>0, <2>1, <2>3, <2>5, <2>2, TogetherStands DEF LifecycleInv, Positions, Stands
<1>5. ASSUME NEW p \in PE, Cleanup(p)
      PROVE  LifecycleInv'
  <2>1. /\ Stands /\ handles' = handles /\ aborting' = aborting
        /\ mode' = [mode EXCEPT ![p] = "abort"] /\ program \in Nccl
        /\ holds' = [holds EXCEPT ![p] = holds[p] \ handles[p]]
    BY <1>5 DEF Cleanup, Stands
  <2>2. \A q \in PE : Lost(q) => Lost(q)'
    BY <2>1, UncheckedOps DEF Lost
  <2>3. TypeOK'
    BY <1>0, <2>1 DEF TypeOK, Stands
  <2>4. \A n : Live(n)' = Live(n) /\ Kept(n)' = Kept(n)
    BY <2>1 DEF Live, Kept, Ops, Creates, Releases, Known, SetBack, Stands
  <2>5. Accounted'
    BY <1>0, <2>1, <2>4, <2>2 DEF Accounted, Stands, TypeOK, Op, Ops, Checked, IgnoresAttach
  <2> QED
    BY <1>0, <2>1, <2>3, <2>5, <2>2, TogetherStands DEF LifecycleInv, Positions, Stands
<1>6. CASE UNCHANGED vars
  <2>1. Stands /\ UNCHANGED <<mode, holds, handles, aborting>>
    BY <1>6 DEF vars, Stands
  <2>2. \A q \in PE : Lost(q) => Lost(q)'
    BY <2>1 DEF Lost, Stands, IgnoresAttach
  <2>3. TypeOK'
    BY <1>0, <2>1 DEF TypeOK, Stands
  <2>4. \A n : Live(n)' = Live(n) /\ Kept(n)' = Kept(n)
    BY <2>1 DEF Live, Kept, Ops, Creates, Releases, Known, SetBack, Stands
  <2>5. Accounted'
    BY <1>0, <2>1, <2>4, <2>2 DEF Accounted, Stands, Op, Ops, Checked, IgnoresAttach
  <2> QED
    BY <1>0, <2>1, <2>3, <2>5, <2>2, TogetherStands DEF LifecycleInv, Positions, Stands
<1>7. ASSUME NEW p \in PE, AttachFails(p)
      PROVE  LifecycleInv'
  <2>1. /\ program' = program /\ mode' = mode /\ aborting' = aborting /\ holds' = holds
        /\ mode[p] = "try"
        /\ at' = [at EXCEPT ![p] = at[p] + 1]
        /\ inside' = [inside EXCEPT ![p] = FALSE]
        /\ handles' = [handles EXCEPT ![p] = handles[p] \cup {"heap"}]
    BY <1>7 DEF AttachFails, Running
  <2>2. /\ IgnoresAttach /\ at[p] = 2 /\ at'[p] = 3 /\ Lost(p)' /\ ~Lost(p)
        /\ handles'[p] = Kept(3)
    BY <1>7, AttachLost
  <2>3. \A q \in PE \ {p} : /\ at'[q] = at[q] /\ inside'[q] = inside[q]
                            /\ handles'[q] = handles[q] /\ Lost(q)' = Lost(q)
    BY <1>0, <2>1 DEF TypeOK, Lost, IgnoresAttach
  <2>4. TypeOK'
    <3>1. \A q \in PE : at'[q] \in 1 .. Len(Operations(program')) + 1
      <4>1. 3 \in 1 .. 10 + 1 /\ Len(Operations(program)) = 10
        BY <2>2, UncheckedOps DEF Ops
      <4> QED
        BY <1>0, <2>1, <2>2, <2>3, <4>1 DEF TypeOK
    <3> QED
      BY <1>0, <2>1, <3>1 DEF TypeOK, Objects
  <2>5. Together'
    <3> SUFFICES ASSUME NEW a \in PE, NEW q \in PE, NEW j \in Nat \ {0},
                        ~Lost(a)', j < at'[a], Ops[j] \in Collective
                 PROVE  Arrived(q, j)'
      BY <2>1 DEF Together, Ops
    <3>1. a # p /\ ~Lost(a) /\ j < at[a]
      BY <2>2, <2>3
    <3>2. Arrived(q, j)
      BY <1>0, <3>1 DEF Together
    <3>3. CASE q = p
      BY <2>2, <3>2, <3>3, SMT DEF Arrived
    <3>4. CASE q # p
      BY <2>3, <3>2, <3>4 DEF Arrived
    <3> QED
      BY <3>3, <3>4
  <2>6. Accounted'
    <3>1. \A n : Live(n)' = Live(n) /\ Kept(n)' = Kept(n)
      BY <2>1 DEF Live, Kept, Ops, Creates, Releases, Known, SetBack
    <3>2. \A q \in PE \ {p} : Op(q)' = Op(q)
      BY <2>1, <2>3 DEF Op
    <3>3. Ops' = Ops /\ Checked' = Checked
      BY <2>1 DEF Ops, Checked, IgnoresAttach
    <3>4. ASSUME NEW q \in PE
          PROVE  /\ mode[q] = "try" => Lost(q)' \/ holds[q] = Live(at'[q])
                 /\ mode[q] = "catch" =>
                      /\ Lost(q)' \/ holds[q] = IF program \in OneCcl THEN {} ELSE Live(at'[q])
                      /\ at'[q] <= Len(Ops) /\ Op(q)' \in Checked
                 /\ mode[q] \in {"try", "catch"} => handles'[q] = Kept(at'[q])
                 /\ mode[q] = "abort" => program \in Nccl
      <4>1. CASE q = p
        BY <2>1, <2>2, <4>1
      <4>2. CASE q # p
        BY <1>0, <2>3, <3>2, <4>2 DEF Accounted
      <4> QED
        BY <4>1, <4>2
    <3> QED
      BY <2>1, <3>1, <3>3, <3>4 DEF Accounted
  <2>7. Positions'
    BY <1>0, <2>1 DEF Positions
  <2> QED
    BY <2>4, <2>5, <2>6, <2>7 DEF LifecycleInv
<1> QED
  BY <1>1, <1>2, <1>3, <1>4, <1>5, <1>6, <1>7 DEF Next, RankStep, LayoutFails

(* What every program keeps: the ranks leave no collective operation that  *)
(* another has not begun, and what a rank holds follows from how far it    *)
(* has come.                                                               *)
THEOREM LifecycleInductive == Spec => []LifecycleInv
BY LifecycleInvInit, LifecycleInvStep, PTL DEF Spec

(* Every variable keeps its type, and no rank runs past its program.       *)
THEOREM LifecycleTypeCorrect == Spec => []TypeOK
<1>1. LifecycleInv => TypeOK
  BY DEF LifecycleInv
<1> QED
  BY <1>1, LifecycleInductive, PTL

-----------------------------------------------------------------------------
(* The handlers.                                                           *)

(* A handler touches only what lives, whichever ranks failed before, but   *)
(* for the two places that the property names: where an NCCL program other *)
(* than moe fails to destroy its stream, and where an NVSHMEM program that *)
(* ignores the status of its attach comes to the layout check without one. *)
THEOREM HandlersUseLiveObjectsHolds == Spec => []HandlersUseLiveObjects
<1>1. LifecycleInv => HandlersUseLiveObjects
  <2> SUFFICES ASSUME LifecycleInv, NEW p \in PE, mode[p] = "catch"
               PROVE  \/ handles[p] \subseteq holds[p]
                      \/ program = "nccl" /\ Op(p) = "streamDestroy"
                      \/ IgnoresAttach /\ Op(p) = "layout" /\ "heap" \notin holds[p]
    BY DEF HandlersUseLiveObjects
  <2>0. CASE Lost(p)
    BY <2>0, UncheckedOps DEF Lost, Op, Ops
  <2> SUFFICES ASSUME ~Lost(p)
               PROVE  handles[p] \subseteq holds[p] \/ (program = "nccl" /\ Op(p) = "streamDestroy")
    BY <2>0
  <2>1. /\ holds[p] = IF program \in OneCcl THEN {} ELSE Live(at[p])
        /\ at[p] <= Len(Ops) /\ Ops[at[p]] \in Checked /\ handles[p] = Kept(at[p])
        /\ Op(p) = Ops[at[p]] /\ at[p] \in Nat \ {0}
    BY DEF LifecycleInv, Accounted, Positions, Op, Ops
  <2>2. CASE program \in OneCcl
    <3>1. Known = {}
      BY <2>2 DEF Known, OneCcl, Nccl, Nvshmem
    <3> QED
      BY <2>1, <3>1 DEF Kept
  <2>3. CASE program \notin OneCcl /\ program # "nccl"
    <3>1. Known \subseteq Objects
      BY DEF Known, Objects
    <3>2. \A op : SetBack(op) = Releases(op)
      BY <2>3 DEF SetBack
    <3>3. Kept(at[p]) \subseteq Live(at[p])
      BY <3>1, <3>2 DEF Kept, Live
    <3> QED
      BY <2>1, <2>3, <3>3
  <2>4. CASE program = "nccl"
    <3>1. Ops = Operations("nccl")
      BY <2>4 DEF Ops
    <3>2. at[p] \in 1 .. 11
      BY <2>1, <3>1, NcclOps, SMT
    <3>3. Ops[11] \notin Checked /\ Ops[10] = "streamDestroy"
      BY <3>1, NcclOps DEF Checked
    <3>4. CASE at[p] = 10
      BY <2>1, <2>4, <3>3, <3>4
    <3>5. CASE at[p] <= 9
      <4>1. \A k \in 1 .. at[p] - 1 : k \in 1 .. 8
        BY <2>1, <3>5, SMT
      <4>2. \A k \in 1 .. 8 : Releases(Ops[k]) = {}
        <5>1. \A k \in 1 .. 8 : k = 1 \/ k = 2 \/ k = 3 \/ k = 4 \/ k = 5 \/ k = 6 \/ k = 7 \/ k = 8
          BY SMT
        <5> QED
          BY <3>1, <5>1, NcclOps, Effects
      <4>3. \A j \in 1 .. at[p] - 1 : \A k \in j .. at[p] - 1 : k \in 1 .. at[p] - 1
        BY <2>1, SMT
      <4>4. Known \subseteq Objects
        BY DEF Known, Objects
      <4>5. Kept(at[p]) \subseteq Live(at[p])
        BY <4>1, <4>2, <4>3, <4>4 DEF Kept, Live
      <4>6. "nccl" \notin OneCcl
        BY DEF OneCcl
      <4> QED
        BY <2>1, <2>4, <4>5, <4>6
    <3>6. at[p] # 11
      BY <2>1, <3>3
    <3> QED
      BY <3>2, <3>4, <3>5, <3>6, SMT
  <2> QED
    BY <2>2, <2>3, <2>4
<1> QED
  BY <1>1, LifecycleInductive, PTL

-----------------------------------------------------------------------------
(* The way out.                                                            *)

(* Where a program comes to its finalize it has taken down what it set up, *)
(* but for oneCCL's moe.                                                   *)
LEMMA FinalizesWithNothing ==
  ASSUME program \in Programs, program \notin OneCcl \ {"oneccl"},
         NEW i \in 1 .. Len(Ops), Ops[i] \in {"finalize", "shmemFinalize"}
  PROVE  Live(i) = {}
<1>1. /\ Routings \in Nat \ {0}
      /\ program \in {"mpi", "nccl", "nccl_moe", "oneccl", "nvshmem", "nvshmem_unchecked",
                      "nvshmem_moe", "oshmpi", "oshmpi_staged", "oshmpi_moe"}
  BY LifecycleAssumption DEF Nccl, OneCcl, Nvshmem, Oshmpi
<1>2. CASE program \in {"mpi", "oshmpi_staged"}
  <2>1. \A j \in 1 .. Len(Ops) : Creates(Ops[j]) = {}
    <3>1. Len(Operations("mpi")) = 6 /\ Len(Operations("oshmpi_staged")) = 8
      BY MpiOps, StagedOps
    <3>2. \A j \in 1 .. 8 : j = 1 \/ j = 2 \/ j = 3 \/ j = 4 \/ j = 5 \/ j = 6 \/ j = 7 \/ j = 8
      BY SMT
    <3>3. \A j \in 1 .. 6 : j = 1 \/ j = 2 \/ j = 3 \/ j = 4 \/ j = 5 \/ j = 6
      BY SMT
    <3>4. CASE program = "mpi"
      BY <3>1, <3>3, <3>4, MpiOps, Effects DEF Ops
    <3>5. CASE program = "oshmpi_staged"
      BY <3>1, <3>2, <3>5, StagedOps, Effects DEF Ops
    <3> QED
      BY <1>2, <3>4, <3>5
  <2>2. \A j \in 1 .. i - 1 : j \in 1 .. Len(Ops)
    BY OpsLen, SMT
  <2> QED
    BY <2>1, <2>2, NothingLeft
<1>3. CASE program \in {"nccl", "nccl_moe"}
  <2>1. ASSUME NEW c \in Nat, 4 < c, i = c + 2, Ops[2] = "stream", Ops[4] = "comm",
               Ops[c] = "commDestroy", Ops[c + 1] = "streamDestroy",
               \A j \in 1 .. i - 1 : j # 2 /\ j # 4 => Creates(Ops[j]) = {}
        PROVE  Live(i) = {}
    <3>1. program \in Nccl
      BY <1>3 DEF Nccl
    <3>2. Creates(Ops[2]) = {"stream"} /\ Creates(Ops[4]) = {"comm"}
      BY <2>1, <3>1, Effects
    <3>3. Releases(Ops[c]) = {"comm"} /\ Releases(Ops[c + 1]) = {"stream"}
      BY <2>1, Effects
    <3>4. c \in 4 .. i - 1 /\ c + 1 \in 2 .. i - 1
      BY <2>1, SMT
    <3>5. \A j \in 1 .. i - 1 : \A o \in Creates(Ops[j]) :
                                 (j = 2 /\ o = "stream") \/ (j = 4 /\ o = "comm")
      <4>1. \A j \in 1 .. i - 1 : j # 2 /\ j # 4 => Creates(Ops[j]) = {}
        BY <2>1
      <4> QED
        BY <3>2, <4>1
    <3> QED
      BY <3>3, <3>4, <3>5, NothingLeft
  <2>2. CASE program = "nccl"
    <3>1. \A j \in 1 .. 10 : j = 1 \/ j = 2 \/ j = 3 \/ j = 4 \/ j = 5 \/ j = 6 \/ j = 7 \/ j = 8
                             \/ j = 9 \/ j = 10
      BY SMT
    <3>2. \A j \in 1 .. 10 : (j # 2 /\ j # 4 => Creates(Ops[j]) = {})
                             /\ Ops[j] \notin {"finalize", "shmemFinalize"}
      <4>1. "nccl" \notin OneCcl
        BY DEF OneCcl
      <4> QED
        BY <2>2, <3>1, <4>1, NcclOps, Effects DEF Ops
    <3>3. i = 11
      <4>1. i \in 1 .. 11
        BY <2>2, NcclOps DEF Ops
      <4>2. i \notin 1 .. 10
        BY <3>2
      <4> QED
        BY <4>1, <4>2, SMT
    <3>4. \A j \in 1 .. 11 - 1 : j \in 1 .. 10
      BY SMT
    <3>5. Ops[2] = "stream" /\ Ops[4] = "comm" /\ Ops[9] = "commDestroy" /\ Ops[9 + 1] = "streamDestroy"
      BY <2>2, NcclOps DEF Ops
    <3>6. \A j \in 1 .. i - 1 : j \in 1 .. 10
      BY <3>3, <3>4
    <3>7. \A j \in 1 .. i - 1 : j # 2 /\ j # 4 => Creates(Ops[j]) = {}
      BY <3>2, <3>6
    <3>8. 9 \in Nat /\ 4 < 9 /\ i = 9 + 2
      BY <3>3, SMT
    <3> QED
      BY <2>1, <3>5, <3>7, <3>8, Zenon
  <2>3. CASE program = "nccl_moe"
    <3>1. \A j \in 1 .. 8 : j = 1 \/ j = 2 \/ j = 3 \/ j = 4 \/ j = 5 \/ j = 6 \/ j = 7 \/ j = 8
      BY SMT
    <3>2. \A j \in 1 .. 8 : (j # 2 /\ j # 4 => Creates(Ops[j]) = {})
                            /\ Ops[j] \notin {"finalize", "shmemFinalize"}
      <4>1. "nccl_moe" \notin OneCcl
        BY DEF OneCcl
      <4> QED
        BY <2>3, <3>1, <4>1, NcclMoeOps, Effects DEF Ops
    <3>3. i = 9
      <4>1. i \in 1 .. 9
        BY <2>3, NcclMoeOps DEF Ops
      <4>2. i \notin 1 .. 8
        BY <3>2
      <4> QED
        BY <4>1, <4>2, SMT
    <3>4. \A j \in 1 .. 9 - 1 : j \in 1 .. 8
      BY SMT
    <3>5. Ops[2] = "stream" /\ Ops[4] = "comm" /\ Ops[7] = "commDestroy" /\ Ops[7 + 1] = "streamDestroy"
      BY <2>3, NcclMoeOps DEF Ops
    <3>6. \A j \in 1 .. i - 1 : j \in 1 .. 8
      BY <3>3, <3>4
    <3>7. \A j \in 1 .. i - 1 : j # 2 /\ j # 4 => Creates(Ops[j]) = {}
      BY <3>2, <3>6
    <3>8. 7 \in Nat /\ 4 < 7 /\ i = 7 + 2
      BY <3>3, SMT
    <3> QED
      BY <2>1, <3>5, <3>7, <3>8, Zenon
  <2> QED
    BY <1>3, <2>2, <2>3
<1>4. CASE program = "oneccl"
  <2>1. \A j \in 1 .. 7 : j = 1 \/ j = 2 \/ j = 3 \/ j = 4 \/ j = 5 \/ j = 6 \/ j = 7
    BY SMT
  <2>2. \A j \in 1 .. 7 : Ops[j] \notin {"finalize", "shmemFinalize"}
    BY <1>4, <2>1, OneCclOps DEF Ops
  <2>3. i = 8
    <3>1. i \in 1 .. 8
      BY <1>4, OneCclOps DEF Ops
    <3>2. i \notin 1 .. 7
      BY <2>2
    <3> QED
      BY <3>1, <3>2, SMT
  <2>4. \A j \in 1 .. 6 : Creates(Ops[j]) \subseteq {"kvs", "comm", "stream"}
    <3>1. "oneccl" \in OneCcl
      BY DEF OneCcl
    <3>2. \A j \in 1 .. 6 : j = 1 \/ j = 2 \/ j = 3 \/ j = 4 \/ j = 5 \/ j = 6
      BY SMT
    <3> QED
      BY <1>4, <3>1, <3>2, OneCclOps, Effects DEF Ops
  <2>5. Creates(Ops[7]) = {} /\ Releases(Ops[7]) = {"kvs", "comm", "stream"}
    BY <1>4, OneCclOps, Effects DEF Ops
  <2>6. \A j \in 1 .. i - 1 : (j = 7 \/ j \in 1 .. 6) /\ 7 \in j .. i - 1
    BY <2>3, SMT
  <2> QED
    BY <2>4, <2>5, <2>6, NothingLeft
<1>5. CASE program \in {"nvshmem", "nvshmem_unchecked"}
  <2>0. Ops = Operations("nvshmem")
    BY <1>5, NvshmemAlike DEF Ops
  <2>1. \A j \in 1 .. 9 : j = 1 \/ j = 2 \/ j = 3 \/ j = 4 \/ j = 5 \/ j = 6 \/ j = 7 \/ j = 8 \/ j = 9
    BY SMT
  <2>2. \A j \in 1 .. 9 : (j # 2 => Creates(Ops[j]) = {}) /\ Ops[j] \notin {"finalize", "shmemFinalize"}
    BY <2>0, <2>1, NvshmemOps, Effects
  <2>3. i = 10
    <3>1. i \in 1 .. 10
      BY <2>0, NvshmemOps
    <3>2. i \notin 1 .. 9
      BY <2>2
    <3> QED
      BY <3>1, <3>2, SMT
  <2>4. Creates(Ops[2]) = {"heap"} /\ Releases(Ops[9]) = {"heap"}
    BY <2>0, NvshmemOps, Effects
  <2>5. (\A j \in 1 .. i - 1 : j \in 1 .. 9) /\ 9 \in 2 .. i - 1
    BY <2>3, SMT
  <2> QED
    BY <2>2, <2>4, <2>5, NothingLeft
<1>6. CASE program = "oshmpi"
  <2>1. \A j \in 1 .. 7 : j = 1 \/ j = 2 \/ j = 3 \/ j = 4 \/ j = 5 \/ j = 6 \/ j = 7
    BY SMT
  <2>2. \A j \in 1 .. 7 : (j # 2 => Creates(Ops[j]) = {}) /\ Ops[j] \notin {"finalize", "shmemFinalize"}
    BY <1>6, <2>1, OshmpiOps, Effects DEF Ops
  <2>3. i = 8
    <3>1. i \in 1 .. 8
      BY <1>6, OshmpiOps DEF Ops
    <3>2. i \notin 1 .. 7
      BY <2>2
    <3> QED
      BY <3>1, <3>2, SMT
  <2>4. Creates(Ops[2]) = {"space"} /\ Releases(Ops[7]) = {"space"}
    BY <1>6, OshmpiOps, Effects DEF Ops
  <2>5. (\A j \in 1 .. i - 1 : j \in 1 .. 7) /\ 7 \in 2 .. i - 1
    BY <2>3, SMT
  <2> QED
    BY <2>2, <2>4, <2>5, NothingLeft
<1>7. CASE program = "nvshmem_moe"
  <2>1. /\ Ops = Operations("nvshmem_moe")
        /\ \A j \in 1 .. 3 : j = 1 \/ j = 2 \/ j = 3
    BY <1>7, SMT DEF Ops
  <2>2. \A m \in 1 .. 4 * Routings : Ops[m + 3] \in {"symAlloc", "align", "run", "symFree"}
    <3>1. \A m \in 1 .. 4 * Routings :
            (m - 1) % 4 = 0 \/ (m - 1) % 4 = 1 \/ (m - 1) % 4 = 2 \/ (m - 1) % 4 = 3
      BY <1>1, SMT
    <3> QED
      BY <2>1, <3>1, NvshmemMoeOps
  <2>3. \A j \in 4 .. 4 * Routings + 3 : Ops[j] \in {"symAlloc", "align", "run", "symFree"}
    <3>1. \A j \in 4 .. 4 * Routings + 3 : j - 3 \in 1 .. 4 * Routings /\ (j - 3) + 3 = j
      BY <1>1, SMT
    <3> QED
      BY <2>2, <3>1
  <2>4. \A j \in 1 .. 4 * Routings + 4 : j \in 1 .. 3 \/ j \in 4 .. 4 * Routings + 3 \/ j = 4 * Routings + 4
    BY <1>1, SMT
  <2>5. \A j \in 1 .. 4 * Routings + 4 :
          (j # 2 => Creates(Ops[j]) = {}) /\ Ops[j] \notin {"finalize", "shmemFinalize"}
    BY <2>1, <2>3, <2>4, NvshmemMoeOps, Effects
  <2>6. i = 4 * Routings + 5
    <3>1. i \in 1 .. 4 * Routings + 5
      BY <2>1, NvshmemMoeOps
    <3>2. i \notin 1 .. 4 * Routings + 4
      BY <2>5
    <3> QED
      BY <1>1, <3>1, <3>2, SMT
  <2>7. Creates(Ops[2]) = {"heap"} /\ Releases(Ops[4 * Routings + 4]) = {"heap"}
    BY <2>1, NvshmemMoeOps, Effects
  <2>8. (\A j \in 1 .. i - 1 : j \in 1 .. 4 * Routings + 4) /\ 4 * Routings + 4 \in 2 .. i - 1
    BY <1>1, <2>6, SMT
  <2> QED
    BY <2>5, <2>7, <2>8, NothingLeft
<1>8. CASE program = "oshmpi_moe"
  <2>1. Ops = Operations("oshmpi_moe")
    BY <1>8 DEF Ops
  <2>2. ASSUME NEW m \in 1 .. 6 * Routings
        PROVE  /\ Ops[m + 2] \notin {"finalize", "shmemFinalize"}
               /\ (m - 1) % 6 = 0 => Creates(Ops[m + 2]) = {"space"}
               /\ (m - 1) % 6 = 5 => Releases(Ops[m + 2]) = {"space"}
               /\ (m - 1) % 6 # 0 => Creates(Ops[m + 2]) = {}
    <3>1. \/ (m - 1) % 6 = 0 \/ (m - 1) % 6 = 1 \/ (m - 1) % 6 = 2
          \/ (m - 1) % 6 = 3 \/ (m - 1) % 6 = 4 \/ (m - 1) % 6 = 5
      BY <1>1, SMT
    <3>2. /\ (m - 1) % 6 = 0 => Ops[m + 2] = "space"
          /\ (m - 1) % 6 = 1 => Ops[m + 2] = "symAlloc"
          /\ (m - 1) % 6 = 2 => Ops[m + 2] = "align"
          /\ (m - 1) % 6 = 3 => Ops[m + 2] = "run"
          /\ (m - 1) % 6 = 4 => Ops[m + 2] = "symFree"
          /\ (m - 1) % 6 = 5 => Ops[m + 2] = "spaceDestroy"
      BY <2>1, OshmpiMoeOps
    <3> QED
      BY <3>1, <3>2, Effects
  <2>3. \A j \in 1 .. 6 * Routings + 3 :
          j = 1 \/ j = 2 \/ j = 6 * Routings + 3 \/ (j - 2 \in 1 .. 6 * Routings /\ (j - 2) + 2 = j)
    BY <1>1, SMT
  <2>4. /\ Ops[1] = "device" /\ Ops[2] = "symAlloc" /\ Ops[6 * Routings + 3] = "symFree"
        /\ Len(Ops) = 6 * Routings + 4
    BY <2>1, OshmpiMoeOps
  <2>5. i = 6 * Routings + 4
    <3>1. \A j \in 1 .. 6 * Routings + 3 : Ops[j] \notin {"finalize", "shmemFinalize"}
      BY <2>2, <2>3, <2>4
    <3>2. i \notin 1 .. 6 * Routings + 3
      BY <3>1
    <3> QED
      BY <1>1, <2>4, <3>2, SMT
  <2>6. ASSUME NEW j \in 1 .. i - 1, NEW o \in Creates(Ops[j])
        PROVE  \E k \in j .. i - 1 : o \in Releases(Ops[k])
    <3>1. j \in 1 .. 6 * Routings + 3
      BY <1>1, <2>5, SMT
    <3> DEFINE m == j - 2
    <3>2. j # 1 /\ j # 2 /\ j # 6 * Routings + 3
      BY <2>4, <2>6, Effects
    <3>3. m \in 1 .. 6 * Routings /\ m + 2 = j
      BY <2>3, <3>1, <3>2
    <3> HIDE DEF m
    <3>4. (m - 1) % 6 = 0 /\ o = "space"
      BY <2>2, <2>6, <3>3
    <3>5. m + 5 \in 1 .. 6 * Routings /\ ((m + 5) - 1) % 6 = 5
      BY <1>1, <3>3, <3>4, SMT
    <3>6. (m + 5) + 2 \in j .. i - 1
      BY <1>1, <2>5, <3>3, <3>5, SMT
    <3>7. Releases(Ops[(m + 5) + 2]) = {"space"}
      BY <2>2, <3>5
    <3> QED
      BY <3>4, <3>6, <3>7
  <2> QED
    BY <2>6, NothingLeft
<1> QED
  BY <1>1, <1>2, <1>3, <1>4, <1>5, <1>6, <1>7, <1>8

(* No rank enters MPI_Finalize or shmem_finalize with anything left that   *)
(* needs what is finalized, except in oneCCL's moe, however many ranks and *)
(* routing cases there are.                                                *)
THEOREM ReleasedBeforeFinalizeHolds == Spec => []ReleasedBeforeFinalize
<1>1. LifecycleInv => ReleasedBeforeFinalize
  <2> SUFFICES ASSUME LifecycleInv, NEW p \in PE, Finalizing(p), program \notin OneCcl \ {"oneccl"}
               PROVE  holds[p] = {}
    BY DEF ReleasedBeforeFinalize
  <2>1. mode[p] = "try" /\ at[p] <= Len(Ops) /\ Ops[at[p]] \in {"finalize", "shmemFinalize"}
    BY DEF Finalizing, Running, Op, Ops
  <2>2. program \in Programs /\ at[p] \in Nat \ {0} /\ holds[p] = Live(at[p])
    <3>1. program \in Programs /\ at[p] \in Nat \ {0} /\ (Lost(p) \/ holds[p] = Live(at[p]))
      BY <2>1 DEF LifecycleInv, TypeOK, Positions, Accounted
    <3>2. ~Lost(p)
      BY <2>1, UncheckedOps DEF Lost
    <3> QED
      BY <3>1, <3>2
  <2>3. at[p] \in 1 .. Len(Ops)
    BY <2>1, <2>2, OpsLen, SMT
  <2> QED
    BY <2>1, <2>2, <2>3, FinalizesWithNothing
<1> QED
  BY <1>1, LifecycleInductive, PTL

-----------------------------------------------------------------------------
(* The measured part.                                                      *)

(* In the measured part of a one-sided program, and in the operations on   *)
(* either side of it, the heap or the space lives; both are collective.    *)
LEMMA RunIsSurrounded ==
  ASSUME program \in {"nvshmem", "nvshmem_unchecked", "nvshmem_moe", "oshmpi", "oshmpi_moe"},
         NEW i \in 1 .. Len(Ops), Ops[i] = "run"
  PROVE  /\ i - 1 \in Nat \ {0}
         /\ Ops[i - 1] = "align" /\ Ops[i + 1] = "symFree"
         /\ \A k \in i - 1 .. i + 1 : Shared \subseteq Live(k)
<1>1. Routings \in Nat \ {0}
  BY LifecycleAssumption
<1>2. ASSUME NEW o \in Objects, NEW j \in Nat \ {0}, j < i - 1, o \in Creates(Ops[j]),
             \A k \in j .. i : o \notin Releases(Ops[k]), i \in Nat
      PROVE  \A k \in i - 1 .. i + 1 : o \in Live(k)
  <2> SUFFICES ASSUME NEW k \in i - 1 .. i + 1
               PROVE  o \in Live(k)
    OBVIOUS
  <2>1. j \in 1 .. k - 1 /\ \A l \in j .. k - 1 : l \in j .. i
    BY <1>2, SMT
  <2> QED
    BY <1>2, <2>1, StillLive
<1>3. CASE program \in {"nvshmem", "nvshmem_unchecked"}
  <2>1. \A j \in 1 .. 10 : j = 1 \/ j = 2 \/ j = 3 \/ j = 4 \/ j = 5 \/ j = 6 \/ j = 7 \/ j = 8
                           \/ j = 9 \/ j = 10
    BY SMT
  <2>2. Ops = Operations("nvshmem")
    BY <1>3, NvshmemAlike DEF Ops
  <2>3. i = 6
    BY <2>1, <2>2, NvshmemOps
  <2>4. \A j \in 1 .. 10 : j \in 2 .. i => Releases(Ops[j]) = {}
    <3>1. \A j \in 2 .. i : j = 2 \/ j = 3 \/ j = 4 \/ j = 5 \/ j = 6
      BY <2>3, SMT
    <3> QED
      BY <2>2, <3>1, NvshmemOps, Effects
  <2>5. Creates(Ops[2]) = {"heap"} /\ Shared = {"heap"} /\ "heap" \in Objects
    BY <1>3, <2>2, NvshmemOps, Effects DEF Shared, Nvshmem, Objects
  <2>6. \A j \in 2 .. i : j \in 1 .. 10
    BY <2>3, SMT
  <2>7. \A k \in i - 1 .. i + 1 : "heap" \in Live(k)
    BY <1>2, <2>3, <2>4, <2>5, <2>6
  <2>8. i - 1 = 5 /\ i + 1 = 7
    BY <2>3
  <2> QED
    BY <2>2, <2>5, <2>7, <2>8, NvshmemOps
<1>4. CASE program = "oshmpi"
  <2>1. \A j \in 1 .. 8 : j = 1 \/ j = 2 \/ j = 3 \/ j = 4 \/ j = 5 \/ j = 6 \/ j = 7 \/ j = 8
    BY SMT
  <2>2. Ops = Operations("oshmpi")
    BY <1>4 DEF Ops
  <2>3. i = 5
    BY <2>1, <2>2, OshmpiOps
  <2>4. \A j \in 2 .. i : Releases(Ops[j]) = {}
    <3>1. \A j \in 2 .. i : j = 2 \/ j = 3 \/ j = 4 \/ j = 5
      BY <2>3, SMT
    <3> QED
      BY <2>2, <3>1, OshmpiOps, Effects
  <2>5. Creates(Ops[2]) = {"space"} /\ Shared = {"space"} /\ "space" \in Objects
    BY <1>4, <2>2, OshmpiOps, Effects DEF Shared, Nvshmem, Objects
  <2>6. \A k \in i - 1 .. i + 1 : "space" \in Live(k)
    BY <1>2, <2>3, <2>4, <2>5
  <2>7. i - 1 = 4 /\ i + 1 = 6
    BY <2>3
  <2> QED
    BY <2>2, <2>5, <2>6, <2>7, OshmpiOps
<1>5. CASE program = "nvshmem_moe"
  <2>1. /\ Ops = Operations("nvshmem_moe") /\ Len(Ops) = 4 * Routings + 5
        /\ Ops[1] = "device" /\ Ops[2] = "attach" /\ Ops[3] = "layout"
        /\ Ops[4 * Routings + 4] = "detach" /\ Ops[4 * Routings + 5] = "finalize"
    BY <1>5, NvshmemMoeOps DEF Ops
  <2>2. \A j \in 1 .. 4 * Routings + 5 :
          \/ j = 1 \/ j = 2 \/ j = 3 \/ j = 4 * Routings + 4 \/ j = 4 * Routings + 5
          \/ j - 3 \in 1 .. 4 * Routings /\ (j - 3) + 3 = j
    BY <1>1, SMT
  <2>3. ASSUME NEW m \in 1 .. 4 * Routings
        PROVE  /\ (m - 1) % 4 = 0 => Ops[m + 3] = "symAlloc"
               /\ (m - 1) % 4 = 1 => Ops[m + 3] = "align"
               /\ (m - 1) % 4 = 2 => Ops[m + 3] = "run"
               /\ (m - 1) % 4 = 3 => Ops[m + 3] = "symFree"
               /\ (m - 1) % 4 = 0 \/ (m - 1) % 4 = 1 \/ (m - 1) % 4 = 2 \/ (m - 1) % 4 = 3
    <3>1. (m - 1) % 4 = 0 \/ (m - 1) % 4 = 1 \/ (m - 1) % 4 = 2 \/ (m - 1) % 4 = 3
      BY <1>1, SMT
    <3> QED
      BY <2>1, <3>1, NvshmemMoeOps
  <2> DEFINE m == i - 3
  <2>4. m \in 1 .. 4 * Routings /\ m + 3 = i
    BY <2>1, <2>2
  <2> HIDE DEF m
  <2>5. (m - 1) % 4 = 2
    BY <2>3, <2>4
  <2>6. /\ m - 1 \in 1 .. 4 * Routings /\ ((m - 1) - 1) % 4 = 1
        /\ m + 1 \in 1 .. 4 * Routings /\ ((m + 1) - 1) % 4 = 3
    BY <1>1, <2>4, <2>5, SMT
  <2>7. Ops[(m - 1) + 3] = "align" /\ Ops[(m + 1) + 3] = "symFree"
    BY <2>3, <2>6
  <2>8. (m - 1) + 3 = i - 1 /\ (m + 1) + 3 = i + 1 /\ i - 1 \in Nat \ {0} /\ 2 < i - 1 /\ i \in Nat
    BY <1>1, <2>4, <2>6, SMT
  <2>9. \A j \in 2 .. i : Releases(Ops[j]) = {}
    <3>1. \A j \in 2 .. i : j \in 1 .. 4 * Routings + 5 /\ j # 4 * Routings + 4 /\ j # 4 * Routings + 5 /\ j # 1
      BY <1>1, <2>4, SMT
    <3>2. ASSUME NEW j \in 2 .. i
          PROVE  Ops[j] \in {"attach", "layout", "symAlloc", "align", "run", "symFree"}
      <4>1. CASE j \in {2, 3}
        BY <2>1, <4>1
      <4>2. CASE j \notin {2, 3}
        <5>1. j - 3 \in 1 .. 4 * Routings /\ (j - 3) + 3 = j
          BY <2>2, <3>1, <4>2
        <5> DEFINE n == j - 3
        <5> HIDE DEF n
        <5>2. n \in 1 .. 4 * Routings /\ n + 3 = j
          BY <5>1 DEF n
        <5>3. Ops[n + 3] \in {"symAlloc", "align", "run", "symFree"}
          BY <2>3, <5>2
        <5> QED
          BY <5>2, <5>3
      <4> QED
        BY <4>1, <4>2
    <3> QED
      BY <3>2, Effects
  <2>10. Creates(Ops[2]) = {"heap"} /\ Shared = {"heap"} /\ "heap" \in Objects
    BY <1>5, <2>1, Effects DEF Shared, Nvshmem, Objects
  <2>11. \A k \in i - 1 .. i + 1 : "heap" \in Live(k)
    <3>1. "heap" \in Creates(Ops[2]) /\ \A k \in 2 .. i : "heap" \notin Releases(Ops[k])
      BY <2>9, <2>10
    <3>2. 2 \in Nat \ {0}
      BY SMT
    <3> QED
      BY <1>2, <2>8, <2>10, <3>1, <3>2, Zenon
  <2> QED
    BY <2>7, <2>8, <2>10, <2>11
<1>6. CASE program = "oshmpi_moe"
  <2>1. /\ Ops = Operations("oshmpi_moe") /\ Len(Ops) = 6 * Routings + 4
        /\ Ops[1] = "device" /\ Ops[2] = "symAlloc"
        /\ Ops[6 * Routings + 3] = "symFree" /\ Ops[6 * Routings + 4] = "shmemFinalize"
    BY <1>6, OshmpiMoeOps DEF Ops
  <2>2. \A j \in 1 .. 6 * Routings + 4 :
          \/ j = 1 \/ j = 2 \/ j = 6 * Routings + 3 \/ j = 6 * Routings + 4
          \/ j - 2 \in 1 .. 6 * Routings /\ (j - 2) + 2 = j
    BY <1>1, SMT
  <2>3. ASSUME NEW m \in 1 .. 6 * Routings
        PROVE  /\ (m - 1) % 6 = 0 => Ops[m + 2] = "space"
               /\ (m - 1) % 6 = 1 => Ops[m + 2] = "symAlloc"
               /\ (m - 1) % 6 = 2 => Ops[m + 2] = "align"
               /\ (m - 1) % 6 = 3 => Ops[m + 2] = "run"
               /\ (m - 1) % 6 = 4 => Ops[m + 2] = "symFree"
               /\ (m - 1) % 6 = 5 => Ops[m + 2] = "spaceDestroy"
               /\ \/ (m - 1) % 6 = 0 \/ (m - 1) % 6 = 1 \/ (m - 1) % 6 = 2
                  \/ (m - 1) % 6 = 3 \/ (m - 1) % 6 = 4 \/ (m - 1) % 6 = 5
    <3>1. \/ (m - 1) % 6 = 0 \/ (m - 1) % 6 = 1 \/ (m - 1) % 6 = 2
          \/ (m - 1) % 6 = 3 \/ (m - 1) % 6 = 4 \/ (m - 1) % 6 = 5
      BY <1>1, SMT
    <3> QED
      BY <2>1, <3>1, OshmpiMoeOps
  <2> DEFINE m == i - 2
  <2>4. m \in 1 .. 6 * Routings /\ m + 2 = i
    BY <2>1, <2>2
  <2> HIDE DEF m
  <2>5. (m - 1) % 6 = 3
    BY <2>3, <2>4
  <2>6. /\ m - 3 \in 1 .. 6 * Routings /\ ((m - 3) - 1) % 6 = 0
        /\ m - 2 \in 1 .. 6 * Routings /\ ((m - 2) - 1) % 6 = 1
        /\ m - 1 \in 1 .. 6 * Routings /\ ((m - 1) - 1) % 6 = 2
        /\ m + 1 \in 1 .. 6 * Routings /\ ((m + 1) - 1) % 6 = 4
    BY <1>1, <2>4, <2>5, SMT
  <2>7. /\ Ops[(m - 3) + 2] = "space" /\ Ops[(m - 2) + 2] = "symAlloc"
        /\ Ops[(m - 1) + 2] = "align" /\ Ops[(m + 1) + 2] = "symFree"
    BY <2>3, <2>6
  <2>8. /\ (m - 3) + 2 = i - 3 /\ (m - 2) + 2 = i - 2 /\ (m - 1) + 2 = i - 1 /\ (m + 1) + 2 = i + 1
        /\ i - 1 \in Nat \ {0} /\ i - 3 \in Nat \ {0} /\ i - 3 < i - 1 /\ i \in Nat
    BY <1>1, <2>4, <2>6, SMT
  <2>9. \A j \in i - 3 .. i : Releases(Ops[j]) = {}
    <3>1. \A j \in i - 3 .. i : j = i - 3 \/ j = i - 2 \/ j = i - 1 \/ j = i
      BY <2>8, SMT
    <3>2. \A j \in i - 3 .. i : Ops[j] \in {"space", "symAlloc", "align", "run"}
      BY <2>7, <2>8, <3>1
    <3> QED
      BY <3>2, Effects
  <2>10. Creates(Ops[i - 3]) = {"space"} /\ Shared = {"space"} /\ "space" \in Objects
    BY <1>6, <2>7, <2>8, Effects DEF Shared, Nvshmem, Objects
  <2>11. \A k \in i - 1 .. i + 1 : "space" \in Live(k)
    <3> DEFINE j == i - 3
    <3>1. /\ j \in Nat \ {0} /\ j < i - 1 /\ i \in Nat /\ "space" \in Objects
          /\ "space" \in Creates(Ops[j])
      BY <2>8, <2>10
    <3>2. \A k \in j .. i : "space" \notin Releases(Ops[k])
      BY <2>9
    <3> HIDE DEF j
    <3> QED
      BY <1>2, <3>1, <3>2
  <2> QED
    BY <2>7, <2>8, <2>10, <2>11
<1> QED
  BY <1>3, <1>4, <1>5, <1>6

(* While any rank is in the measured part of a one-sided program, every    *)
(* rank that is still there has the heap or the space it is put to,        *)
(* wherever it stands and whether or not it has failed.                    *)
THEOREM HeldWhileUsedHolds == Spec => []HeldWhileUsed
<1>1. LifecycleInv => HeldWhileUsed
  <2> SUFFICES ASSUME LifecycleInv, NEW p \in PE, NEW q \in PE, Running(p), Op(p) = "run", inside[p],
                      mode[q] # "gone"
               PROVE  Shared \subseteq holds[q]
    BY DEF HeldWhileUsed
  <2>1. CASE program \notin {"nvshmem", "nvshmem_unchecked", "nvshmem_moe", "oshmpi", "oshmpi_moe"}
    BY <2>1 DEF Shared, Nvshmem
  <2>2. CASE program \in {"nvshmem", "nvshmem_unchecked", "nvshmem_moe", "oshmpi", "oshmpi_moe"}
    <3> DEFINE i == at[p]
    <3>1. i \in 1 .. Len(Ops) /\ Ops[i] = "run"
      <4>1. program \in Programs /\ i \in Nat \ {0} /\ i <= Len(Ops)
        BY DEF LifecycleInv, TypeOK, Positions, Running, Ops
      <4> QED
        BY <4>1, OpsLen, SMT DEF Op, Ops
    <3>2. /\ Together /\ Accounted /\ at[q] \in Nat \ {0} /\ i \in Nat \ {0}
          /\ mode[q] \in {"try", "catch", "abort", "gone"}
      BY DEF LifecycleInv, TypeOK, Positions
    <3>3. i \in 1 .. Len(Ops) /\ Ops[at[p]] = "run" /\ at[p] = i
      BY <3>1
    <3> HIDE DEF i
    <3>4. IgnoresAttach => i = 6
      BY <3>1, UncheckedOps
    <3>5. /\ i - 1 \in Nat \ {0} /\ Ops[i - 1] \in Collective /\ Ops[i + 1] \in Collective
          /\ \A k \in i - 1 .. i + 1 : Shared \subseteq Live(k)
      BY <2>2, <3>1, RunIsSurrounded DEF Collective
    <3>6. i - 1 <= at[q]
      <4>1. i - 1 < at[p]
        BY <3>2, <3>3, SMT
      <4>2. Arrived(q, i - 1)
        BY <3>2, <3>3, <3>5, <3>4, <4>1 DEF Together, Lost
      <4> QED
        BY <3>2, <3>5, <4>2, SMT DEF Arrived
    <3>7. at[q] <= i + 1
      <4> SUFFICES ASSUME ~(at[q] <= i + 1)
                   PROVE  FALSE
        OBVIOUS
      <4>1. i + 1 < at[q] /\ i + 1 \in Nat \ {0}
        BY <3>2, SMT
      <4>2. Lost(q) => i = 6 /\ at[q] = 3
        BY <3>4 DEF Lost
      <4>3. ~Lost(q)
        BY <4>1, <4>2
      <4>4. Arrived(p, i + 1)
        BY <3>2, <3>5, <4>1, <4>3 DEF Together
      <4> QED
        BY <3>2, <3>3, <4>4, SMT DEF Arrived
    <3>8. Shared \subseteq Live(at[q])
      BY <3>2, <3>5, <3>6, <3>7
    <3>9. program \notin OneCcl /\ program \notin Nccl
      BY <2>2 DEF OneCcl, Nccl
    <3>10. ~Lost(q)
      BY <3>6, <3>4 DEF Lost
    <3>11. holds[q] = Live(at[q])
      BY <3>2, <3>9, <3>10 DEF Accounted
    <3> QED
      BY <3>8, <3>11
  <2> QED
    BY <2>1, <2>2
<1> QED
  BY <1>1, LifecycleInductive, PTL

-----------------------------------------------------------------------------
(* Nobody is left waiting.                                                 *)

(* What a step of a rank waits for: none but the return of an operation    *)
(* depends on others, and every handler has a way out.                     *)
CanReturn(p) == inside[p] /\ ~Detached(p) /\ \A q \in WaitsFor(Op(p)) : Arrived(q, at[p])
CanGoOn(p) ==
  \/ Running(p) /\ (~inside[p] \/ CanReturn(p))
  \/ Detached(p)
  \/ mode[p] = "try" /\ at[p] > Len(Ops)
  \/ mode[p] \in {"catch", "abort"}
  \/ aborting /\ mode[p] # "gone"

(* As long as a rank is there, some rank can go on.                        *)
NobodyLeftWaiting == (\E p \in PE : mode[p] # "gone") => \E p \in PE : CanGoOn(p)

(* A rank is gone because the job is aborted or its program is over.       *)
LeftProperly == \A p \in PE : mode[p] = "gone" => aborting \/ at[p] > Len(Ops)

(* A set of naturals that is not empty has a least.                        *)
LEMMA Least ==
  ASSUME NEW S, S \subseteq Nat, S # {}
  PROVE  \E m \in S : \A k \in S : m <= k
<1>1. PICK m \in S : \A k \in S : <<k, m>> \notin OpToRel(<, Nat)
  BY NatLessThanWellFounded, WFMin
<1>2. \A k \in S : ~(k < m)
  BY <1>1 DEF OpToRel
<1> QED
  BY <1>2, SMT

LEMMA LeftProperlyStep == LifecycleInv /\ LeftProperly /\ [Next]_vars => LeftProperly'
<1> SUFFICES ASSUME LifecycleInv, LeftProperly, [Next]_vars, NEW q \in PE, mode'[q] = "gone"
             PROVE  (aborting \/ at[q] > Len(Ops))'
  BY DEF LeftProperly
<1> /\ mode \in [PE -> {"try", "catch", "abort", "gone"}] /\ at \in [PE -> Nat \ {0}]
    /\ Len(Ops) \in Nat
  <2>1. program \in Programs
    BY DEF LifecycleInv, TypeOK
  <2> QED BY <2>1, OpsLen DEF LifecycleInv, TypeOK, Positions, Ops
<1>1. CASE UNCHANGED <<program, mode, at, aborting>>
  BY <1>1 DEF LeftProperly, Ops
<1>2. ASSUME NEW p \in PE, Begin(p)
      PROVE  (aborting \/ at[q] > Len(Ops))'
  BY <1>1, <1>2 DEF Begin
<1>3. ASSUME NEW p \in PE, Return(p)
      PROVE  (aborting \/ at[q] > Len(Ops))'
  BY <1>3 DEF Return, LeftProperly, Ops
<1>4. ASSUME NEW p \in PE, Exit(p)
      PROVE  (aborting \/ at[q] > Len(Ops))'
  BY <1>4 DEF Exit, LeftProperly, Ops
<1>5. ASSUME NEW p \in PE, Cleanup(p) \/ Throw(p)
      PROVE  (aborting \/ at[q] > Len(Ops))'
  BY <1>5 DEF Cleanup, Throw, LeftProperly, Ops
<1>6. ASSUME NEW p \in PE, GlobalExit(p) \/ MpiAbort(p) \/ Killed(p)
      PROVE  (aborting \/ at[q] > Len(Ops))'
  BY <1>6 DEF GlobalExit, MpiAbort, Killed
<1>7. ASSUME NEW p \in PE, AttachFails(p)
      PROVE  (aborting \/ at[q] > Len(Ops))'
  BY <1>7 DEF AttachFails, Running, LeftProperly, Ops
<1>8. CASE UNCHANGED vars
  BY <1>1, <1>8 DEF vars
<1> QED
  BY <1>2, <1>3, <1>4, <1>5, <1>6, <1>8, <1>7 DEF Next, RankStep, LayoutFails

(* Whichever ranks have thrown, no rank waits for others that will never   *)
(* come: the rank that is furthest behind finds everybody at its operation *)
(* or past it, unless one of them has thrown, and then its handler ends    *)
(* the job.                                                                *)
THEOREM NobodyLeftWaitingHolds == Spec => []NobodyLeftWaiting
<1>1. Init => LeftProperly
  BY DEF Init, LeftProperly
<1>2. LifecycleInv /\ LeftProperly => NobodyLeftWaiting
  <2> SUFFICES ASSUME LifecycleInv, LeftProperly, NEW r \in PE, mode[r] # "gone",
                      \A p \in PE : ~CanGoOn(p)
               PROVE  FALSE
    BY DEF NobodyLeftWaiting
  <2>1. /\ mode \in [PE -> {"try", "catch", "abort", "gone"}] /\ at \in [PE -> Nat \ {0}]
        /\ inside \in [PE -> BOOLEAN] /\ Len(Ops) \in Nat
    <3>1. program \in Programs
      BY DEF LifecycleInv, TypeOK
    <3> QED BY <3>1, OpsLen DEF LifecycleInv, TypeOK, Positions, Ops
  <2>2. ~aborting /\ \A p \in PE : mode[p] = "try" \/ (mode[p] = "gone" /\ at[p] > Len(Ops))
    BY <2>1 DEF CanGoOn, LeftProperly
  <2>3. PICK p \in PE : \A q \in PE : at[p] <= at[q]
    <3> DEFINE Places == {at[q] : q \in PE}
    <3>1. Places \subseteq Nat /\ Places # {}
      BY <2>1
    <3>2. PICK least \in Places : \A k \in Places : least <= k
      <4> HIDE DEF Places
      <4> QED BY <3>1, Least
    <3> QED BY <3>2
  <2>4. at[p] <= at[r] /\ at[r] <= Len(Ops)
    BY <2>1, <2>2, <2>3 DEF CanGoOn
  <2>5. \A q \in PE : at[q] = at[p] => Running(q) /\ inside[q]
    <3>1. \A q \in PE : at[q] = at[p] => ~(at[q] > Len(Ops)) /\ at[q] <= Len(Ops)
      BY <2>1, <2>4
    <3>2. \A q \in PE : at[q] = at[p] => Running(q)
      BY <2>2, <3>1 DEF Running, Ops
    <3> QED BY <2>1, <3>2 DEF CanGoOn
  <2>6. \A q \in PE : Arrived(q, at[p])
    BY <2>1, <2>3, <2>5 DEF Arrived
  <2>7. WaitsFor(Op(p)) \subseteq PE
    BY LifecycleAssumption DEF WaitsFor, PE
  <2> QED
    BY <2>5, <2>6, <2>7 DEF CanGoOn, CanReturn
<1> QED
  BY <1>1, <1>2, LeftProperlyStep, LifecycleInductive, PTL DEF Spec

=============================================================================
