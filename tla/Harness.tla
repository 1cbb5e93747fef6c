------------------------------ MODULE Harness ------------------------------
(***************************************************************************)
(* The experiment harness and the reader of its results: launch.sh submits *)
(* jobs, each job of job.sh runs the trials of experiments/common.sh and   *)
(* files their output, and benchscribe may summarise the result tree at    *)
(* any moment.  A topology <nodes>n<gpus>g asks for one rank on each of    *)
(* gpus GPUs of each node, and names the result directory.  Slurm may fail *)
(* a submission and may kill a job between any two of its steps; a trial   *)
(* may fail, hang, or print records that failed validation and still exit  *)
(* with status 0.                                                          *)
(***************************************************************************)
EXTENDS Integers, FiniteSets, Sequences

CONSTANTS
  Topologies,  (* The topologies of the matrix: nodes, ranks on each.      *)
  Granted,     (* What an allocation may have: nodes, task slots on each.  *)
  MaxJobs,     (* Submissions of one launch.                               *)
  Trials,      (* GPU_BENCH_NTRIALS.                                       *)
  Records      (* Records one trial prints: the sizes of its sweep.        *)

ASSUME HarnessAssumption ==
  /\ Topologies \subseteq Granted
  /\ Granted \subseteq [nodes : Nat \ {0}, gpus : Nat \ {0}]
  /\ IsFiniteSet(Topologies)
  /\ {MaxJobs, Trials, Records} \subseteq Nat \ {0}

VARIABLES
  todo,     (* What launch.sh still submits: <<topology, allocation>>.     *)
  jobs,     (* The jobs, at their Slurm id.                                *)
  files,    (* The result tree: file names to contents.                    *)
  unread,   (* The files the running scan has still to read.               *)
  scan,     (* The measurements the running scan has read.                 *)
  summary   (* benchscribe's last table.                                   *)

harnessVars == <<todo, jobs, files, unread, scan, summary>>

JobId == DOMAIN jobs

(* Fault: the trials of a job share their name.                            *)
FileOfJob(j, k, kind, tmp) ==
  [topo |-> jobs[j].topo, job |-> j, trial |-> 1, kind |-> kind, tmp |-> tmp]

(* <result name>/<experiment>/<job name>-<job id>-<trial>-stdout.txt[.tmp] *)
File(j, k, kind, tmp) ==
  [topo |-> jobs[j].topo, job |-> j, trial |-> k, kind |-> kind, tmp |-> tmp]

Out(j, tmp) == File(j, jobs[j].trial, "stdout", tmp)
Err(j, tmp) == File(j, jobs[j].trial, "stderr", tmp)

(* > and 2>: every name is that of a new, or truncated, file.              *)
Redirected(names, text) ==
  [f \in DOMAIN files \cup names |-> IF f \in names THEN text ELSE files[f]]

(* mv: the new name replaces whatever had it, in one step.                 *)
Moved(old, new) ==
  [f \in (DOMAIN files \ {old}) \cup {new} |->
     IF f = new THEN files[old] ELSE files[f]]

Empty(w) == [where |-> w, records |-> <<>>]

At(j, pc) == j \in JobId /\ jobs[j].pc = pc
Goto(j, pc) == jobs' = [jobs EXCEPT ![j].pc = pc]

NoEntry == [status |-> "absent", runs |-> 0]

Smaller(t, u) == t.nodes < u.nodes \/ (t.nodes = u.nodes /\ t.gpus < u.gpus)

(* The topologies T that GPU_BENCH_ONLY_TOPOS lets through, smallest first. *)
Ascending(T) ==
  {order \in [1..Cardinality(T) -> T] :
     \A i, k \in 1..Cardinality(T) : i < k => Smaller(order[i], order[k])}

(* The sweep over n topologies, r jobs (GPU_BENCH_REPEATS) each.           *)
Sweep(order, n, r) ==
  [i \in 1..r * n |-> LET t == order[(i - 1) \div r + 1] IN <<t, t>>]

HarnessInit ==
  /\ \/ \E t \in Topologies, g \in Granted : todo = <<<<t, g>>>>
     \/ \E T \in SUBSET Topologies, r \in 1..MaxJobs :
          /\ r * Cardinality(T) \in 1..MaxJobs
          /\ \E order \in Ascending(T) : todo = Sweep(order, Cardinality(T), r)
  /\ jobs = <<>>
  /\ files = <<>>
  /\ unread = {} /\ scan = {}
  /\ summary = [c \in Topologies \X (1..Records) |-> NoEntry]

-----------------------------------------------------------------------------
(* launch.sh.  One cell with sbatch arguments of the operator's, which win *)
(* over those of the topology, or a sweep of cells and repeats, in which   *)
(* every job is allocated what its topology asks for.                      *)

Submit ==
  /\ todo # <<>>
  /\ todo' = Tail(todo)
  /\ jobs' = Append(jobs, [topo |-> Head(todo)[1], alloc |-> Head(todo)[2],
                           pc |-> "queued", trial |-> 1])
  /\ UNCHANGED <<files, unread, scan, summary>>

(* set -e: a failing sbatch ends the sweep.                                *)
SubmitFails ==
  /\ todo # <<>>
  /\ todo' = <<>>
  /\ UNCHANGED <<jobs, files, unread, scan, summary>>

-----------------------------------------------------------------------------
(* job.sh and experiments/common.sh                                        *)

(* Where a launcher may put the ranks of a topology: the nodes that get    *)
(* any, and the most that one of them gets.  srun takes the nodes it is    *)
(* asked for, and may take the task count of the allocation over the       *)
(* option it is given; mpirun gets no more than the number of ranks and    *)
(* may put them in any slots, as long as there are enough.                 *)
Layouts(topo, alloc) ==
  {w \in [nodes : {topo.nodes}, gpus : {topo.gpus, alloc.gpus}] : topo.nodes <= alloc.nodes}
    \cup {w \in [nodes : 1..alloc.nodes, gpus : 1..alloc.gpus] :
            /\ topo.nodes * topo.gpus <= w.nodes * w.gpus
            /\ w.nodes + w.gpus - 1 <= topo.nodes * topo.gpus}

(* Or nowhere, where the launcher finds no room and fails.                 *)
Nowhere == [nodes |-> 0, gpus |-> 0]
Placements(j) ==
  LET room == Layouts(jobs[j].topo, jobs[j].alloc) IN IF room = {} THEN {Nowhere} ELSE room

(* Fault: the allocation is not compared with the label.                   *)
StartUnchecked(j) ==
  /\ At(j, "queued")
  /\ Goto(j, "trial")
  /\ UNCHANGED <<todo, files, unread, scan, summary>>

(* job.sh compares SLURM_JOB_NUM_NODES, and nothing else.                  *)
Start(j) ==
  /\ At(j, "queued")
  /\ Goto(j, IF jobs[j].alloc.nodes = jobs[j].topo.nodes THEN "trial" ELSE "ended")
  /\ UNCHANGED <<todo, files, unread, scan, summary>>

(* The redirections create both files, or truncate what had their names,   *)
(* and the launcher starts the ranks.                                      *)
BeginTrial(j) ==
  /\ At(j, "trial")
  /\ \E w \in Placements(j) : files' = Redirected({Out(j, TRUE), Err(j, TRUE)}, Empty(w))
  /\ Goto(j, "running")
  /\ UNCHANGED <<todo, unread, scan, summary>>

(* The program reports a size of its sweep, valid or not.  A rank for      *)
(* which its node has no GPU throws, and its trial takes Fail instead.     *)
Report(j) ==
  /\ At(j, "running")
  /\ files[Out(j, TRUE)].where # Nowhere
  /\ Len(files[Out(j, TRUE)].records) < Records
  /\ \E valid \in BOOLEAN :
       files' = [files EXCEPT ![Out(j, TRUE)].records = Append(@, valid)]
  /\ UNCHANGED <<todo, jobs, unread, scan, summary>>

(* Status 0, once everything is reported. The ping-pongs exit with 0       *)
(* whatever they validated; a program that exits with 1 after an invalid   *)
(* record takes Fail instead.                                              *)
Succeed(j) ==
  /\ At(j, "running")
  /\ Len(files[Out(j, TRUE)].records) = Records
  /\ Goto(j, "exited")
  /\ UNCHANGED <<todo, files, unread, scan, summary>>

(* Fault: the loop goes on after a trial that failed.                      *)
FailAndGoOn(j) ==
  /\ At(j, "running")
  /\ jobs' = [jobs EXCEPT ![j].pc = IF jobs[j].trial < Trials THEN "trial" ELSE "ended",
                          ![j].trial = IF @ < Trials THEN @ + 1 ELSE @]
  /\ UNCHANGED <<todo, files, unread, scan, summary>>

(* The program exits otherwise, at any point: the job returns its status.  *)
Fail(j) ==
  /\ At(j, "running")
  /\ Goto(j, "ended")
  /\ UNCHANGED <<todo, files, unread, scan, summary>>

(* Fault: a trial that exceeds its time is started over.                   *)
TimeoutRetries(j) ==
  /\ At(j, "running")
  /\ Goto(j, "trial")
  /\ UNCHANGED <<todo, files, unread, scan, summary>>

(* timeout ends the program, TERM then KILL: status 124 or 137.            *)
Timeout(j) ==
  /\ At(j, "running")
  /\ Goto(j, "ended")
  /\ UNCHANGED <<todo, files, unread, scan, summary>>

MoveOut(j) ==
  /\ At(j, "exited")
  /\ files' = Moved(Out(j, TRUE), Out(j, FALSE))
  /\ Goto(j, "moved")
  /\ UNCHANGED <<todo, unread, scan, summary>>

MoveErr(j) ==
  /\ At(j, "moved")
  /\ files' = Moved(Err(j, TRUE), Err(j, FALSE))
  /\ jobs' = [jobs EXCEPT
                ![j].pc = IF jobs[j].trial < Trials THEN "trial" ELSE "ended",
                ![j].trial = IF @ < Trials THEN @ + 1 ELSE @]
  /\ UNCHANGED <<todo, unread, scan, summary>>

(* Slurm ends the job: its wall time is over, or a node of it is gone.     *)
(* That Slurm may queue it again, under its id, is left out.               *)
Kill(j) ==
  /\ j \in JobId /\ jobs[j].pc # "ended"
  /\ Goto(j, "ended")
  /\ UNCHANGED <<todo, files, unread, scan, summary>>

-----------------------------------------------------------------------------
(* benchscribe                                                             *)

(* Fault: the glob is **/*-stdout.txt*.                                    *)
EveryOutput == {f \in DOMAIN files : f.kind = "stdout"}

(* results_dir.glob("**/*-stdout.txt")                                     *)
Listed == {f \in DOMAIN files : f.kind = "stdout" /\ ~f.tmp}

List ==
  /\ unread = {} /\ scan = {} /\ Listed # {}
  /\ unread' = Listed
  /\ UNCHANGED <<todo, jobs, files, scan, summary>>

Sizes(text) == 1..Len(text.records)

(* One measurement per record, filed under the path's topology and job.    *)
Read ==
  /\ unread # {}
  /\ LET f == CHOOSE f \in unread : TRUE IN
       /\ unread' = unread \ {f}
       /\ scan' = scan \cup {[topo |-> f.topo, job |-> f.job, trial |-> f.trial, n |-> i,
                              valid |-> files[f].records[i], where |-> files[f].where]
                               : i \in Sizes(files[f])}
  /\ UNCHANGED <<todo, jobs, files, summary>>

(* A group with a failed record is an error; its numbers are those of its  *)
(* valid records, averaged within a job first: the runs are the jobs.      *)
Entry(group) ==
  IF group = {} THEN NoEntry
  ELSE [status |-> IF \E m \in group : ~m.valid THEN "error" ELSE "ok",
        runs |-> Cardinality({m.job : m \in {r \in group : r.valid}})]

Summarise ==
  /\ unread = {} /\ scan # {}
  /\ summary' = [c \in DOMAIN summary |->
                   Entry({m \in scan : m.topo = c[1] /\ m.n = c[2]})]
  /\ scan' = {}
  /\ UNCHANGED <<todo, jobs, files, unread>>

-----------------------------------------------------------------------------
JobStep(j) ==
  \/ Start(j) \/ BeginTrial(j) \/ Report(j) \/ Succeed(j)
  \/ Fail(j) \/ Timeout(j) \/ MoveOut(j) \/ MoveErr(j)

Finished ==
  todo = <<>> /\ (\A j \in JobId : jobs[j].pc = "ended") /\ UNCHANGED harnessVars

HarnessNext ==
  \/ Submit \/ SubmitFails \/ List \/ Read \/ Summarise \/ Finished
  \/ \E j \in JobId : JobStep(j) \/ Kill(j)

HarnessSpec == HarnessInit /\ [][HarnessNext]_harnessVars

(* launch.sh and the shell of a job run on, and timeout ends a trial that  *)
(* has used up its time; that a program prints, or exits, is not assumed.  *)
HarnessFairSpec ==
  /\ HarnessSpec
  /\ WF_harnessVars(Submit \/ SubmitFails)
  /\ \A j \in 1..MaxJobs :
       WF_harnessVars(j \in JobId /\ (Start(j) \/ BeginTrial(j) \/ Timeout(j) \/ MoveOut(j) \/ MoveErr(j)))

-----------------------------------------------------------------------------
Pc == {"queued", "trial", "running", "exited", "moved", "ended"}

FileName == [topo : Topologies, job : 1..MaxJobs, trial : 1..Trials,
             kind : {"stdout", "stderr"}, tmp : BOOLEAN]

(* Every variable holds a value of its type: a file of the tree is one     *)
(* trial's, and no trial prints more than its sweep.                       *)
HarnessTypeOK ==
  /\ Len(todo) <= MaxJobs
  /\ \A i \in 1..Len(todo) : todo[i] \in Topologies \X Granted
  /\ Len(jobs) <= MaxJobs
  /\ \A j \in JobId : jobs[j] \in [topo : Topologies, alloc : Granted,
                                   pc : Pc, trial : 1..Trials]
  /\ DOMAIN files \subseteq FileName
  /\ \A f \in DOMAIN files :
       /\ files[f].where \in [nodes : Nat, gpus : Nat]
       /\ Len(files[f].records) <= Records
       /\ \A i \in Sizes(files[f]) : files[f].records[i] \in BOOLEAN
  /\ unread \subseteq DOMAIN files
  /\ \A c \in DOMAIN summary :
       summary[c] \in [status : {"absent", "ok", "error"}, runs : 0..MaxJobs]

(* No result is filed under a topology it was not measured on, which is    *)
(* what job.sh compares the allocation with the label for.  The comparison *)
(* of the nodes is enough with either launcher, and whatever mpirun does   *)
(* with its slots, unless sbatch arguments of the operator's change the    *)
(* tasks per node: job.sh does not see that, and 2n1g may then be measured *)
(* on two GPUs of one node.                                                *)
Overridden(j) == jobs[j].alloc.gpus # jobs[j].topo.gpus
FiledWhereMeasured ==
  \A f \in DOMAIN files :
    files[f].records # <<>> => files[f].where = f.topo \/ Overridden(f.job)

(* A table never rests on a trial that did not run to its end: whatever    *)
(* benchscribe reads, whenever it reads it, is a whole sweep of a trial    *)
(* that its job has left behind with status 0.                             *)
ReadsFinishedTrials ==
  \A f \in unread :
    /\ Len(files[f].records) = Records
    /\ \/ jobs[f.job].trial > f.trial
       \/ jobs[f.job].trial = f.trial /\ jobs[f.job].pc \in {"moved", "ended"}

(* The trials a job has filed are its first ones, without a gap: a failed  *)
(* trial is the last of its job, and of the two files of a trial only the  *)
(* last one's may have been left half moved.                               *)
FiledTrialsAreFirst ==
  \A f \in DOMAIN files :
    f.kind = "stdout" /\ ~f.tmp =>
      \A k \in 1..f.trial - 1, kind \in {"stdout", "stderr"} :
        /\ [f EXCEPT !.trial = k, !.kind = kind] \in DOMAIN files
        /\ [f EXCEPT !.trial = k, !.kind = kind, !.tmp = TRUE] \notin DOMAIN files

(* The tables of successive scans only add up: no run of an earlier table  *)
(* disappears from a later one and no error is averaged away, because the  *)
(* repeats of a cell and the trials of a job never share a file.           *)
TablesAddUp ==
  [][\A c \in DOMAIN summary :
       /\ summary'[c].runs >= summary[c].runs
       /\ summary[c].status = "error" => summary'[c].status = "error"]_harnessVars

(* Every submitted job ends by itself, however its programs hang.          *)
EveryJobEnds == <>[](todo = <<>> /\ \A j \in JobId : jobs[j].pc = "ended")

=============================================================================
