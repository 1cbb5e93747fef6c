# A formal model of gpu-comm-benchmark

The repository is a suite of GPU communication benchmarks: six benchmarks (`halo_1d`, `pingpong`, `allreduce`,
`alltoall`, `cg_step`, `moe`), each written several times over CUDA or SYCL with MPI, NCCL, oneCCL, NVSHMEM or OSHMPI,
a Slurm harness that runs them over a matrix of topologies, and `benchscribe`, which summarises the results. What is
hard in it is not arithmetic but *communication*: which data has arrived when somebody reads it, who still uses a
buffer that is being written, and whether everybody reaches the next barrier. A benchmark that gets this wrong mostly
still prints a plausible number, since the same bytes are moved in every iteration and the validation after the last
one cannot tell which iteration they came from. These modules number the iterations, and so can tell.

Paths below are relative to the repository root; `PROJECT.json` maps every definition to its lines.

Contents: [inventory](#1-inventory) · [modules](#2-modules) · [runs](#3-runs) · [bounds](#4-bounds) ·
[fairness](#5-fairness) · [findings](#6-findings) · [proofs](#7-proofs) · [limits](#8-what-is-not-modelled) ·
[plan](#9-plan)

## 1. Inventory

| Component | State | Operations | Interacts through |
| --- | --- | --- | --- |
| NVSHMEM ring halo, `src/shmem/nvshmem/microbench/halo_1d.cu` | host loop of sizes, cases and batches; `base`; per block a program counter; two signal counters, two halos | non-blocking puts, quiet, `grid.sync()` twice, `SIGNAL_ADD`, signal waits; poison, validate, all-reduce of the verdict | one-sided puts and signals into the neighbours' memory; barriers |
| MPI ring halo, `src/mpi/{cuda,sycl}/microbench/halo_1d` | four persistent requests, two halos, the same host loop | `MPI_Startall`, `MPI_Waitall`, barrier, all-reduce | messages with two tags |
| NCCL and oneCCL ring halo, `src/xccl/{cuda,sycl}/microbench/halo_1d` | a stream, two halos, the same host loop | grouped sends and receives, stream synchronisation, barrier | messages without tags, matched by order |
| OSHMPI ring halo, `src/shmem/oshmpi/microbench/halo_1d.cu` | two halos, `oks`, the same host loop | all puts of a batch, quiet, device sync, barrier | the neighbours' halos, PE 0's `oks` |
| allreduce and alltoall, twelve programs in `src/*/*/microbench/` | operands, result, `all_sizes_ok` | fill, align, call, validate, verdict, statistics | collectives, or blocks put into every other's buffer |
| SHMEM statistics and verdicts, `include/stats/collective_shmem.hpp`, the ends of the OSHMPI programs | one symmetric gather buffer, `ok_by_pe`, exit status | put to PE 0, quiet, barrier, reduce, put back | symmetric memory of PE 0, and slot 0 of everybody's |
| SHMEM CG step, `src/shmem/{nvshmem,oshmpi}/application/cg_step.cu` | send, receive and ghost columns, step and side | pack, put, quiet and barrier, unpack and compute, two reductions | the neighbours' receive buffers |
| Stream and message CG step, `src/{xccl,mpi}/{cuda,sycl}/application/cg_step`, `include/benchmarks/cg_phases.hpp` | the same, and a stream with its queue | the four phases queued or run one by one, sync, statistics, phase pass | grouped or ordered transfers, all-reduces |
| NVSHMEM ping-pong, `src/shmem/nvshmem/microbench/pingpong.cu` | flag, `base`, blocks, receive buffer | wait, put, quiet, grid syncs, `SIGNAL_SET` | the peer's flag and buffer |
| Host-driven ping-pongs, `src/{shmem/oshmpi,mpi,xccl}/…/pingpong` | receive buffer, round | put, quiet, device sync, barrier; send, receive | the peer's buffer; barriers |
| MoE exchange, `include/moe.hpp`, the six `moe` programs | the count matrix, plans, dispatch and combine buffers; oneCCL's probe status | plan, pack, probe, dispatch, combine, validate | puts at planned offsets; groups of sends and receives |
| Lifecycle of a process, every `main` | device, communicator, stream, heap or space; `comm`, `stream`, `nvshmem_initialized` as the handler sees them | set up, throw, clean up, abort, tear down | collective set-up calls; `MPI_Abort`, `shmem_global_exit` |
| Harness, `cluster/harness/launch.sh`, `job.sh`, `matrix.sh` and `experiments/common.sh` | submissions, jobs, the result tree | submit, check the allocation, run trials into temporary files, promote them | files; Slurm |
| benchscribe, `tools/benchscribe/` | the table | list, read, aggregate | the result tree |
| Statistics, report, command line, cluster scripts, plots, build | | | pure or without run-time behaviour, not modelled |

The programs follow one scheme. The host loops over sizes (or grid sides, or routings); for each it measures a warm-up
and timed iterations, validates what the last one left behind, combines the verdicts of all ranks, and gathers the
samples to rank 0. The components therefore meet in three places: the *exchange* with the neighbours, *collectives*
that align the host loops, and *buffers that are used again* by the next iteration, batch, size or case.

Which behaviours are hard, and which property makes a component correct:

- **Blocks, kernels and one-sided operations** (NVSHMEM halo, ping-pong). A signal must not overtake data that other
  blocks put; counters and flags are never reset, so a launch is only right relative to a `base` both sides agree on.
  Correct: data is complete behind a wait, `base` is the number of signals, halos are still while the host has them.
- **Completion of one-sided operations** (OSHMPI). `shmem_quiet` does not wait for device work; barriers hand over
  turns and buffers. Correct: whoever reads a buffer after a barrier finds this iteration in it.
- **Queued and grouped work** (NCCL, oneCCL, MPI). Host and device run apart and ranks drift; buffers are single.
  Correct: every step is computed with its own ghost columns, samples hold their own step, no transfer waits for ever.
- **Plans made independently** (MoE). Correct: what one rank sends is what the other expects, where it expects it.
- **Combination of partial results** (verdicts, statistics). Correct: one series at a time, one verdict for all.
- **Failures of one rank** (lifecycle, probe). Checks fail on one rank while others wait in a collective call. Correct:
  one decision for all or the end of all, and nothing freed from under those still at work.
- **Failures of the outside world** (harness). Submissions and trials fail, hang and are killed between any two steps,
  and a reader scans meanwhile. Correct: only whole trials are read, filed where they were measured
  as far as the check of the allocation goes.

The hazards are listed at their lines under `hazards` in `PROJECT.json`, each with the properties that cover it, or
with the reason why none does.

## 2. Modules

| Module | What it models | How state and actions correspond to the code |
| --- | --- | --- |
| `RingTopology` | the ring | `Neighbour`, `Opp`: `left`, `right`, and the side on which the other end sees a rank |
| `Batches` | `include/timing.hpp` and the cases of a halo size | how often the body runs in each batch of each case |
| `RingExchange` | *abstract*: what a ring exchange promises | `Post`, `Complete`: no rank completes a round its neighbours have not posted |
| `HaloRing` | NVSHMEM `halo_1d.cu` | `pc[p][b]` is a block of the persistent kernel, `host[p]` the thread that launches it. `puts` and `pending` are the network, which delivers in any order; a put is stamped with its exchange. `IssuePuts`, `Quiet`, `GridSync1`, `SignalRight/Left`, `WaitLeft/Right`, `GridSync2` are the kernel; `PoisonHalos`, `Launch`, `FinishKernel`, `Validate`, `Barrier`, `Verdict` the host loop |
| `HostRing` | the MPI, NCCL, oneCCL and OSHMPI `halo_1d` | `transport` is chosen in `Init`. `sendReq`, `recvReq` are MPI's persistent requests or the calls of a group; `chan` holds unmatched messages by source, destination and tag (NCCL and oneCCL have one tag), `puts` what OSHMPI has in flight; `Begin`/`Issue`, `EndExchange`, `EndBatch`, `Wait`, `Quiet`, `LeaveBatch` are the body of a batch, `PoisonHalos`, `Barrier`, `Validate`, `Verdict` the host loop, `Inject`, `Match`, `Deliver` the library, which may buffer a message or not |
| `ShmemVerdict` | `collective_shmem.hpp` and the verdicts of the SHMEM programs | one action per put, quiet, read and barrier; `program` tells how many series a case has and whether the verdict is handed back |
| `Collectives` | the twelve `allreduce` and `alltoall` programs, with `ShmemVerdict` behind every measurement | `Fill`, `Align`, `Enter`, `QuietBlocks`, `Return` are a measurement, by library call or by blocks put one by one; `MpiValidate`, `MpiVerdict`, `MpiStats` the reporting of the two-sided programs in either order |
| `Partition`, `CgGrid` | `include/partition.hpp`, the slabs and neighbours | `LocalCount`, `LocalOffset` as in the code; a column is its index in the whole grid and the step it is of, so a slab that is off by one shows as a wrong ghost column |
| `CgShmem`, `MCCgShmem` | SHMEM `cg_step.cu` | one action per phase, for the headline loop and the phase pass; `puts` are on the network or left to a device (`DeviceWork`) |
| `CgStream`, `MCCgStream` | NCCL, oneCCL, MPI `cg_step`, `cg_phases.hpp` | a host thread that issues, a stream (`queue`) that runs in order, transfers that need both sides; `backend` and `phasePass` are chosen in `Init` |
| `TurnTaking`, `PingPongCounts` | *abstract*: what a ping-pong promises; the sweep all of them go through | `Ping`, `Pong`; sizes, warm-up and timed round trips |
| `PingPongSignal` | NVSHMEM `pingpong.cu` | blocks, flag and `SIGNAL_SET`s in flight, two launches per size |
| `PingPongHost` | the other ping-pongs | legs as puts closed by barriers, or as messages; `transport` is chosen in `Init` |
| `MCPingPong` | both, over one sweep | `driver` chooses which of the two modules moves; the properties are stated of both |
| `MoePlan` | `make_moe_plan`, `pack_moe_send` | counts, displacements and slots as functions of the routing |
| `MoeExchange` | the `moe` programs | dispatch and combine by puts, or by groups; all routings. Before oneCCL's groups comes its probe: `PostProbe`, `WaitProbe`, `ProbeFails` on any rank, and `ReduceProbe`, from which all ranks take the same way |
| `Lifecycle` | every `main` from start to exit | `Operations` lists what each kind of program does in order; `Begin`, `Return` walk a rank through it, together with the others where an operation is collective; `Throw` is a failing check, `AttachFails` an attach whose status is ignored, and `LayoutFails` the check that meets it; `Cleanup`, `GlobalExit`, `MpiAbort` are the handlers, `Killed` the launcher. `holds` is what lives, `handles` what the handler believes in |
| `Harness`, `MCHarness` | `launch.sh`, `job.sh`, `common.sh`, benchscribe's scan | A topology `<nodes>n<gpus>g` and an allocation are both a number of nodes and of tasks on each; `Start` compares the nodes, and `Placements` is where a launcher may put the ranks in what was allocated. `files` is the result tree; `BeginTrial` … `MoveErr` are the steps of a trial, `Kill` may come between any two; `List`, `Read` and the table are the reader |
| `*Proofs` | proofs only, one module for each component or pair of components | see section 7 |

Operators whose comment starts with "Fault:" are not part of any specification. Each is a plausible bug in the
definition that follows it, and replacing that definition by it makes TLC find a property violated: that is how the
properties were found to depend on the code they speak of. `mutants` in `PROJECT.json` lists the pairs.

Data is abstract: a message, a column or a token is named by whose it is and in which round it was made, values are not
computed. What memory holds before it is written is a value no round produces.

## 3. Runs

| Run | Module, configuration | Question | States |
| --- | --- | --- | --- |
| `halo_ring` | `HaloRing`, `HaloRing.cfg` | Is data complete behind the signals (`WaitGatesData`), does the host own its halos between launches (`HostOwnsHalo`), is what it validates the last exchange (`ValidatesLastExchange`), is `base` the signal total (`BaseIsSignalTotal`), is it a ring exchange (`ImplementsRing`), does it end with a valid verdict (`Termination`)? | 137,961 |
| `host_ring` | `HostRing`, `HostRing.cfg` | Do tags, the order of a group's calls or the two slots keep the directions apart (`HaloFacesNeighbour`), do batches stay separate (`BatchesSeparate`), buffered or not; is it a ring exchange that ends? | 53,659 |
| `collectives` | `Collectives`, `Collectives.cfg` | Is one series reduced at a time (`StatsOfOneSeries`), is the verdict the conjunction (`VerdictIsConjunction`) and, where it is handed back, everybody's (`HandedBackCodesAgree`); is the last call what is validated (`ValidatesLastCall`), are buffers refilled at rest (`RefillsAtRest`), do all exit? | 43,868 |
| `cg_shmem` | `MCCgShmem`, `MCCgShmem.cfg` | With RMA that leaves no device work: is a step computed with its own columns (`GhostsOfThisStep`), are buffers at rest while used (`BuffersAtRest`), does everybody finish? | 1,637 |
| `cg_stream` | `MCCgStream`, `MCCgStream.cfg` | The same for queued work: `GhostsOfThisStep`, `ValidatesLastStep`, a timed step holds no earlier work (`SampleIsOneStep`), no deadlock between transfers (`Termination`) | 67,486 |
| `pingpong` | `MCPingPong`, `MCPingPong.cfg` | Does each leg carry its round trip (`LegsArrive`), is the flag never set back (`FlagGrows`), do the PEs take turns (`PEsTakeTurns`), with barriers and messages paired up as meant, and finish (`EveryoneFinishes`)? | 1,503 |
| `moe_exchange` | `MoeExchange`, `MoeExchange.cfg` | For all routings: do the plans fit (`PlansFit`), does the expert's buffer hold its tokens while the combine reads it (`ExpertHoldsItsTokens`), does every token come back (`TokensComeBack`); do all ranks finish, skip or abort whatever the probe does (`Termination`)? | 408,741 |
| `lifecycle` | `Lifecycle`, `Lifecycle.cfg` | Does what others put to stay while they do (`HeldWhileUsed`), do handlers touch only what lives (`HandlersUseLiveObjects`), is nothing left at finalisation that needs what is finalised (`ReleasedBeforeFinalize`), does every process end whoever throws (`Termination`)? | 224,678 |
| `harness` | `MCHarness`, `MCHarness.cfg` | Are results filed under the topology they were measured on, unless the operator changed the tasks per node (`FiledWhereMeasured`), are only finished trials read (`ReadsFinishedTrials`) and filed without a gap (`FiledTrialsAreFirst`), do successive tables only add up (`TablesAddUp`), does every job end (`EveryJobEnds`)? | 186,652 |
| `cg_device_work`, `shmem_verdict_exit`, `cg_phases` | | findings, section 6: TLC finds the named property violated | |

Every module states its `TypeOK` (`HarnessTypeOK` in `Harness`), and all are proved. No run lists them: they document
the ranges of the variables, and say nothing about the code that the other properties do not depend on. Section 7 also
proves some bounds that no run lists: `NeverInvalid` and `SignalsOutstanding` of `HaloRing`, and `NeighbourSkew` and
`PostsUnconsumed` of both modules that implement `RingExchange`.

All configurations but `MCHarness.cfg` say `CHECK_DEADLOCK FALSE`: programs exit. That nobody stops before is what
the liveness properties say, and what the theorems of section 7 on deadlock prove for every value of the constants.

## 4. Bounds

| Run | Bound | Why it is enough |
| --- | --- | --- |
| `halo_ring` | 2 PEs; one halo of 4 elements in 3 blocks, `MinPerBlock` 1; the loop over sizes twice, isolated and steady batches of 2, warm-up 1, one sample | With two PEs each is the other's left *and* right neighbour, the case in which sides are easiest to confuse. Of the three blocks two have a chunk and one has none. Two sizes, each with both batch lengths, are eight launches. Two iterations in a batch and several launches exercise "a signal of the exchange before" and "of the launch before". The proofs of section 7 cover the rest |
| `host_ring` | 2 ranks; isolated and steady batches, warm-up and samples, two halo sizes | Both neighbours are one rank, as above; a rank can be an exchange ahead within a batch and across batches, and several puts of one batch are in flight |
| `collectives` | 3 ranks, 2 cases of 2 series, 2 calls | Rank 0 and two others that can be ahead or behind each other; every buffer is used again within a case and in the next; a call follows a call |
| `cg_shmem` | 3 PEs, sides 4 and 3, 2 steps in each of 2 passes | An inner rank and both edges; one side divides evenly and one does not; a step after a step and a side after a side. Proved for every value |
| `cg_stream` | 3 ranks, sides 4 and 3, 1 warm-up and 2 timed steps, with and without the phase pass | As above; the warm-up puts work of several steps on a queue |
| `pingpong` | 3 blocks, one of them empty; 2 sizes, 1 + 3 round trips | Blocks with and without data, a second launch, a second size; the last round trip of a size and the first of the next |
| `moe_exchange` | 3 ranks, 2 tokens each, 2 iterations; all 729 routings | Empty pairs, an expert with all tokens, one with none; an iteration after an iteration. The probe, which does not depend on the routing, has one; any rank may fail in either of its calls or in a wait |
| `lifecycle` | 3 ranks, 2 routings, all 12 kinds of program | One rank throws, a second waits, a third may throw as well or be elsewhere; a case is set up after another was torn down |
| `harness` | the topologies 1n2g and 2n1g of `pingpong`, allocations of 1 or 2 nodes with 1 or 2 tasks on each, 2 jobs, 2 trials, 1 record | Repeats of one cell and two cells; a trial after a trial; two ranks within a node and across two, so that an allocation with other nodes, other tasks or both has room for the ranks elsewhere, or none; a reader that lists and reads between any two steps |

No state constraint is used: every counter is bounded by the loops of the programs themselves. The one exception is
`RingExchange`, whose rounds are unbounded where it serves as an abstract specification.

## 5. Fairness

Weak fairness only, and only where the code or its platform provides it.

- *Blocks of a kernel* (`WF(BlockStep)`, `WF(LeaderStep)`, `WF(GridStep)`): the kernels are launched cooperatively
  (`nvshmemx_collective_launch`), which starts them only if all blocks are resident at once, so a block that spins in
  a wait does not keep another from running.
- *Host threads and ranks* (`WF(HostStep)`, `WF(RankStep)`, `WF(PEStep)`): each is a process of its own.
- *Streams* (`WF(DeviceStep)`): a device runs what is queued.
- *Collectives*: a barrier or reduction that everybody has entered is over at some time. With somebody missing it may
  stay for ever.
- *Failures*: nothing makes a check fail or a probe throw, but for the layout check of a rank whose attach failed, which
  the reported layout does not let pass (`LayoutFails`). A job that was aborted is ended (`Killed`), process by process:
  that is what `MPI_Abort` and `shmem_global_exit` ask of the launcher.
- *Network and libraries* (`WF(Deliver)`, `WF(Progress)`): a put, signal or message that was issued arrives, a started
  request is processed. Nothing is assumed about the order, except where MPI or a stream promises it.
- *Harness*: Slurm starts what is queued, the shell goes on to its next line, and `timeout` ends a trial. Nothing is
  assumed of the benchmark program: it may never print, never exit, or fail.

## 6. Findings

Three runs expect a violation. In each the repository says one thing in one place and does another elsewhere.

1. **`cg_device_work`** (`GhostsOfThisStep`). `moe.cu`, `alltoall.cu`, `pingpong.cu` and `halo_1d.cu` of OSHMPI close
   each exchange with a device synchronisation because "CUDA-space RMA may enqueue device work that outlives
   shmem_quiet". `cg_step.cu:302` closes its halo with quiet and a barrier alone. If the comment is right, a PE may
   compute with the columns of an earlier step; the field never changes, so its validation passes.
2. **`shmem_verdict_exit`** (`ExitCodesAgree`). "Rank-local verdicts are combined into one global result", and moe
   hands it back "so all PEs agree on the exit code"; `cg_step.cu` and `alltoall.cu` of OSHMPI keep it on PE 0, and
   the PEs exit with different codes after a failed validation.
3. **`cg_phases`** (`PhaseSampleIsOnePhase`). `cg_phases.hpp` says a sync inside the timed region "is what makes a phase
   boundary meaningful", but its warm-up ends without one. With NCCL, which only queues, the first timed pack waits for
   the whole warm-up.

All three are about a claim and the code as written; how likely the consequence is on a given machine the model does
not say.

Four more places are written into properties as the exceptions they are, three of them in `Lifecycle`. `ReleasedBeforeFinalize` leaves
out `moe` with oneCCL, whose communicator, stream and store outlive `MPI_Finalize`: its comment (`moe.cpp:124`) calls
that a latent bug. `HandlersUseLiveObjects` leaves out two. After `ncclCommDestroy` the NCCL programs do
not set `comm` to null, as `moe.cu:187` does, so that a failing `cudaStreamDestroy` comes to a handler that aborts a
communicator that is gone. And four NVSHMEM programs ignore the status of `nvshmemx_init_attr` (`cg_step.cu:130`,
`halo_1d.cu:168`, `alltoall.cu:50`, `pingpong.cu:159`), which `allreduce.cu:66` and `moe.cu:73` check, and set
`nvshmem_initialized` all the same: if the attach fails, the layout check behind it throws into a handler that calls
`nvshmem_global_exit` on a runtime that never came up.

The fourth is in `Harness`. `job.sh:43-45` says of its check that if the allocation "disagrees with the topology label,
every result would be filed under a topology it was not measured on", and line 47 compares the number of nodes. The
operator's own sbatch arguments come last and win (`launch.sh:104`), and they may change the tasks per node as well:
`launch.sh` given 2n1g with two tasks per node passes the check, and mpirun may put both ranks on one node.
`FiledWhereMeasured` therefore leaves out the jobs whose tasks per node differ from their label's (`Overridden`).

## 7. Proofs

All theorems hold for every value of the constants, under the named assumptions of the modules.

**The NVSHMEM ring** (`HaloRingProofs`, assumption `HaloAssumption`: the counts are positive naturals). The properties
are not inductive. Their strengthening `IInv`, which TLC also finds true, has these parts:

- `TypeOK`; `SameLaunch`: the barriers keep all PEs in the same launch of the same case, so they agree on where its
  counts end;
- `HostStage` and `GridStage`: which batch the host can be at in each stage, and that the two grid syncs keep all
  blocks in the same half of the same iteration;
- `PutsOfQuietBlocks`: what is in flight belongs to a block that is in its quiet, and to its present exchange;
- `SignalsAddUp`: counter and signals in flight add up to what the neighbour has sent, that is, no signal is lost or
  counted twice across launches; `WaitedFor`: a PE that has passed a wait was signalled;
- `PutsLanded`: what each block has put is in the neighbour's halo, or still on its way, until the neighbour clears it.

`SignalsAddUp` and `WaitedFor` bound how far neighbours are apart (`Counts`: within one exchange). With `PutsLanded` a
passed wait then means that the whole halo is there, of this exchange or the next (`HaloHolds`), which gives
`WaitGatesData`, `ValidatesLastExchange` and `NeverInvalid`; `PutsOfQuietBlocks` with `SameLaunch` gives `HostOwnsHalo`;
`SignalsAddUp` with `SameLaunch` gives `BaseIsSignalTotal` and `SignalsOutstanding`. `ImplementsRingHolds` is step
simulation: `posted` is what has been signalled, `done` what has been waited for; signalling is `Post`, the second wait
is `Complete`, and every other step stutters (`RingMoves`).

**The abstract ring**: neighbours are within one round (`NeighbourSkew`), and at most two posts are not consumed
(`PostsUnconsumed`), whatever the size of the ring. `HostRingProofs` proves it of the abstract specification (`RingInv`) and
so of what implements it, `HaloRingProofs` directly from the signal counts.

**The SHMEM CG step** (`CgShmemProofs`; `GridAssumption`, `GridCoversRanks`, `CgAssumption`, and for
`GhostsOfThisStep` and `BuffersAtRest` `~DeviceWork`): types hold always, and so does `Lockstep`: between two
collectives all PEs are in the same stage of the same step. Where RMA leaves no device work, `IInv` adds that send
buffers hold this step's boundary (`Packed`), that what is in flight is of a PE in its quiet (`PutsOfQuietPEs`), that
it has arrived or is on its way (`Arrived`), and that receive buffers at the edge stay zero (`OutsideIsZero`). From it
`GhostsOfThisStep` and `BuffersAtRest` follow for every number of PEs and every sweep: the two reductions of a step,
not the barrier, are what keeps the next step's puts out of columns still being read.

**The partition** (also in `CgShmemProofs`): slabs adjoin and cover the items (`SlabsAdjoin`, `SlabsCover`), a rank's
slab does not shrink when the grid grows, so buffers of the largest side serve all (`LargestSideNeedsMost`), and no rank
is without columns when the side is at least the rank count (`EveryRankOwnsColumns`).

**The host-driven ring** (`HostRingProofs`; `RingSize`, `BatchAssumption`). One invariant covers MPI, NCCL, oneCCL and
OSHMPI:

- `SameBatch`: the barriers and the verdict keep all ranks in the same batch of the same case, and the batch ends in the
  same round for all of them; `Stages`: how far a rank is in its batch;
- `Requests` and `Queues`: a queue of messages holds what its sender has sent and its receiver has not received, in
  order, one by one. With two ranks, both calls of a group go to the same peer through one queue, so the queue has to be
  described message by message: the halves of an exchange alternate in it (`MsgNo`), and this is exactly why a group
  without tags does not confuse its directions, the send to the right being issued first on one side and the receive
  from the left first on the other;
- `Halos`: what a halo holds before and after the receive of a round;
- `PutsLanded`: the puts of a batch carry one boundary, and nobody leaves the batch before they have arrived.

`HaloFacesNeighbour` and `BatchesSeparate` follow; `ImplementsRingHolds` shows every step of each transport to be a `Post`,
a `Complete` or a stutter of `RingExchange`, so what is proved of the abstract ring holds here as well
(`NeighbourSkewHolds`, `PostsUnconsumedHolds`).

**Verdicts and collectives** (`CollectivesProofs`; `VerdictAssumption`, `CallsAssumption`). `VerdictInv`: all PEs are in
the same stretch between two barriers of the same series, except that those that have taken a verdict handed back run
ahead of the others without a barrier (`Together`); what is in flight belongs to a PE in its quiet; slots hold what was
put until they are read. This is what keeps the samples of two series apart in one symmetric buffer. `CallsInv` adds the
calls in front: a rank has made all calls of its size when it leaves them, ranks of an alltoall made of puts are in the
same call, and a block is in place or on its way from its call on. `CallsImplementVerdict` shows that OSHMPI's programs
with their calls behave as `ShmemVerdict`, which is therefore proved once.

**The ping-pongs** (`PingPongProofs`; `CountsAssumption`, `PingPongAssumption`). With signals (`SignalInv`): blocks of a
grid are in the same stretch between two grid syncs, pings and pongs are equal in number or one apart, a flag holds the
number of legs signalled to it or one less while the signal is on its way, and a chunk is in place or on its way from
its put on. Host-driven (`HostInv`): both PEs come to the same barrier of the same round trip, puts are complete at it, and
messages pair up with the leg they belong to. Both implement the abstract alternation (`ImplementsTurnsHolds`,
`HostImplementsTurns`), and the properties of the run are proved of the composition (`LegsArriveHolds`,
`FlagGrowsInEveryProgram`, `PEsTakeTurnsHolds`).

**The lifecycle** (`JobProofs`; `LifecycleAssumption`). `Together`: no rank has left a collective operation that
another has not begun, but for one whose attach failed unnoticed (`Lost`), which gets no further than the layout check. `Accounted`: what a rank holds, and what its handler has a pointer to, is determined by how far it
has come (`Live`, `Kept`: created, and not released or set back since), for any number of routing cases. The measured
part lies between two collective operations behind which memory is there and before which it is not released, so a
rank that is anywhere in it finds the heap of every other rank that is still there (`HeldWhileUsed`), including those
that have thrown. The other two properties compare, operation by operation, what lives with what the handler or the
finalisation needs.

**The stream and message CG step** (`CgStreamProofs`; `GridAssumption`, `GridCoversRanks`, `CgStreamAssumption`). The host may
be a whole warm-up ahead of its device, and devices are apart from each other, so the invariant counts phases over the
whole sweep: `Streams` says that a stream holds the last operations issued, in order (for MPI, at most the two shifts of
the present phase); `Stage`, which phase of the first unreduced step a device is in, is therefore between one and four
(`InStep`), and the reductions are what keeps devices in the same step. `Columns` and `Computed` say which step each
buffer belongs to at each stage, `Together` and `Places` where hosts are between collective operations, `Drained` that the
headline loop has one step on the stream. They give `GhostsOfThisStep`, `ValidatesLastStep` and `SampleIsOneStep`.

**The harness** (`JobProofs`; `HarnessAssumption`). The invariant ties the result tree to the jobs in both directions:

- `FilesOfTrials`: every file is that of a trial its job has come to, on an allocation with the nodes its name speaks of,
  measured where a launcher could have put the ranks of its topology (`Placed`). Those of earlier trials have their
  final names, and how far the job is with its present trial says which of the two files has; a listed file holds a
  whole sweep;
- `TrialsHaveFiles`: conversely, a job has all files of its earlier trials and those its present step works on, so that
  no move or report meets a file that is not there;
- `TableCovered`: the last table says no more than the measurements that the running scan has read or still has to read
  (or, with no scan running, than those of all files listed now).

That equal nodes are enough is arithmetic: where the tasks per node are the label's as well, there are exactly as many
slots as ranks, and a placement on `nodes` and `gpus` no larger than the topology's that has room for them all is the
topology (`NoRoomToSpare`, `AsLabelled`). `FiledWhereMeasured` follows from it and `Placed`.

A listed file never changes and stays listed, since a step of a job writes and moves only files that are not listed yet
(`ListedKept`); the first three properties of the run are then read off the invariant. `TablesAddUp` is an action property:
a scan that ends has read everything the last table rests on (`TableCovered` with nothing unread), and the number of
runs and the presence of an error grow with the measurements (`Monotone`). TLC checked this invariant with sweeps of two
records before it was proved.

**The MoE exchange** (`MoeProofs`; `MoeAssumption`, `RoundsAssumption`). First the plans. Displacements are sums, and
what a sum over a set computes would need an induction that the provers cannot do; instead, two functions on the subsets
of a finite set that agree on the empty set and obey the same recurrence are shown to be one (`Agree`: of the sets on
which they differ one would be smallest, and the recurrence leads to a smaller one). Counting the tokens of a row or a
column of the routing obeys the recurrence of the sum (`RowSum`, `ColumnSum`), so displacements are cardinalities, and
the rest is inclusions of sets: packing is a bijection (`PackingFills`) that keeps tokens in order (`BlockInOrder`), the
blocks that an expert expects from its sources lie apart (`SlotsApart`), leave no gap (`SlotsCover`) and fit into what
every rank allocates (`BuffersSuffice`). `PlansFit` states this of the exchange.

The exchange is followed by three counts for each pair of ranks and each phase: rounds sent (`Sent`), come (`Came`)
and ended (`Ended`). `Places` says at which calls of its transport a rank can be, `InFlight` that a message is of the
round its sender is in, and `InStep` that what has come is what its receiver has ended, or one more while the receiver
is in that phase. With puts the barriers keep all ranks in one phase. With groups there is no barrier: a peer may be a
round ahead, but its block cannot be delivered before the receiver has posted the call it belongs to, and that is why
the expert's buffer is still that of the round while the combine reads it. `HeldByExperts` and `BackHome` say of which
round the two buffers are. From all of them, `IInv`, follow `ExpertHoldsItsTokens` and `TokensComeBack`.

**No deadlock.** For each of the communicating programs a theorem says that, until all ranks have ended, some rank can
make a step or something in flight can arrive: `NobodyStuckHolds` in `HaloRingProofs`, `HostRingProofs`, `CgShmemProofs`,
`CgStreamProofs`, `CollectivesProofs` and `PingPongProofs`, `NeverStuckHolds` in `MoeProofs`, `NobodyLeftWaitingHolds` in
`JobProofs`. They are the safety half of `Termination`. `ENABLED` is out of the provers' reach, so the guards of the
actions are written down as state predicates next to the theorem; TLC found them to be the same as the enabledness of
`Next` in every reachable state of the runs' bounds. The argument is the same each time: the rank, or kernel, that is
furthest behind waits for nobody.

- *The rings*: a wait asks for a signal or message that a neighbour as far on has already issued. In the host-driven
  ring, transfers begin and end together, and a send that is not complete has not been received.
- *The SHMEM CG step* needs `Lockstep` only, so it holds with device work left behind, too.
- *The stream and message CG step*: both ends of a transfer have it behind them, or neither has (`Paired`); with this a
  group's transfers cannot wait in a circle, nor can MPI's two shifts, which all ranks make in the same order.
- *Collectives*: nobody is past the barrier before a size's calls while others are before it (`AlignsTogether`), and
  ranks that reduce the statistics before the verdict come to them together (`StatsTogether`).
- *Ping-pongs*: both PEs are at the same launch, but for an initiator that validates (`SameLaunch`). With messages
  nothing but the barriers between sizes keeps them together: `SizesMeet` says that a PE which comes to one finds the other
  there or in the last round trip before it.
- *MoE*: among groups, a rank of the earliest round and phase finds everything it needs posted. The probe before
  the groups is left out of the theorem: a rank whose call fails may leave a neighbour in its own, and nothing but the
  end of the job helps.
- *The lifecycle*: the rank that is furthest behind finds everybody at its operation or past it, unless one has thrown,
  whose handler then ends the job; a rank is gone only if the job is aborted or its program is over (`LeftProperly`).

The theorems whose names end in `Inductive` (`SignalInductive`, `HostInductive`, `CallsInductive`, `HarnessInductive` and
`LifecycleInductive` where a module has several) state the invariants above. TLC found each of them true on the bounds
of section 4 before it was proved.

Only model-checked: liveness (the `Termination`s, `EveryoneFinishes` and `EveryJobEnds`), which rests on fairness and
`ENABLED`. Every invariant and every action property that a passing run checks is also a theorem.

## 8. What is not modelled

- *Time*. A sample is the steps between two readings of the clock; which steps those are is modelled (`Batches`,
  `SampleIsOneStep`, `PhaseSampleIsOnePhase`), durations are not, nor means and percentiles.
- *Numbers and bytes*. Stencils, dot products, payloads, marker and checksum values, formatting and parsing.
- *Errors in the middle of an exchange*. `Lifecycle` lets any check fail, with the measured part as one collective
  operation; the exchanges themselves are modelled without errors, since a rank that fails in one ends the job. What an
  `ncclCommInitRank` that fails leaves in `comm` is up to NCCL.
- *A probe call of oneCCL that neither returns nor throws*: nothing in the code would end it.
- *Grid sides below the rank count*, which the documentation excludes (`GridCoversRanks`).
- *The device synchronisations that the phase pass adds to the SHMEM CG steps*: they only close what the barrier and
  the reductions of a step already order where RMA leaves no device work.
- *The reductions of OSHMPI* inside (`pSync`, `pWrk`) and the staging copies around them, which one rank does alone.
- *The order of a default-stream `cudaMemset` and a CUDA-aware MPI call* (`mpi/cuda/microbench/alltoall.cu:83`).
- *Environment set-up, dry runs and profilers* of the harness, and runs outside of Slurm, whose files are named "manual".
- *GPUs per node*, which the operator's arguments may change as well: `gpu-rank-wrapper.sh` gives every rank the GPU of
  its local number, so a rank without one throws (`Fail`), and GPUs to spare are not used.
- *Slurm and the launchers* (`Kill`, `Layouts`) are taken at their documentation: srun takes the nodes it asks for,
  mpirun any slots of the allocation. That Slurm may queue a job again, under its id, after a node failed is left out: it
  would run its trials over files it has filed, and the tree would hold trials of two runs of one job.
- *Records that say `NOT_IMPLEMENTED`, with validation `SKIP`*: `Entry` knows `ok`, `error` and absent cells.
- *What `nvshmem_global_exit` does on a runtime that is not up*: it is taken to end the job. Should it return, the
  handler's next line, `MPI_Abort`, does.
- Plots, roofline, cluster scripts and the build: no behaviour of the system depends on their state.

## 9. Plan

The order followed so far: the ring (the richest one-sided protocol) with its abstract specification and proofs; its
host-driven counterparts under the same specification; verdicts and the collectives around them; the CG step in both
forms; ping-pongs; MoE with its probe; the lifecycle of a process; the harness. What is left, most important first:

1. `Lifecycle` with one of the exchanges in the place of its measured part, so that a rank fails with puts in flight.
2. OSHMPI's back-to-back reductions, once it is written down how a reduction uses `pSync` and `pWrk`.
3. `Harness`: jobs that are queued again under their id, and runs named "manual".
