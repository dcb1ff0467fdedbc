# ServMark in TLA+

ServMark (`src/`) is a benchmark suite for servers: one program, written in C,
that registers 66 benchmarks, runs the selected ones one after the other, each
either in its own process or as several forked instances, and turns the samples
into statistics, scores and a report. This directory holds TLA+ models of the
parts of it where the order of steps matters, the TLC configurations that check
them, and proofs that TLAPS checks. Line numbers refer to the repository; the
exact lines behind every definition are in `PROJECT.json` under `map`.

Paths below are relative to the repository's own root, so `src/core/harness.c`
is the harness and `src/benchmarks/sync/sync_mpmc.c` the queue benchmark.

## 1. The system

### Components

| component | state | operations | what makes it correct |
|---|---|---|---|
| instance runner, `run_benchmark_instance` (harness.c:63-131) | the benchmark's state, `values_out`, two clocks, two perf descriptors | init, warmup, two discarded measures, measure until converged or capped, cleanup | cleanup exactly once on every path; counters closed in every iteration; the loop ends for a justified reason; `*iter_out` says how many cells are filled |
| fork/pipe runner, `harness_run_parallel` (harness.c:389-620) | pids, pipes, a result per child; the children's processes and descriptors | pipe, fork, close, wait, read, kill, aggregate | every result attributed to its own child; no child and no descriptor left; no wait cycle |
| benchmark loop, `harness_run` (harness.c:623-771) | the `subtests` array and its count | filter by tier, category and name; run; store statistics; score | slots in order; statistics belong to the benchmark of the slot; failed subtests score nothing |
| CPU and NUMA topology (harness.c:162-538, 631-696) | cached tables: CPU to core, CPU to node, list of pins | parse the CPU list and the NUMA override, scan the siblings, choose a CPU and a memory policy per instance | instances spread over the cores; the two parses of one override agree |
| statistics (stats.c) | none | mean, SEM, outliers, ranks, bootstrap, normality | arithmetic on as many samples as there are; a removed sample is an extreme one, and the rest keep their indices |
| scoring (scoring.c) | score arrays | pillars, overall score | unstable subtests take no part; better is higher |
| registry (benchmark.c) | array of at most 128 benchmarks | constructors register before `main`; look up | the slots of a run are the registered, selected benchmarks, in order |
| configuration and command line (main.c:56-371) | the configuration record, a filter of 64 names | search a file, parse it, getopt | precedence of arguments over file over defaults |
| output and reference baseline (output.c, main.c:373-418, scoring.c:149-203) | three documents, a reference file | write each; read the reference in two passes, normalize | a reference reads back as it was written; the arrays are never overfilled |
| system probe (system.c:28-334, main.c:247-274) | what is known of CPUs, nodes, caches | count and read sysfs, fall back to defaults | what is shown is the machine's; an allocation that fails is made up for |
| validation (validate.c) | none | print a list of checks | - |
| frequency lock (system.c:346-415) | static table of governors and its count | lock, restore | what is restored is what was there |
| benchmarks (`src/benchmarks`) | one state per instance | the four callbacks | a measure terminates, counts what it did, and leaves a state the next measure can use |

### How they interact

`main` settles the configuration, then calls `harness_run`. For each selected
benchmark that calls either `run_benchmark_instance` through
`harness_run_single`, or `harness_run_parallel`, which forks one child per
instance; each child calls `run_benchmark_instance` and writes its result into
its own pipe. `run_benchmark_instance` knows a benchmark only through four
callbacks over an opaque state, and calls `measure` up to 33 times on the same
state. The threaded benchmarks create their threads inside `measure`, the IPC
ones fork inside `measure`. When all benchmarks are done, `harness_run` assigns
normalized scores, and `main` has them turned into pillars.

### What is hard here

* **Concurrency**: parent and children of the fork/pipe runner; two threads or
  processes inside a `measure`, handing over through a futex, a pipe, a
  semaphore, a ring buffer, a socket.
* **Failure**: every system call of the runner may fail half way through its
  loop; a child may die anywhere; a benchmark's callback may fail anywhere.
* **Repetition**: `measure` is called again on what the previous call left
  behind (bytes in a pipe, posts in a semaphore, a closed descriptor whose
  number now means something else, a listener that was shut down).
* **Ordering**: two scans of `argv`; wait before read; shutdown before `done`.
* **Time**: convergence, minimum run time, wall-clock cap, CPU guard.
* **Bounds**: 31 samples, 64 filter names, 128 benchmarks, 16 distances of a node, one
  free cell in the ring.
* **Files read twice**: the reference is counted, then parsed; the CPU lists and the
  governors are read anew at every access.

`PROJECT.json` lists the hazards one by one, each at its line with the properties
that would catch it going wrong, or a note if none does yet.

## 2. The modules

| module | models | role |
|---|---|---|
| `InstanceContract` | what `run_benchmark_instance` promises its callers | abstract |
| `RunInstance` | its inside | implements `InstanceContract` |
| `RunInstance_proofs` | - | theorems about `RunInstance` |
| `ForkJoin` | what `harness_run_parallel` promises `harness_run` | abstract |
| `ParallelRun` | its inside, with the children and the kernel's pipes | implements `ForkJoin` |
| `ParallelRun_proofs` | - | theorems about `ParallelRun` |
| `HarnessRun`, `MCHarnessRun` | the registry and the benchmark loop over the two runners seen from outside | |
| `HarnessRun_proofs` | - | theorems about `HarnessRun` |
| `Scoring` | pillars and overall score | composed in `Results` |
| `Stats` | outlier removal, ranks, step-up | composed in `Results` |
| `Report` | documents, reference file, its reader | composed in `Results` |
| `Results`, `MCResults` | what becomes of samples | composition |
| `Results_proofs` | - | theorems about `Results`: `Scoring`, `Stats` and `Report` |
| `Config` | configuration file and command line | composed in `Startup` |
| `Topology` | CPUs and memory policy of the instances | composed in `Startup` |
| `SystemProbe` | what is found out about the machine | composed in `Startup` |
| `FrequencyLock` | locking and restoring the governors | composed in `Startup` |
| `Startup`, `MCStartup` | what is settled before a benchmark runs | composition |
| `Startup_proofs` | - | theorems about `Startup`: `Config`, `Topology`, `SystemProbe` and `FrequencyLock` |
| `CswitchFutex` | the futex ping-pong | composed in `ThreadBenchmarks` |
| `CswitchPipe` | the pipe ping-pong | composed in `ThreadBenchmarks` |
| `BoundedFifo` | what the ring of `sync_mpmc.c` promises | abstract |
| `MpmcQueue` | ring, producers, consumers | implements `BoundedFifo` for one thread of each kind; composed in `ThreadBenchmarks` |
| `Workers` | mutex, rwlock, SMT and thread creation benchmarks | composed in `ThreadBenchmarks` |
| `ThreadBenchmarks` | a process that runs one of these seven | composition |
| `ThreadBenchmarks_proofs` | - | theorems about `ThreadBenchmarks`: the ping-pongs, the ring and the workers |
| `SyncSemaphore` | the semaphore benchmark | |
| `SyncSemaphore_proofs` | - | theorems about `SyncSemaphore` |
| `IpcPipe` | the two-process pipe and its descriptor table | composed in `IoBenchmarks` |
| `NetConnRate` | the TCP connection rate | composed in `IoBenchmarks` |
| `NetStream` | TCP throughput, latency, zero copy and UDP | composed in `IoBenchmarks` |
| `SharedFixture` | six file and two script benchmarks, run by several instances | composed in `IoBenchmarks` |
| `IoBenchmarks` | a process, or the instances, that run one of these fourteen | composition |
| `IoBenchmarks_proofs` | - | theorems about `IoBenchmarks` |

**RunInstance.** `pc` is the place in the function; `state` the life of the
benchmark's state; `values` the samples, each represented by the number of the
measure call it came from; `wall` and `cpu` the two clocks; `fds` what the
locals `fdi`, `fdc` hold and `perfOpen` what is open in the kernel; `why` the
test that ended the loop. Actions follow the callbacks: `InitBench`,
`WarmupBench`, `DiscardMeasure`, `StartCounters` (either counter may fail to
open), `MeasureBench`, `RecordSample` (stop the counters, store, decide),
`ExhaustIterations`, `Finish`. Whether SEM/mean is small enough is a choice,
since it depends on data.

**ParallelRun.** The parent is a `pc` (`ppc`) and a loop variable; a child is a
`pc` per instance. `rend[k]` and `wend[k]` are the sets of processes that hold
the read and the write end of pipe `k`, which is what decides whether a
`read()` blocks and whether a `write()` raises SIGPIPE; `buf[k]` is the content
of the pipe. The creation loop (`OpenPipe`, `PipeFails`, `ForkChild`,
`ForkFails`, `CloseWriteEnd`), the allocation (`AllocResults`, with the kill
path), the collection loop (`WaitChild`, `ReadResult`) and `Aggregate` are the
parent; `ChildRun`, `ChildWrite`, `ChildExit`, `ChildCrash` a child. A failed
fork stores -1, and `waitpid(-1)` then takes any child, as it does in the code.
The instance inside a child is one step, whose promise is `InstanceContract`.

**HarnessRun.** First the constructors run (`benchmark_register`), one benchmark at
a time, and the registry ignores what does not fit; then the loop goes over the
registry. `subtests` is modelled as the memory it is: statistics that do
not fit into `raw_values` run on into the slots behind, so that the effect of
too many pooled samples can be stated. `Clamped` is the clamp of harness.c:141-147,
which may raise the count above what was measured: a slot keeps both numbers. A
runner fails or delivers a number of samples per instance, down to a single one.

**Scoring.** A score is its logarithm, an integer; a geometric mean is then a sum
with a count, and comparing two means is exact.

**Report.** `main` writes the three documents one after the other and prints their
paths; each is missing, cut short or whole. The reference is a sequence of lines;
its reader (`Count`, `ParseLine`, `ParseEnds`) goes over it twice, and another
program may edit it once in between. A mean is an integer in units finer than the
last digit printed, so that `%.6f` is a rounding and not the identity.

**Config.** The environment, the files that exist, and the list of arguments are
chosen in `Init`; then the pre-scan, the search for the file, the lines one by
one, the getopt loop, and the decision what to do.

**CswitchFutex, CswitchPipe, MpmcQueue, SyncSemaphore.** One step per atomic
access or system call, one `pc` per thread, and a `Call` that starts `measure`
again on the state the last call left. FUTEX_WAIT's check and sleep are one
step, as the kernel guarantees. A pipe is the number of bytes in it.

**IpcPipe.** The state keeps two descriptor *numbers*; `table` says what the
process has open under each number, and the kernel gives out the lowest free
one, to a pipe as to a perf counter of the harness. The forked reader has a
copy of the table.

**NetConnRate.** Caller, acceptor, the accept queue with its backlog, `connect()`
that waits, fails or is refused, and `shutdown()` that drops the queue.

**Topology.** A machine (core of each CPU, nodes, sibling lists that cannot be
read), a `--cpu-pin`, a `--numa-topo` and a `--membind` are chosen in `Init`,
the specifications parsed into their parts. The scan over the sibling lists is
the recursive function `Scan`, whose value at *k* is `phys_map`, `seen` and
`phys_id` when *k* CPUs have been looked at. `Override` is the part of
`harness_run` that rebuilds the nodes, `Setup` the one-time part of
`harness_run_parallel`, and `Fork` gives the next instance its CPU (`PinOf`) and
its policy (`PolicyOf`).

**SystemProbe.** `box` is the machine as sysfs describes it, with gaps in the
numbers of nodes and cache levels where there are any. The probe is a list of
loops; `count-nodes` to `no-nodes` and `count-caches` to `no-caches` each allocate,
which may fail, and every file may fail to be read. `Show` is the listing in `main`,
which takes the counts at their word.

**FrequencyLock.** One step per CPU of each loop, since every file of sysfs may be
absent, unreadable or refuse what is written. `locks`, `found` and `kept` are
history: how often the frequency was locked since the last restore, what the governors
were when the first of these began, and which CPUs no access has failed for.

**Stats.** The loop of `stats_detect_outliers` with its two parallel arrays as one
sequence of records; whether the furthest sample is far enough is a choice. The
ranks (`U1`), the median of differences (`Shift`) and the step-up (`Kept`) are
operators, compared with what they should count.

**Workers.** Main creates, releases or spins, counts along, joins; a worker waits
for `ready`, takes and gives back its lock, counts. `kind` selects which of the
four benchmarks the steps are those of.

**NetStream.** A caller and a server thread. What the caller does after its connect
is a list of steps per benchmark and callback (`nt_warmup`, `nt_measure`, ...), one
for a connect that succeeded and one for a connect that did not; that list is
what differs between the four. `up` and `down` are the messages on their way,
`queue` the connection nobody has accepted yet, `left` what the call found in
the receive buffer.

**SharedFixture.** Each callback is the list of system calls it makes; every
instance works off its own list, on the same two paths. A file is an inode of so
many blocks which outlives its name while it is open. `since` remembers which
other instances were set up when a measure began.

**ThreadBenchmarks, IoBenchmarks.** `servmark --benchmark NAME`: `bench` is the
selected benchmark, and only its state moves. The two modules instantiate the
benchmark modules over their own variables, take the union of the steps and
state the fairness of all their threads. `Startup` and `Results` do the same for
the parts that come before the first benchmark and after the last.

## 3. The runs

All runs finish in seconds. States are distinct states.

| run | states | question |
|---|---|---|
| `run_instance` | 440 | Over every outcome of the callbacks and the clocks: is the benchmark cleaned up exactly once (`CleanupExactlyOnce`), are the counters balanced (`PerfCountersBalanced`), does the loop end for a reason the code gives, which is never the CPU guard (`StopJustified`), does the function return (`Terminates`) and implement its contract (`ImplementsContract`)? |
| `parallel_run` | 94 084 | Three instances, any failing call, any crash: `ResultsAttributed`, `NoFalseAlarm`, `ChildrenReaped`, `ReadNeverBlocks`, `DescriptorsReleased`, `Terminates`, `ImplementsForkJoin`. |
| `harness_run` | 72 840 | Four constructors for a registry of three, under every filter, mode and pair of limits: the slots hold the selected benchmarks in order (`SelectionInOrder`), and statistics and scores belong to the slot's own run and to what was measured, but for the cases the property names (`StatsOfOwnRun`). |
| `results` | 530 034 | Every run of up to three subtests: each pillar is the mean of exactly the rated subtests, and a better positive score never lowers a pillar or the total (`ScoresFollowResults`). Every group of up to four samples: removed outliers are extreme and the rest keep their indices (`OutliersAreExtreme`), ranks count pairs (`RanksCountPairs`). Every fate of the documents and the reference: it reads back as it was written, or short by its last line, and never overfills its arrays (`ReferenceReadBack`). |
| `startup` | 344 032 | Every environment, set of files and list of up to two arguments: `Precedence`, with the order and the limit of the filter. Every machine, CPU list, override and memory policy: `InstancesApart`, `MemoryWhereShown`. Every failure of a read or an allocation of the probe: `ProbeShowsMachine`. Every order of lock and restore, with every access that may fail: `RestoreUndoesLock`. |
| `sync_semaphore` | 13 330 | Three waiters, three calls: nobody is stranded (`NoWaiterStranded`) and every call returns (`CallReturns`). |
| `thread_benchmarks` | 7 991 | `NoLostWake`, `CountsOwnWork` (the pipe left empty, every item taken out, every worker's share), `QueueImplementsFifo`, `EveryCallReturns`. |
| `io_benchmarks` | 43 801 | `ReportsWhatMoved` (with: files short only if another instance disturbed the call), `EndsClean`, `EveryCallReturns`. |
| `parallel_stray` | violation | `OnlyChildrenKilled`: after an unchecked failed fork, the allocation-failure path signals pid -1. |
| `harness_pool` | violation | `SamplesFitRawValues`: pooled samples overrun `raw_values`. |
| `mpmc_queue_twice` | violation | `EachItemOnce`: two consumers take the same item. |
| `net_conn_rate_rearm` | violation | `RearmedForNextCall`: the second call of `measure` finds no listener. |

Each passing property is also tried against a changed model (the operators named
`Definition_Change` next to the definition they replace: a forgotten close, an
off-by-one, a missing reset); in every case TLC then finds the property
violated. `PROJECT.json` lists the pairs under `mutants`.

### Bounds, and why they are enough

* `RunInstance`: four iterations, minimum three, time window 2..3, steps of 0..2
  units. Convergence before and after the minimum, the cap before and after the
  minimum, and both at once all occur.
* `ParallelRun`: three instances. One is the first, one the last and one in the
  middle of every loop, a failed fork can come before, between and after good
  ones, and a stolen `waitpid` has a victim on either side. The theorems of
  section 5 remove this bound.
* `HarnessRun`: four benchmarks that differ in tier, category, threads and
  direction, one more than fits into the registry; 1, 5 or 15 samples, so that a
  run may leave no statistics and two instances still fit into 31 cells
  (`harness_pool` is the run where they do not); a configured minimum that is below,
  above what was measured, and above 31, which overruns the slot. The theorems
  remove these bounds.
* `Results`: five categories, one of every pillar, a second one of throughput and
  C9, which is in none; logarithms 0, 2 and -3. Samples 0, 1 and 5, so that ties,
  a far sample on either side and two equally far ones occur; up to four against
  up to two, of which two may be removed. Three subtests in a report, with a mean
  that prints as zero and one that is rounded; one edit of the reference. The theorems
  remove these bounds.
* `Startup`: a filter of three names instead of 64, files whose lines disagree,
  two arguments out of twelve, which is enough for every pair to be repeated, to
  conflict or to be split between the two scans. Four CPUs as one to four cores,
  with siblings side by side and apart; seven instances go round them almost
  twice; a list of three pins instead of 512. Three nodes, two levels of cache and
  two distances instead of 64, 8 and 16, so that each limit is passed; node lists
  with a gap, without node 0 and too long; sibling lists of every form the kernel
  writes. Two CPUs and two governors for the frequency lock, any number of calls.
  The theorems remove these bounds.
* `SyncSemaphore`: three waiters and three posts per call, three calls: posts
  fewer and more than waiters, and two calls that begin with leftovers.
* `ThreadBenchmarks`: four rounds for the ping-pongs (one side can get a round
  ahead in the middle as well as at the end); a ring of three cells and five
  items, so that it fills, wraps and is reused by the next call, which starts at
  every position. Three workers of three operations each: readers and writers meet,
  and the last of each kind is not the first. The number of calls is not bounded. The
  theorems remove the other bounds, but for the number of producers and consumers.
* `IoBenchmarks`: three messages through a pipe of two, four calls of measure, so
  that two counted ones follow the discarded ones; 20 connections (19 are 95%)
  through a queue of three; four messages through a buffer of three, so that a
  stream cannot finish before its server has begun and datagrams get lost; one
  failed connect. Two instances of a file benchmark with files of two blocks, one
  measure each between init and cleanup, one failing call: every callback of one
  meets every callback of the other at every system call. The theorems remove these
  bounds, too.

### Fairness

Only what a scheduler gives: each thread or process that can take its next step
eventually takes it (weak fairness per thread). No failure, crash or lost
connection is ever required to happen, and the harness is not obliged to call
`measure` again. `RunInstance` and `HarnessRun` are sequential: weak fairness of
the next step says that callbacks return, which for the two runners is
`Terminates` of the modules below them. A semaphore waiter or a thread in
`accept()` needs no strong fairness here: the properties hold with the weak one.
Deadlock is checked everywhere but in `thread_benchmarks`, `io_benchmarks` and
where else the configuration says so: the ping-pongs and a refused caller can
really stop, and an instance that has cleaned up is over.

## 4. Where the code and its words differ

Four disagreements have a run of their own (section 3) and a finding in
`PROJECT.json`. The others below were met while the modules were written; the
models follow the code in every case.

* harness.c:472: when `pipe()` fails for instance *i*, the *i* children already
  forked are neither killed nor waited for (`ParallelRun`, `PipeFails`).
* harness.c:144: the clamp to `min_iterations` raises the count without measuring;
  `stats_compute` then reads cells that were never written, and with a minimum
  above 31 cells behind the array (`HarnessRun`, `Clamped`).
* harness.c:149: a loop capped after one sample yields a "completed" subtest with
  statistics that are all zero, since `stats_compute` refuses n < 2
  (README.md:287 promises 5-31 iterations).
* harness.c:733: `max_iterations` of the configuration has no effect on
  benchmarks run as several instances (README.md:37).
* scoring.c:61: a score that is not positive counts as 1.0, which is above a
  small positive one (README.md:307: higher is better).
* scoring.c:94: every score has weight 1.0; the table of category weights, which
  the comment at line 89 announces, is not read.
* cswitch_futex.c:79-82 and cswitch_pipe.c:38, 89: either ping-pong can end with one
  side waiting for a peer that has finished. `EveryCallReturns` says that this is
  the *only* way not to return.
* sync_mpmc.c:48: the item 0 is taken for an empty queue and never counted.
* sync_semaphore.c:63: the reported wakeups are posts, whether or not anybody woke.
* ipc_pipe.c:72: `measure` closes the pipe and nobody makes another; from the
  second call on the writes fail, unchecked, and are counted. `ReportsWhatMoved` is
  therefore stated of calls that find the pipe open.
* net_tcp.c:60 (warmup) and net_latency.c:75: when the connect is refused the caller
  joins a thread that is still in `accept()`, which nothing wakes.
* net_zero_copy.c:87 and 89: `measure` returns -1 without joining its thread. The
  listener is shut down by every call and made again only by warmup (line 102).
* net_udp.c:71: a full receive buffer drops datagrams silently, and what is left
  in it is counted by the next call.
* harness.c:386 speaks of independent processes; the instances of the `fs_*` and
  `script_*` benchmarks share their paths below /tmp and unlink them under each
  other. `ReportsWhatMoved` says when that matters.
* script_python.c and script_shell.c count a run whenever the fork succeeded, also
  when there was no script to run; `moved` counts the runs of a whole script.
* fs_copy.c:73: a block that was read is counted, written or not.
* stats.c:268: the generalized ESD test the comment names looks at all candidates;
  the loop stops at the first that is not significant.
* stats.c:372: equal samples get the lowest of their ranks instead of the mean, so
  `U1` can be negative.
* harness.c:359, 491, 525: a sibling list that cannot be read can leave a core
  number without a CPU; the instance number is then taken for a CPU, and indexes
  `s_cpu_to_numa` beyond its end if there is none such.
* main.c:234: `--reference` is stored and never read. Nothing calls
  `scoring_load_reference` or `scoring_normalize`, although README.md:32 and 307
  and the comment at harness.c:750 announce scores relative to a reference.
* main.c:380-393: the path of a document is printed whether or not it was written.
  output.c:73: the reliability of a failed subtest is a null pointer where a string
  is printed.
* scoring.c:50: the score arrays take 64 subtests; the registry takes 128
  (benchmark.c:7), and nothing compares the two. 66 are registered today.
* config/default.cfg:12 calls peak mode "locked frequency"; nothing calls
  `system_lock_frequency_peak`, nor the restore, nor the noise snapshot.
* system.c:354: locking again empties the count but reads as original what the first
  lock wrote; a restore after two locks gives "performance" (`RestoreUndoesLock`
  says that this is the only other outcome).
* system.c:371: the lock loop ends at the first CPU whose governor does not open for
  writing, after it was remembered and before it is counted; the CPUs behind it are
  left as they were, and the function reports success.
* main.c:253: "Physical cores" is the number of logical CPUs that are online, and
  "Logical threads" the number configured, where SMT is seen (system.c:39-61).
* system.c:303: a cache size such as "32K" is read as 32 and divided by 1024. The
  memory of a node stays 0, since the lines of its meminfo begin with "Node".
* system.c:252: without a distance file a node gets as many made-up distances as
  there are nodes, up to 64, in an array of 16 (`SystemProbe`, `overrun`).
* system.c:327: the default for the caches is written without looking at the
  allocation (`SystemProbe`, `DefaultCaches`).
* validate.c:15: the status is "ready" before any check has run, and stays so when
  one of them is an error.
* sync_spinlock.c:68 speaks of contention between automatically scaled threads;
  `measure` runs one thread.
* main.c:196-215: the pre-scan takes the first `--config`, getopt reports the last.
* main.c:225: `--benchmark` adds to the names of the configuration file.
* main.c:222: a repeated `--tier` keeps the last one (config/default.cfg:42).
* main.c:153: `XDG_CONFIG_HOME`, a directory, is itself taken for the file
  (README.md:367).

## 5. What is proved

TLAPS checks eight modules of theorems; `PROJECT.json` lists the results under
`theorems`. Together they state every property of the passing runs but the liveness
ones. Their assumptions are the named ones of the modules, which TLC evaluates in every
run, and where a theorem needs one more it is in its statement: one producer and one
consumer of the ring, a transfer larger than the socket buffers. Hardly any of the
safety properties below is inductive: each module first proves an inductive invariant
for every value of the constants.

The prover cannot instantiate the induction schemes of its library, which take an
operator as a parameter. Where numbers or lengths have to be reached one after the
other, the proofs use that `<` is well founded on `Nat` (`NatLessThanWellFounded`,
`WFMin`): a non-empty set of natural numbers has a least element (`HasSmallest`, `LeastOf`), so
an explicit set that holds 0 and the successor of each of its members holds every
natural number (`ByInduction`).

**RunInstance, for every limit on iterations and time.** `IInv` joins to the type

* `LifeInv`: the state is live exactly between `init` and the one `cleanup`;
* `PerfInv`: both counters are open or none is, and only around a call;
* `ClockInv`: the thread's clock is behind the wall clock, and in front of a call
  the wall clock is below the cap, which is why the CPU guard never decides;
* `StopInv`, `ReturnInv`: what ended the loop still holds when the function returns,
  and `*iter_out` is written on success only.

From it follow `CleanedUpOnce` (`CleanupExactlyOnce`), `CountersBalanced`
(`PerfCountersBalanced`), `StopsForAReason` (`StopJustified`) and `Refinement`
(`ImplementsContract`).

**ParallelRun, for every number of instances and every set of results.**
`Inductive` proves `Spec => []IInv`, where `IInv` is the conjunction of

* `TypeOK` and `LoopInv`: the loop variable is in range where it is used;
* `PidsInv`: `pids[k]` is unset exactly for the instances the creation loop has
  not reached, and is a child exactly if there is one;
* `ChildInv`: the message in a pipe is the result of its own child, and is there
  by the time that child has exited normally or was collected;
* `ReapInv`: a child whose turn in the waiting loop is over has been reaped, by
  its own wait or by the `waitpid(-1)` of a failed fork;
* `CollectInv`, `VerdictInv`: what the parent has collected, and what the flag
  `any_failed` and the verdict say about it;
* `ReadEndInv`, `WriteEndInv`: who holds which end of which pipe at which point
  of the loops.

The last two are why `ReadNeverBlocks` holds (the parent has closed its own
write end, later children never had it, and the child itself is gone); the
middle ones are why a result cannot be somebody else's. From `IInv` follow
`TypeCorrect`, `Attribution` (`ResultsAttributed`), `Soundness`
(`NoFalseAlarm`), `Reaping` (`ChildrenReaped`), `NonBlockingRead`
(`ReadNeverBlocks`), `NoDescriptorLeak` (`DescriptorsReleased`), `NoSigpipe`
(`PipeKeptForChild`: a child that still has to report has a reader) and
`Refinement` (`ImplementsForkJoin`: every step is a step of `ForkJoin` or a
stutter under the mapping at the end of `ParallelRun`).

**HarnessRun, for every registry and every set of configurations.** `LoopInv` says
that the slots in use never get ahead of the loop, so that a slot exists for every
run; `FreshInv` that a slot not in use, or whose run failed, has no statistics;
`OwnInv` what the samples of a slot may be and whom they may have hit; `ZeroInv` and
`ScoreInv` that scores are zero before the end and stay so without statistics.
`StatsOwn` (`StatsOfOwnRun`) needs all of them, since a neighbour's overflow reaches
slots that have not run yet. `SelectedInOrder` (`SelectionInOrder`) counts: `FrontInv`
says that the registry is the front of the list of constructors, cut off where it is
full, and `OrderInv` that the slots in use hold the selected ones among those the loop
has passed, each in the slot whose number is how many of them there are up to it.

**Startup, for every input.** `IInv` says that the part that runs keeps its own
invariant.

* `ConfInv` (configuration; any file, any argument list, any size of the filter):
  every setting is what the lines, then the arguments, read so far have made of it,
  and the filter holds the first of the names among them (`Collected`). `Settled` is
  what this comes to after the last argument. From it `LastOneWins` (`Precedence`).
* `PlaceInv` (placement; any machine, pin list, override, number of instances): the
  nodes shown are those of the override (`ShownAs`), the tables are whole cores,
  numbered without a gap (`CoresNumbered`), and the instances made so far take their
  CPUs in turn (`InTurn`). `CoresFound` proves of the recursive function `Scan` that
  it exists and finds whole cores; `Flattened` the same of the concatenation of the
  parts of a list. `CoresInTurn` (`InstancesApart`) rests on `TurnsAlike`: of *l* things
  dealt out to *m* in turn, no two get numbers that differ by more than one.
  `MemoryAtItsCpu` (`MemoryWhereShown`) compares the policy with the nodes.
* `ProbeInv` (probe; any machine, any failures): what has been read so far is the
  machine's and as much of it as has been counted (`ShownFromSysfs`), or the default
  (`ShownByDefault`), and a default is there only for something that failed or is not
  there (`FailedInv`). From it `ProbeIsTrue` (`ProbeShowsMachine`). A sibling list is
  assumed to be one the kernel writes: in increasing order, no CPU twice, and a range
  only of two CPUs or more.
* `FreqInv` (frequency lock; any number of CPUs and set of governors): `UnlockedInv`,
  `LockedInv` and `LockedOnceInv` say what the table of governors and the governors
  themselves are at every point of the loops after none, any number and exactly one
  call of lock; `LoopInv` where the loop variables stand. `LockUndone`
  (`RestoreUndoesLock`) reads them at the end of the restore.

`TypesKept` (`TypeOK`) says of all four that no list outgrows its array.

**SyncSemaphore, for every number of waiters, posts and calls.** `Inductive` ties
the semaphore to main's loop variable: `PostsInv` bounds it by what has been
posted so far in the finished calls and in this one, `LoopInv` says what the
loop variable is at each point, `DoneInv` that `done` is set before the release
loop. `NobodyStranded` (`NoWaiterStranded`) needs the counting argument: a waiter
that commits to wait after `done` does not exist, so the committed ones only
become fewer, each by taking one post. `Leftover` bounds what the calls leave in
the semaphore (`LeftoverBounded`), which with 33 calls stays far from
`SEM_VALUE_MAX`.

**ThreadBenchmarks, for every number of rounds, items, operations and CPUs.**
The ping-pongs: `NoWakeIsLost` (`NoLostWake`), and `PipeLeftEmpty`, one of the
parts of `CountsOwnWork`. Its invariant `PipeInv` says that the pipe holds the
byte of ping less the one pong has taken and not put back; a pong that breaks
off with ping's byte leaves a ping that never ends, so that a call that returns
has not lost one. The queue, for one producer and one consumer, any size of
ring, any number of items and any number of calls: `RingIsQueue`
(`QueueImplementsFifo`, the refinement of `BoundedFifo`) and
`NothingStaysInside`, another part of `CountsOwnWork`. Their invariant
`QueueInv` has three parts: `RingInv`, which says that the cells from `head` to
`tail` hold, in order, what was sent and not received; `ProducerInv`, that the
room the producer has seen cannot shrink and that it counts after it publishes;
`ConsumerInv`, that the item the consumer has seen stays until it takes it, and
that it drains only after the last item is in. That the two thread sets have one
element each is an assumption of the theorems: `mpmc_queue_twice` shows that two
consumers break the queue.

The benchmarks that only count (mutex, rwlock, SMT, thread creation) have `WorkInv`:
`MainInv` and `WorkerInv` say which workers exist and how far each is, `LockInv` who
holds the lock, and `CountInv` that the two counters are the cardinality of the set
of operations done (`Done`: a pair of a worker and a number for each), so that a step
adds one element and one to the count. `CallsCountOwnWork` (`CountsOwnWork`) joins the
three kinds of benchmark; `ThreadTypesCorrect` (`TypeOK`) needs `FutexRoundsInv` and
`PipeTypes` for the loop variables.

**IoBenchmarks, for every number of messages, connections, datagrams, blocks, passes,
instances and failures.** `IoInv` is the conjunction of

* `ConnInv` (connection rate): a successful measure has accepted what it counts, and
  the accept queue is empty between calls;
* `StreamInv` (TCP, latency, zero copy, UDP): `StreamShape` says that the caller has
  an end of one of its plans left, and one conjunct per stretch of a call
  (`Unconnected`, `Refusal`, `Talking`, `Closing`, `Stopping`, `Rejoined`, `Between`)
  where the messages of this call are: counted, under way, or not sent. The sums of
  what was sent and counted are kept by each of them (`Traffic` for UDP and latency);
* `IpcInv` (two-process pipe): `Numbers` and `Descriptors` say what the two descriptor
  numbers mean at each point, perf counters and the pipe that warmup forgets included,
  `Progress` how far the run is, `Transfer` where the messages are;
* `FixtureInv` (file and script benchmarks, any number of instances on the same two
  paths): `Scripted` says that every instance has the end of one of its lists of system
  calls left; `Owed` that a file or directory that exists has an instance that will
  still remove it; `OpenToClose` that an open descriptor will be closed;
  `Counters` and `Amounts` what the loops have counted. As long as nothing failed and
  no other instance has cleaned up, `Made`, `Opened` and `Filled` say which files are
  there, open and whole, and `WholeSoFar` that an undisturbed measure has moved all
  it should have at that point.

From it `TypesStay` (`TypeOK`), `NothingIsLeftBehind` (`EndsClean`) and `ReportsAreTrue`
(`ReportsWhatMoved`). The last assumes that a transfer is larger than the socket
buffers, as the sizes in net_zero_copy.c are: a sendfile that fits into them can end
before the sink has accepted, and the shutdown then drops the connection with all it
holds. Besides that: warmup makes no more connections than measure, and there are
finitely many instances.

**Results, for every number of subtests, samples and lines.** The loops over arrays are
recursive functions, about which nothing is known before it is shown that there is such
a function: `Iterates` does so by induction, for any function whose value at an index
is computed from the one before, and `UpTo` carries a fact from each index to the next.
`ResultsInv` says that the part that runs keeps its own invariant.

* `ScoreInv` (scoring): what has been gathered for a pillar has the sum and the number
  of the subtests that are rated (`Gathered`). `Irrelevant` and `Higher` then compare
  two sums: one score more, or one score raised. From it `PillarsFollow`
  (`ScoresFollowResults`).
* `TestInv` (outlier removal): `Working` says that the working set is what is not
  marked, each sample with its value under its own index, and that every marked one is
  above or below all of it. It needs that the exchange sort returns its input in
  another order and rising (`Sorts`: each pass leaves a least element in its place), and
  that the furthest of a set from its mean is its greatest or its least
  (`FurthestIsExtreme`). From it `OutliersOutside` (`OutliersAreExtreme`).
* `RanksAreCounts` (`RanksCountPairs`) has no step to follow: it is about the three
  operators, and rests on the sort, too. `RankSumLessLeast`: a rank is one more than the
  number of lesser records (`RankIs`), so the sum of the ranks counts pairs
  (`RankSumCounts`), which the order of the records does not change (`UnderIsBelow`);
  of these, n (n + 1) / 2 less the even ones are within the first group (`Square`).
  `ShiftTurned`: the differences of the one order are those of the other with their
  signs changed, so that the middle ones are at the mirrored place. `KeepsWhatItShould`:
  a place in the sorted array counts the values that are no greater (`OrderStatistic`),
  and the threshold is the last value within its limit (`LimitIsLast`).
* `PaperInv` (documents and reference): an unedited reference has one line for each
  subtest with statistics, in their order, but perhaps a last line that was cut
  (`AsWritten`); the reader has filled `idx` entries of the `n` it has counted, with
  the first entries among the lines (`ReadSoFar`). From it `ReadsBack`
  (`ReferenceReadBack`).

`TypesHold` (`TypeOK`) is about all three.

**Model-checked only.** Every liveness property (`Terminates`, `CallReturns`,
`EveryCallReturns`), since liveness under fairness is beyond the prover.
The four runs that expect a violation show it on their own instances.

## 6. What is not modelled

* **Splitting of CPU and NUMA specifications** at commas, dashes and colons, and of
  /sys files into numbers.
* **Statistics** that are real arithmetic: the moments and their intervals,
  quantiles, bootstrap, Anderson-Darling, Welch. TLC has integers only, and
  replacing them by choices would leave nothing to check.
* **Scoring formulas** without state: the interval of a score, the CPU efficiency and
  the estimate of the run time.
* **What is printed**: the formatting of the documents, the terminal summary, and
  `validate.c`, which prints a fixed list of checks and keeps nothing.
* **The noise snapshot and the single readings** (system.c:417-557: interrupts,
  temperatures, frequencies, the hypervisor), which keep nothing, and the names,
  frequencies and sizes of memory the probe reads.
* **The spin lock, eventfd, signal and socket pair benchmarks**: one thread of one
  process that locks and unlocks, writes and reads, or sends and receives in turn.
  Nothing interleaves, and their life cycle is `RunInstance`.
* **Compute, crypto, memory, NUMA, process, syscall and virtualisation benchmarks**:
  sequential loops around a kernel, a system call or a child that is waited for at
  once; their life cycle is `RunInstance`.
* **Weak memory**: every model is sequentially consistent. For one producer and one
  consumer the release store and acquire load of `tail` order the item.
* **Failing `pthread_create`** in the threaded benchmarks that do not check it:
  joining an uninitialized handle is undefined, and no property could be stated of
  what follows.
* **Children left behind** when `pipe()` fails (harness.c:472) are in `ParallelRun`
  as they are; no property says that they should not be there.

## 7. Plan

Done, in this order: the instance runner and its contract; the fork/pipe runner,
its contract and its proofs; the benchmark loop; scoring; the handover benchmarks;
the queue and its contract; the semaphore and its proofs; the two-process pipe;
the connection rate; the configuration; the network streams; the workers; the
shared files; the topology; the algorithms of the statistics; the proofs of the
instance runner; the registry; the frequency lock and its proofs; the system probe;
documents and reference; the proofs of the benchmark loop, of the ping-pongs and of
the ring; the proofs of the order of the slots, of the workers, of the I/O benchmarks
and of all that is settled before the first benchmark; the proofs of what becomes of
the samples.

What could follow:

1. A model of the C11 memory order of the ring, if the benchmarks are to be run on
   weakly ordered machines with more than the two threads.
2. The ring with several producers and one consumer, as theorems.
