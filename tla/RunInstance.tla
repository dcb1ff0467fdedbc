----------------------------- MODULE RunInstance -----------------------------
(***************************************************************************)
(* run_benchmark_instance of src/core/harness.c: one benchmark's lifecycle  *)
(* in the current process.  init, optional warmup, two discarded measure    *)
(* calls, then the convergence loop, then cleanup.  The two perf counters   *)
(* are opened and closed around every measured call.                        *)
(*                                                                          *)
(* A benchmark's callbacks are the environment: each may fail, measure may  *)
(* take any time up to MaxStep, and whether SEM/mean has reached the target *)
(* is a choice made when the loop looks.  Time is in whole units.           *)
(***************************************************************************)
EXTENDS Integers, Sequences, FiniteSets

CONSTANTS
  MaxIter,     (* bench->max_iterations, or SSB_MAX_ITERATIONS              *)
  MinIter,     (* bench->min_iterations, or SSB_MIN_ITERATIONS              *)
  MinRuntime,  (* bench->min_runtime_sec, or SSB_MIN_RUNTIME_SEC            *)
  MaxRuntime,  (* bench->max_runtime_sec, or SSB_MAX_RUNTIME_SEC            *)
  MaxStep      (* bound: the longest wall time of one measure call          *)

ASSUME LimitsAssumption ==
  /\ MaxIter \in Nat \ {0}
  /\ MinIter \in Nat \ {0}
  /\ MinRuntime \in Nat
  /\ MaxRuntime \in Nat \ {0}
  /\ MaxStep \in Nat

VARIABLES
  pc,        (* where the function stands                                   *)
  state,     (* the benchmark's state: "none", "live" or "freed"            *)
  ret,       (* the result of the last callback, in the end the one returned *)
  calls,     (* number of measure calls made                                *)
  values,    (* values_out: for each sample the measure call it came from   *)
  iterOut,   (* *iter_out, Unset until assigned                             *)
  wall,      (* time since wall_start on the monotonic clock                *)
  cpu,       (* time since cpu_start on the thread's CPU clock              *)
  fds,       (* the counters whose local (fdi, fdc) holds a descriptor      *)
  perfOpen,  (* counter descriptors open in the kernel                      *)
  cleanups,  (* number of cleanup calls made                                *)
  why        (* the test that ended the loop                                *)

vars == << pc, state, ret, calls, values, iterOut, wall, cpu, fds, perfOpen,
           cleanups, why >>

Unset == -1
Counters == {"insns", "cycles"}
Discarded == 2
Reasons == {"none", "count", "converged", "wall", "cpu"}
Labels == {"init", "warmup", "discard", "loop", "measure", "record", "finish",
           "done"}

iter == Len(values)

TypeOK ==
  /\ pc \in Labels
  /\ state \in {"none", "live", "freed"}
  /\ ret \in {0, -1}
  /\ calls \in Nat
  /\ values \in Seq(Nat) /\ Len(values) <= MaxIter
  /\ iterOut \in Nat \cup {Unset}
  /\ wall \in Nat
  /\ cpu \in Nat
  /\ fds \in SUBSET Counters
  /\ perfOpen \in 0..2
  /\ cleanups \in Nat
  /\ why \in Reasons

Init ==
  /\ pc = "init"
  /\ state = "none"
  /\ ret = 0
  /\ calls = 0
  /\ values = << >>
  /\ iterOut = Unset
  /\ wall = 0
  /\ cpu = 0
  /\ fds = {}
  /\ perfOpen = 0
  /\ cleanups = 0
  /\ why = "none"

CleanupAndReturn_Forgotten ==
  pc' = "done" /\ UNCHANGED << state, cleanups >>

(* bench->cleanup(state); return ret;                                       *)
CleanupAndReturn ==
  /\ state' = "freed"
  /\ cleanups' = cleanups + 1
  /\ pc' = "done"

(* A failed init returns at once: there is no state to clean up.  A         *)
(* benchmark whose warmup is NULL goes on to the discarded calls.           *)
InitBench ==
  /\ pc = "init"
  /\ \/ /\ ret' = 0
        /\ state' = "live"
        /\ pc' \in {"warmup", "discard"}
     \/ /\ ret' = -1
        /\ pc' = "done"
        /\ UNCHANGED state
  /\ UNCHANGED << calls, values, iterOut, wall, cpu, fds, perfOpen, cleanups,
                  why >>

WarmupBench_Retries ==
  /\ pc = "warmup"
  /\ ret' \in {0, -1}
  /\ IF ret' # 0
     THEN pc' = "init" /\ state' = "none"
     ELSE pc' = "discard" /\ UNCHANGED state
  /\ UNCHANGED << cleanups, calls, values, iterOut, wall, cpu, fds, perfOpen,
                  why >>

WarmupBench ==
  /\ pc = "warmup"
  /\ ret' \in {0, -1}
  /\ IF ret' # 0
     THEN CleanupAndReturn
     ELSE pc' = "discard" /\ UNCHANGED << state, cleanups >>
  /\ UNCHANGED << calls, values, iterOut, wall, cpu, fds, perfOpen, why >>

(* Two full measure calls whose results are thrown away.  The clocks start  *)
(* after the second.                                                        *)
DiscardMeasure ==
  /\ pc = "discard"
  /\ calls' = calls + 1
  /\ ret' \in {0, -1}
  /\ IF ret' # 0
     THEN CleanupAndReturn
     ELSE /\ pc' = IF calls' < Discarded THEN "discard" ELSE "loop"
          /\ UNCHANGED << state, cleanups >>
  /\ UNCHANGED << values, iterOut, wall, cpu, fds, perfOpen, why >>

MoreIterations_OffByOne == iter <= MaxIter

(* The condition of the loop.                                               *)
MoreIterations == iter < MaxIter

(* The head of the loop with _perf_counters_start.  Either open may fail;   *)
(* unless both succeed the one that was opened is closed again.             *)
StartCounters ==
  /\ pc = "loop"
  /\ MoreIterations
  /\ pc' = "measure"
  /\ \E opened \in SUBSET Counters :
       LET kept == IF opened = Counters THEN opened ELSE {}
       IN  /\ fds' = kept
           /\ perfOpen' = perfOpen + Cardinality(kept)
  /\ UNCHANGED << state, ret, calls, values, iterOut, wall, cpu, cleanups,
                  why >>

ExhaustIterations ==
  /\ pc = "loop"
  /\ ~MoreIterations
  /\ pc' = "finish"
  /\ why' = "count"
  /\ UNCHANGED << state, ret, calls, values, iterOut, wall, cpu, fds,
                  perfOpen, cleanups >>

ClocksAdvance_ProcessClock ==
  \E d \in 0..MaxStep : wall' = wall + d /\ cpu' \in cpu..(cpu + 4 * d)

(* What the two clocks may show after a call: CLOCK_THREAD_CPUTIME_ID counts *)
(* the calling thread alone, so it advances no faster than the wall clock.  *)
ClocksAdvance ==
  \E d \in 0..MaxStep :
    /\ wall' = wall + d
    /\ cpu' \in cpu..(cpu + d)

MeasureBench ==
  /\ pc = "measure"
  /\ pc' = "record"
  /\ calls' = calls + 1
  /\ ret' \in {0, -1}
  /\ ClocksAdvance
  /\ UNCHANGED << state, values, iterOut, fds, perfOpen, cleanups, why >>

StopCounters_OneOnly ==
  perfOpen' = perfOpen - Cardinality(fds \ {"cycles"}) /\ fds' = {}

(* _perf_counters_stop closes whatever the locals hold.                     *)
StopCounters ==
  /\ perfOpen' = perfOpen - Cardinality(fds)
  /\ fds' = {}

(* values_out[iter++] = m.primary_metric;                                   *)
StoreSample == values' = Append(values, calls)

(* The tests after a sample is stored, in the order of the code.  n is the  *)
(* new iteration count, small says that SEM/mean is at most the target.     *)
Verdict(n, small) ==
  IF n >= MinIter /\ small /\ wall >= MinRuntime THEN "converged"
  ELSE IF wall >= MaxRuntime THEN "wall"
  ELSE IF cpu > 2 * MaxRuntime THEN "cpu"
  ELSE "none"

RecordSample ==
  /\ pc = "record"
  /\ StopCounters
  /\ IF ret # 0
     THEN CleanupAndReturn /\ UNCHANGED << values, why >>
     ELSE /\ StoreSample
          /\ \E small \in BOOLEAN : why' = Verdict(iter + 1, small)
          /\ pc' = IF why' = "none" THEN "loop" ELSE "finish"
          /\ UNCHANGED << state, cleanups >>
  /\ UNCHANGED << ret, calls, iterOut, wall, cpu >>

Finish_ReportsMinimum ==
  /\ pc = "finish"
  /\ CleanupAndReturn
  /\ iterOut' = MinIter
  /\ ret' = 0
  /\ UNCHANGED << calls, values, wall, cpu, fds, perfOpen, why >>

Finish ==
  /\ pc = "finish"
  /\ CleanupAndReturn
  /\ iterOut' = iter
  /\ ret' = 0
  /\ UNCHANGED << calls, values, wall, cpu, fds, perfOpen, why >>

(* The function has returned: nothing more happens.                         *)
Returned ==
  /\ pc = "done"
  /\ UNCHANGED vars

Next ==
  \/ InitBench
  \/ WarmupBench
  \/ DiscardMeasure
  \/ StartCounters
  \/ ExhaustIterations
  \/ MeasureBench
  \/ RecordSample
  \/ Finish
  \/ Returned

(* The function is straight-line code in one thread: it keeps running as    *)
(* long as every callback returns.                                          *)
Fairness == WF_vars(Next)

Spec == Init /\ [][Next]_vars
FairSpec == Spec /\ Fairness

-----------------------------------------------------------------------------
(* Every return path cleans the benchmark up exactly once if init made a    *)
(* state, and never if it did not (harness.c:66, 72, 80, 104, 128).         *)
CleanupExactlyOnce ==
  pc = "done" => cleanups = (IF state = "none" THEN 0 ELSE 1)

(* Outside the measured call no perf descriptor is open, whichever of the   *)
(* two opens failed and whether or not measure failed (harness.c:37-51):    *)
(* thirty-one iterations must not eat the descriptor table.                 *)
PerfCountersBalanced ==
  perfOpen = IF pc \in {"measure", "record"} THEN Cardinality(fds) ELSE 0

(* A successful run hands over as many samples as *iter_out says, and it    *)
(* ends before the minimum number of iterations or the minimum run time     *)
(* only because a cap was hit (harness.c:94, 111-119); the CPU-time test of *)
(* harness.c:120-125 never decides, for the CPU clock of one thread cannot  *)
(* pass twice the limit before the wall clock has ended the loop.           *)
StopJustified ==
  /\ pc = "done" /\ ret = 0 =>
       /\ iterOut = iter
       /\ iterOut \in 1..MaxIter
       /\ (iter < MinIter \/ wall < MinRuntime) =>
            (wall >= MaxRuntime \/ iter = MaxIter)
  /\ why # "cpu"

(* Whatever the clocks and the samples do, the function returns.            *)
Terminates == <>(pc = "done")

(* The function refines its contract.                                       *)
Contract == INSTANCE InstanceContract WITH
  phase  <- CASE pc = "init" -> "ready"
              [] pc = "done" -> "over"
              [] OTHER -> "running",
  filled <- iter,
  held   <- (state = "live" \/ perfOpen # 0)

ImplementsContract == Contract!Spec
=============================================================================
