------------------------------ MODULE HarnessRun ------------------------------
(***************************************************************************)
(* The registry (src/core/benchmark.c) and the benchmark loop of harness_run *)
(* (src/core/harness.c) with its two runners seen from outside: which       *)
(* benchmarks are registered, which of them a configuration selects,        *)
(* which runner each takes, what becomes of the samples on the way into the *)
(* subtests array, and the normalized score of each subtest at the end.     *)
(*                                                                          *)
(* A runner's inside is in RunInstance and ParallelRun; here it fails, or   *)
(* it delivers some number of samples per instance.  The array is modelled  *)
(* as the memory it is: statistics that do not fit into raw_values run on   *)
(* into the slots behind.                                                   *)
(***************************************************************************)
EXTENDS Integers, Sequences, FiniteSets

CONSTANTS
  Benchmarks,  (* the benchmarks, in the order of their constructors:       *)
               (* records of name, tier, category, single (num_threads is   *)
               (* 1) and hib (higher_is_better)                             *)
  MaxBenchmarks,  (* MAX_BENCHMARKS, 128                                    *)
  Configs,     (* configurations: records of tiers, category (Any: no       *)
               (* filter), names ({}: no filter), n, minIter, maxIter (0:   *)
               (* not set) and reportable                                   *)
  Iterations,  (* bound: the sample counts an instance may end with         *)
  Any,         (* no category filter                                        *)
  None         (* an empty field                                            *)

RawCapacity == 31        \* SSB_MAX_ITERATIONS, cells of stats.raw_values
PoolCapacity == 31 * 32  \* cells of all_values in harness_run_parallel
TailCells == 2           \* normalized_score and status, behind raw_values
SlotCells == 42          \* eight-byte cells of a subtest_result_t

ASSUME IterationsAssumption == Iterations \subseteq 1..RawCapacity
ASSUME RegistryAssumption ==
  MaxBenchmarks \in Nat /\ Len(Benchmarks) \in Nat /\ DOMAIN Benchmarks = 1..Len(Benchmarks)
ASSUME ConfigsAssumption ==
  \A c \in Configs : c.n \in Nat \ {0} /\ c.minIter \in Nat /\ c.maxIter \in Nat

Names == {Benchmarks[k].name : k \in DOMAIN Benchmarks}

ASSUME NoneAssumption == None \notin {"completed", "failed"} \cup Names

VARIABLES
  conf,      (* the configuration of this run                               *)
  pc,
  registry,  (* _benchmarks                                                 *)
  b,         (* index of the benchmark the loop, or its constructor, is at  *)
  subtests,  (* the array, one slot per registered benchmark                *)
  count,     (* result->subtest_count                                       *)
  beyond     (* cells written behind the end of the array                   *)

vars == << conf, pc, registry, b, subtests, count, beyond >>

Slots == DOMAIN subtests
Current == registry[b]

(* A benchmark_stats_t: whose samples it summarizes, how many it claims     *)
(* (iterations), how many of those an instance measured, whether cv is at   *)
(* least SSB_CV_HIGH, and whether a neighbour's samples overwrote it.       *)
Stats == [from : Names \cup {None}, iterations : Nat, measured : Nat,
          high : BOOLEAN, dirty : BOOLEAN]

NoStats == [from |-> None, iterations |-> 0, measured |-> 0,
            high |-> FALSE, dirty |-> FALSE]

(* A subtest_result_t.                                                      *)
Subtests == [bench : Names \cup {None}, stats : Stats, score : {"zero", "value", "garbage"},
             status : {None, "completed", "failed"}]

TypeOK ==
  /\ conf \in Configs
  /\ pc \in {"register", "select", "run", "cool", "done", "error"}
  /\ registry \in Seq({Benchmarks[k] : k \in DOMAIN Benchmarks})
  /\ b \in 1..Len(Benchmarks) + 1
  /\ subtests \in [IF pc \in {"register", "error"} THEN {} ELSE DOMAIN registry -> Subtests]
  /\ count \in 0..Len(registry)
  /\ \A k \in 1..count : subtests[k].status # None
  /\ beyond \in Nat

Init ==
  /\ conf \in Configs
  /\ pc = "register"
  /\ registry = << >>
  /\ b = 1
  /\ subtests = << >>
  /\ count = 0
  /\ beyond = 0

(* A constructor, before main; a benchmark too many is ignored.             *)
benchmark_register ==
  /\ pc = "register"
  /\ b <= Len(Benchmarks)
  /\ registry' = IF Len(registry) < MaxBenchmarks THEN Append(registry, Benchmarks[b])
                 ELSE registry
  /\ b' = b + 1
  /\ UNCHANGED << conf, pc, subtests, count, beyond >>

(* calloc zeroes the array.                                                 *)
Start ==
  /\ pc = "register"
  /\ b > Len(Benchmarks)
  /\ pc' = "select" /\ b' = 1
  /\ subtests' = [k \in DOMAIN registry |-> [bench |-> None, stats |-> NoStats,
                                            score |-> "zero", status |-> None]]
  /\ UNCHANGED << conf, registry, count, beyond >>

NoRoom ==
  /\ pc = "register"
  /\ b > Len(Benchmarks)
  /\ pc' = "error"
  /\ UNCHANGED << conf, registry, b, subtests, count, beyond >>

(* The three filters: the tier bit, the category, the list of names.        *)
Selected(c, bench) ==
  /\ bench.tier \in c.tiers
  /\ c.category \in {Any, bench.category}
  /\ c.names = {} \/ bench.name \in c.names

Skip ==
  /\ pc = "select"
  /\ b <= Len(registry)
  /\ ~Selected(conf, Current)
  /\ b' = b + 1
  /\ UNCHANGED << conf, pc, registry, subtests, count, beyond >>

Slot_OffByOne == IF count = 0 THEN 1 ELSE count

(* The slot of the benchmark that runs now.                                 *)
Slot == count + 1

(* sr->bench = b.                                                           *)
Select ==
  /\ pc = "select"
  /\ b <= Len(registry)
  /\ Selected(conf, Current)
  /\ subtests' = [subtests EXCEPT ![Slot].bench = Current.name]
  /\ pc' = "run"
  /\ UNCHANGED << conf, registry, b, count, beyond >>

-----------------------------------------------------------------------------
(* What the samples become.                                                 *)

(* Single mode clamps the iteration count into the configured limits; the   *)
(* lower one may raise it above the number of samples measured.             *)
Clamped(n) ==
  LET down == IF conf.maxIter > 0 /\ n > conf.maxIter THEN conf.maxIter ELSE n
  IN  IF conf.minIter > 0 /\ down < conf.minIter THEN conf.minIter ELSE down

(* Parallel mode pools one mean per instance if higher is better, and every *)
(* sample of every instance if lower is better; the configured limits are   *)
(* not consulted.                                                           *)
Pooled(n) ==
  LET all == IF Current.hib THEN conf.n ELSE conf.n * n
  IN  IF all > PoolCapacity THEN PoolCapacity ELSE all

(* memcpy(out->raw_values, values, n * sizeof(double)) into slot k: what    *)
(* raw_values and the rest of the slot do not take lands in the slots       *)
(* behind it.                                                               *)
Spilled(n) == n - RawCapacity - TailCells

Hit(k, n) == {j \in Slots : j > k /\ Spilled(n) > SlotCells * (j - k - 1)}

PastEnd(k, n) ==
  LET past == Spilled(n) - SlotCells * (Len(registry) - k)
  IN  IF past > 0 THEN past ELSE 0

(* stats_compute does nothing with fewer than two values; its result is not *)
(* looked at.                                                               *)
Store(k, n, measured, isHigh) ==
  IF n < 2
  THEN subtests' = [subtests EXCEPT ![k].status = "completed"] /\ UNCHANGED beyond
  ELSE LET s == [from |-> Current.name, iterations |-> n, measured |-> measured,
                 high |-> isHigh, dirty |-> FALSE]
       IN  /\ subtests' = [j \in Slots |->
                CASE j = k -> [subtests[j] EXCEPT !.stats = s,
                                                  !.status = "completed"]
                  [] j \in Hit(k, n) -> [subtests[j] EXCEPT !.stats.dirty = TRUE]
                  [] OTHER -> subtests[j]]
           /\ beyond' = beyond + PastEnd(k, n)

Failed_NoStatus(k) == UNCHANGED << subtests, beyond >>

Failed(k) == subtests' = [subtests EXCEPT ![k].status = "failed"] /\ UNCHANGED beyond

Parallel == conf.n > 1 /\ Current.single

(* Every run ends with subtest_count++, also one that failed.               *)
Ran ==
  /\ pc = "run"
  /\ count' = count + 1
  /\ pc' = "cool"
  /\ UNCHANGED << conf, registry, b >>

RunSingle ==
  /\ Ran
  /\ ~Parallel
  /\ \E n \in Iterations, isHigh \in BOOLEAN :
       LET m == Clamped(n)
       IN  Store(Slot, m, IF n < m THEN n ELSE m, isHigh)

RunParallel ==
  /\ Ran
  /\ Parallel
  /\ \E n \in Iterations, isHigh \in BOOLEAN :
       Store(Slot, Pooled(n), Pooled(n), isHigh)

RunFails == Ran /\ Failed(Slot)

(* The sleep of peak mode changes no state.                                 *)
Cooldown ==
  /\ pc = "cool"
  /\ b' = b + 1
  /\ pc' = "select"
  /\ UNCHANGED << conf, registry, subtests, count, beyond >>

-----------------------------------------------------------------------------
(* The scores, when every benchmark has been visited.                       *)

(* 0 for a subtest whose cv is too high for a reportable run; else the mean *)
(* or its inverse, which is 0 for a subtest that has no statistics.  A mean *)
(* of samples that were not measured, or overwritten, may be anything.      *)
Score(s) ==
  IF s.dirty \/ s.iterations > s.measured THEN {"zero", "value", "garbage"}
  ELSE IF (conf.reportable /\ s.high) \/ s.from = None THEN {"zero"}
  ELSE {"value"}

AssignScores ==
  /\ pc = "select"
  /\ b > Len(registry)
  /\ pc' = "done"
  /\ \E f \in [1..count -> {"zero", "value", "garbage"}] :
       /\ \A k \in 1..count : f[k] \in Score(subtests[k].stats)
       /\ subtests' = [k \in Slots |-> IF k <= count
                         THEN [subtests[k] EXCEPT !.score = f[k]]
                         ELSE subtests[k]]
  /\ UNCHANGED << conf, registry, b, count, beyond >>

Done == pc \in {"done", "error"} /\ UNCHANGED vars

Next ==
  \/ benchmark_register \/ Start \/ NoRoom
  \/ Skip \/ Select
  \/ RunSingle \/ RunParallel \/ RunFails \/ Cooldown
  \/ AssignScores
  \/ Done

(* One thread; the runners return (RunInstance!Terminates and               *)
(* ParallelRun!Terminates).                                                 *)
Spec == Init /\ [][Next]_vars /\ WF_vars(Next)

-----------------------------------------------------------------------------
(* The slots in use hold the selected ones of the benchmarks that fit into  *)
(* the registry, all of them, once each, in the order of registration       *)
(* (benchmark.c:12-15, harness.c:711-738), whatever failed.                 *)
SelectionInOrder ==
  LET last == CASE pc \in {"run", "cool"} -> b
                [] pc = "select" -> b - 1
                [] pc = "done" -> Len(Benchmarks)
                [] OTHER -> 0
      chosen == {i \in 1..last : i <= MaxBenchmarks /\ Selected(conf, Benchmarks[i])}
      used == IF pc = "run" THEN count + 1 ELSE count
  IN  /\ used = Cardinality(chosen)
      /\ \A i \in chosen :
           subtests[Cardinality({j \in chosen : j <= i})].bench = Benchmarks[i].name

(* The statistics of a slot are those of the benchmark in that slot.  They  *)
(* summarize what was measured, unless a single run was raised to the       *)
(* configured minimum (harness.c:144); nothing overwrites them but an       *)
(* earlier slot with more samples than raw_values holds (stats.c:65).  What *)
(* failed, or ended with one sample (harness.c:149), does not score         *)
(* otherwise.                                                               *)
StatsOfOwnRun ==
  \A k \in Slots :
    LET s == subtests[k].stats
    IN  /\ s.from \in {None, subtests[k].bench}
        /\ s.iterations > s.measured => conf.minIter = s.iterations
        /\ conf.n > 1 /\ s.iterations > s.measured =>
             \E j \in DOMAIN Benchmarks : Benchmarks[j].name = s.from /\ ~Benchmarks[j].single
        /\ s.dirty => \E j \in 1..k - 1 : subtests[j].stats.iterations > RawCapacity
        /\ pc = "done" /\ ~s.dirty /\ (subtests[k].status = "failed" \/ s.from = None) =>
             subtests[k].score = "zero"

(* raw_values holds every value of the statistics (stats.c:64).             *)
SamplesFitRawValues ==
  \A k \in Slots : subtests[k].stats.iterations <= RawCapacity
=============================================================================
