-------------------------- MODULE RunInstance_proofs --------------------------
(***************************************************************************)
(* The invariants of RunInstance and its refinement of InstanceContract,    *)
(* proved for any limits and any length of a measured call.                 *)
(***************************************************************************)
EXTENDS RunInstance, FiniteSetTheorems, TLAPS

(* The benchmark's state lives from init to the one cleanup.                *)
LifeInv ==
  /\ pc = "init" => state = "none"
  /\ pc \notin {"init", "done"} => state = "live"
  /\ pc = "done" => state \in {"none", "freed"}
  /\ cleanups = IF state = "freed" THEN 1 ELSE 0

(* Either both counters are open or none is, and only around a call.        *)
PerfInv ==
  /\ fds \in {{}, Counters}
  /\ pc \notin {"measure", "record"} => fds = {}
  /\ perfOpen = Cardinality(fds)

(* The clock of the thread is behind, and the loop is left in time.         *)
ClockInv ==
  /\ cpu <= wall
  /\ pc \in {"init", "warmup", "discard"} => wall = 0
  /\ pc \in {"loop", "measure"} => wall < MaxRuntime

(* What ended the loop holds still when the function returns.               *)
StopInv ==
  /\ pc \in {"measure", "record"} => iter < MaxIter
  /\ pc \notin {"finish", "done"} => why = "none"
  /\ pc = "finish" => why # "none"
  /\ why # "cpu"
  /\ why # "none" => iter \in 1..MaxIter
  /\ why = "count" => iter = MaxIter
  /\ why = "converged" => iter >= MinIter /\ wall >= MinRuntime
  /\ why = "wall" => wall >= MaxRuntime

ReturnInv ==
  /\ pc # "done" => iterOut = Unset
  /\ pc = "done" /\ ret = 0 => iterOut = iter /\ why # "none"

IInv == /\ TypeOK
        /\ LifeInv
        /\ PerfInv
        /\ ClockInv
        /\ StopInv
        /\ ReturnInv

-----------------------------------------------------------------------------
(* Two counters, or none, are what a call may have open.                    *)
LEMMA CountersCount ==
  /\ Cardinality({}) = 0
  /\ Cardinality(Counters) = 2
<1>1. Cardinality({"insns"}) = 1 /\ IsFiniteSet({"insns"})
  BY FS_Singleton
<1>2. Counters = {"insns"} \cup {"cycles"}
  BY DEF Counters
<1>3. Cardinality(Counters) = 2
  BY <1>1, <1>2, FS_AddElement
<1> QED
  BY <1>3, FS_EmptySet

(* A sample appended makes values_out one longer.                           *)
LEMMA StoreLonger ==
  ASSUME values \in Seq(Nat), calls \in Nat, StoreSample
  PROVE  values' \in Seq(Nat) /\ Len(values') = Len(values) + 1
BY DEF StoreSample

LEMMA InitHolds == Init => IInv
BY LimitsAssumption, CountersCount
   DEF Init, IInv, TypeOK, LifeInv, PerfInv, ClockInv, StopInv, ReturnInv,
       Labels, Reasons, Unset, iter

-----------------------------------------------------------------------------
(* No step of the function, whichever callback fails in it, breaks the      *)
(* invariant: the two clocks and the counters are bounded only together     *)
(* with where the loop stands.                                              *)
LEMMA StepKeepsIInv ==
  ASSUME IInv, [Next]_vars
  PROVE  IInv'
<1> USE LimitsAssumption, CountersCount
    DEF IInv, TypeOK, LifeInv, PerfInv, ClockInv, StopInv, ReturnInv, Labels,
        iter
<1>1. CASE InitBench
  BY <1>1 DEF InitBench
<1>2. CASE WarmupBench
  BY <1>2 DEF WarmupBench, CleanupAndReturn
<1>3. CASE DiscardMeasure
  BY <1>3 DEF DiscardMeasure, CleanupAndReturn, Discarded
<1>4. CASE StartCounters
  <2>1. PICK opened \in SUBSET Counters :
          LET kept == IF opened = Counters THEN opened ELSE {}
          IN  fds' = kept /\ perfOpen' = perfOpen + Cardinality(kept)
    BY <1>4 DEF StartCounters
  <2>2. fds' \in {{}, Counters} /\ perfOpen' = Cardinality(fds')
    <3>1. perfOpen = 0
      BY <1>4 DEF StartCounters
    <3>2. CASE opened = Counters
      BY <2>1, <3>1, <3>2
    <3>3. CASE opened # Counters
      BY <2>1, <3>1, <3>3
    <3> QED
      BY <3>2, <3>3
  <2>3. perfOpen' \in 0..2
    BY ONLY <2>2, CountersCount
  <2>4. TypeOK'
    BY <1>4, <2>2, <2>3 DEF StartCounters
  <2>5. PerfInv'
    BY <1>4, <2>2 DEF StartCounters
  <2>6. LifeInv' /\ ClockInv' /\ StopInv' /\ ReturnInv'
    BY <1>4 DEF StartCounters, MoreIterations
  <2> QED
    BY <2>4, <2>5, <2>6
<1>5. CASE ExhaustIterations
  BY <1>5 DEF ExhaustIterations, MoreIterations, Reasons
<1>6. CASE MeasureBench
  <2>1. /\ wall' \in Nat
        /\ cpu' \in Nat
        /\ cpu' <= wall'
    BY <1>6 DEF MeasureBench, ClocksAdvance
  <2> QED
    BY <1>6, <2>1 DEF MeasureBench
<1>7. CASE RecordSample
  <2>1. fds' = {} /\ perfOpen' = 0
    BY <1>7 DEF RecordSample, StopCounters
  <2>2. CASE ret # 0
    BY <1>7, <2>1, <2>2 DEF RecordSample, CleanupAndReturn
  <2>3. CASE ret = 0
    <3>1. values' \in Seq(Nat) /\ Len(values') = Len(values) + 1
      BY <1>7, <2>3, StoreLonger DEF RecordSample
    <3>2. /\ why' \in {"none", "converged", "wall", "cpu"}
          /\ why' = "converged" => Len(values) + 1 >= MinIter /\ wall >= MinRuntime
          /\ why' = "wall" => wall >= MaxRuntime
          /\ why' = "cpu" => cpu > 2 * MaxRuntime /\ wall < MaxRuntime
          /\ why' = "none" => wall < MaxRuntime
          /\ pc' = IF why' = "none" THEN "loop" ELSE "finish"
      BY <1>7, <2>3 DEF RecordSample, Verdict
    <3>3. why' # "cpu"
      BY <3>2
    <3>4. UNCHANGED << state, cleanups, ret, calls, iterOut, wall, cpu >>
      BY <1>7, <2>3 DEF RecordSample
    <3>5. pc = "record"
      BY <1>7 DEF RecordSample
    <3> QED
      BY <2>1, <2>3, <3>1, <3>2, <3>3, <3>4, <3>5 DEF Reasons
  <2> QED
    BY <2>2, <2>3
<1>8. CASE Finish
  BY <1>8 DEF Finish, CleanupAndReturn
<1>9. CASE Returned
  BY <1>9 DEF Returned, vars
<1>10. CASE UNCHANGED vars
  BY <1>10 DEF vars
<1> QED
  BY <1>1, <1>2, <1>3, <1>4, <1>5, <1>6, <1>7, <1>8, <1>9, <1>10 DEF Next

-----------------------------------------------------------------------------
(* The invariant holds whichever callbacks fail, however long they take and *)
(* whatever the samples are (harness.c:57-132).                             *)
THEOREM Inductive == Spec => []IInv
<1> QED
  BY InitHolds, StepKeepsIInv, PTL DEF Spec

(* Every variable keeps its type: no call stores a sample behind values_out *)
(* (harness.c:86-109).                                                      *)
THEOREM TypeCorrect == Spec => []TypeOK
<1>1. IInv => TypeOK
  BY DEF IInv
<1> QED
  BY <1>1, Inductive, PTL

(* The state init made is cleaned up once on every return path, whichever   *)
(* call failed (harness.c:66-128).                                          *)
THEOREM CleanedUpOnce == Spec => []CleanupExactlyOnce
<1>1. IInv => CleanupExactlyOnce
  BY DEF IInv, LifeInv, CleanupExactlyOnce
<1> QED
  BY <1>1, Inductive, PTL

(* No counter descriptor outlives the call it was opened for, whichever of  *)
(* the two opens failed (harness.c:22-55).                                  *)
THEOREM CountersBalanced == Spec => []PerfCountersBalanced
<1>1. IInv => PerfCountersBalanced
  BY CountersCount DEF IInv, PerfInv, PerfCountersBalanced
<1> QED
  BY <1>1, Inductive, PTL

(* A run that returns 0 has as many samples as it says, and stopped early   *)
(* only at a cap; the CPU-time limit never decides (harness.c:94-125).      *)
THEOREM StopsForAReason == Spec => []StopJustified
<1>1. IInv => StopJustified
  <2> SUFFICES ASSUME IInv PROVE StopJustified
    OBVIOUS
  <2>1. why \in {"none", "count", "converged", "wall"}
    BY DEF IInv, TypeOK, StopInv, Reasons
  <2> QED
    BY <2>1, LimitsAssumption
       DEF IInv, TypeOK, StopInv, ReturnInv, StopJustified, iter
<1> QED
  BY <1>1, Inductive, PTL

-----------------------------------------------------------------------------
(* Each step of the function is one that its contract allows, or none.      *)
LEMMA StepRefines ==
  ASSUME IInv, IInv', [Next]_vars
  PROVE  [Contract!Next]_Contract!vars
<1> USE LimitsAssumption, CountersCount
    DEF IInv, TypeOK, LifeInv, PerfInv, StopInv, ReturnInv, Labels, iter,
        Contract!Next, Contract!Work, Contract!Succeed, Contract!Fail,
        Contract!vars
<1>1. CASE InitBench
  BY <1>1 DEF InitBench
<1>2. CASE WarmupBench
  BY <1>2 DEF WarmupBench, CleanupAndReturn
<1>3. CASE DiscardMeasure
  BY <1>3 DEF DiscardMeasure, CleanupAndReturn, Discarded
<1>4. CASE StartCounters
  BY <1>4 DEF StartCounters
<1>5. CASE ExhaustIterations
  BY <1>5 DEF ExhaustIterations
<1>6. CASE MeasureBench
  BY <1>6 DEF MeasureBench
<1>7. CASE RecordSample
  <2>1. CASE ret # 0
    BY <1>7, <2>1 DEF RecordSample, StopCounters, CleanupAndReturn
  <2>2. CASE ret = 0
    <3>1. Len(values') = Len(values) + 1
      BY <1>7, <2>2, StoreLonger DEF RecordSample
    <3> QED
      BY <1>7, <2>2, <3>1 DEF RecordSample
  <2> QED
    BY <2>1, <2>2
<1>8. CASE Finish
  <2>1. /\ iter \in 1..MaxIter
        /\ pc = "finish" /\ pc' = "done"
        /\ state' = "freed" /\ perfOpen' = 0
        /\ ret' = 0
        /\ iterOut' = iter /\ values' = values
    BY <1>8 DEF Finish, CleanupAndReturn
  <2>2. Contract!Succeed
    BY <2>1
  <2> QED
    BY <2>2
<1>9. CASE Returned
  BY <1>9 DEF Returned, vars
<1>10. CASE UNCHANGED vars
  BY <1>10 DEF vars
<1> QED
  BY <1>1, <1>2, <1>3, <1>4, <1>5, <1>6, <1>7, <1>8, <1>9, <1>10 DEF Next

(* run_benchmark_instance implements what its two callers are promised:     *)
(* a failure publishes no sample count, a success publishes the number of   *)
(* cells it filled, and nothing is held afterwards (harness.c:57-132).      *)
THEOREM Refinement == Spec => ImplementsContract
<1>1. Init => Contract!Init
  BY DEF Init, Contract!Init, iter
<1> QED
  BY <1>1, Inductive, StepRefines, PTL DEF Spec, ImplementsContract, Contract!Spec
=============================================================================
