-------------------------- MODULE InstanceContract --------------------------
(***************************************************************************)
(* What run_benchmark_instance promises its two callers, harness_run_single *)
(* and the child forked by harness_run_parallel: it is entered once, holds  *)
(* resources (the benchmark's state, perf counters) only while it runs, and *)
(* returns either a failure that publishes no sample count, or 0 with       *)
(* *iter_out samples of values_out filled, one to MaxIter of them.          *)
(***************************************************************************)
EXTENDS Integers

CONSTANTS
  MaxIter,   (* capacity of values_out, an upper bound of *iter_out         *)
  Unset      (* content of *iter_out that the function did not assign       *)

VARIABLES
  phase,     (* "ready", "running" or "over"                                *)
  ret,       (* the value returned, 0 on success                            *)
  iterOut,   (* *iter_out                                                   *)
  filled,    (* number of cells of values_out that hold a sample            *)
  held       (* resources acquired and not yet released                     *)

vars == << phase, ret, iterOut, filled, held >>

Init ==
  /\ phase = "ready"
  /\ ret = 0
  /\ iterOut = Unset
  /\ filled = 0
  /\ held = FALSE

(* Work in progress: samples accumulate, resources come and go.             *)
Work ==
  /\ phase \in {"ready", "running"}
  /\ phase' = "running"
  /\ filled' \in {filled, filled + 1}
  /\ filled' <= MaxIter
  /\ held' \in BOOLEAN
  /\ ret' \in {0, -1}
  /\ UNCHANGED iterOut

Succeed ==
  /\ phase = "running"
  /\ filled >= 1
  /\ phase' = "over"
  /\ ret' = 0
  /\ iterOut' = filled
  /\ held' = FALSE
  /\ UNCHANGED filled

Fail ==
  /\ phase \in {"ready", "running"}
  /\ phase' = "over"
  /\ ret' = -1
  /\ held' = FALSE
  /\ UNCHANGED << iterOut, filled >>

Next == Work \/ Succeed \/ Fail

Spec == Init /\ [][Next]_vars
=============================================================================
