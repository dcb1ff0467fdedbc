----------------------------- MODULE MCHarnessRun -----------------------------
(***************************************************************************)
(* Benchmarks that differ in everything the harness looks at, one more of   *)
(* them than the registry takes, and the configurations of each run.        *)
(***************************************************************************)
EXTENDS HarnessRun

CONSTANTS C1, C6, hash, fork, mpmc, late

Bench(name, tier, category, single, hib) ==
  [name |-> name, tier |-> tier, category |-> category, single |-> single,
   hib |-> hib]

FourBenchmarks == << Bench(hash, 1, C1, TRUE, TRUE),
                     Bench(fork, 1, C6, TRUE, FALSE),
                     Bench(mpmc, 2, C6, FALSE, TRUE),
                     Bench(late, 1, C1, TRUE, TRUE) >>

Config(n, minIter, maxIter) ==
  [tiers |-> {1, 2}, category |-> Any, names |-> {}, n |-> n,
   minIter |-> minIter, maxIter |-> maxIter, reportable |-> TRUE]

(* Every combination of the filters and modes, with a minimum below, within *)
(* and beyond the samples an instance has and raw_values holds.             *)
FilterConfigs ==
  [tiers : {{1}, {2}, {1, 2}}, category : {Any, C6}, names : {{}, {hash, mpmc}},
   n : {1, 2}, minIter : {0, 5, 40}, maxIter : {0, 5}, reportable : BOOLEAN]

ManyInstances == {Config(2, 0, 0)}
=============================================================================
