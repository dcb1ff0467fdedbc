----------------------------- MODULE SyncSemaphore -----------------------------
(***************************************************************************)
(* src/benchmarks/sync/sync_semaphore.c: main posts Ops times, sets done,   *)
(* posts once more for every waiter and joins them; a waiter waits on the   *)
(* semaphore again and again until it sees done.  Nobody takes back what    *)
(* the waiters leave in the semaphore: the next call of measure starts with *)
(* it.                                                                      *)
(***************************************************************************)
EXTENDS Integers, FiniteSets

CONSTANTS
  Waiters,   (* nwaiters threads                                            *)
  Ops,       (* OPS_PER_ITER                                                *)
  MaxCalls   (* bound: calls of measure                                     *)

ASSUME WaitersAssumption == IsFiniteSet(Waiters) /\ Waiters # {}
ASSUME OpsAssumption == Ops \in Nat \ {0}
ASSUME CallsAssumption == MaxCalls \in Nat

VARIABLES
  sem,      (* the value of the semaphore                                   *)
  ready, done,
  wakeups,  (* what main counts, and the metric reports                     *)
  mpc,      (* where main is in measure                                     *)
  k,        (* its loop variable                                            *)
  wpc,      (* where each waiter is                                         *)
  calls     (* calls of measure begun                                       *)

vars == << sem, ready, done, wakeups, mpc, k, wpc, calls >>

TypeOK ==
  /\ sem \in Nat
  /\ ready \in BOOLEAN /\ done \in BOOLEAN
  /\ wakeups \in 0..Ops
  /\ mpc \in {"idle", "ready", "post", "count", "done", "release", "join"}
  /\ k \in 0..Ops + Cardinality(Waiters)
  /\ wpc \in [Waiters -> {"none", "spin", "check", "wait", "exit"}]
  /\ calls \in 0..MaxCalls

(* warmup takes back every post.                                            *)
Init ==
  /\ sem = 0
  /\ ready = FALSE /\ done = FALSE
  /\ wakeups = 0
  /\ mpc = "idle" /\ k = 0
  /\ wpc = [w \in Waiters |-> "none"]
  /\ calls = 0

-----------------------------------------------------------------------------
(* measure.                                                                 *)

(* Resets ready, done and wakeups and creates the waiters.                  *)
Call ==
  /\ mpc = "idle" /\ calls < MaxCalls
  /\ calls' = calls + 1
  /\ ready' = FALSE /\ done' = FALSE
  /\ wakeups' = 0
  /\ wpc' = [w \in Waiters |-> "spin"]
  /\ mpc' = "ready" /\ k' = 0
  /\ UNCHANGED sem

SetReady_Forgotten ==
  /\ mpc = "ready"
  /\ mpc' = "post"
  /\ UNCHANGED << sem, ready, done, wakeups, k, wpc, calls >>

SetReady ==
  /\ mpc = "ready"
  /\ ready' = TRUE
  /\ mpc' = "post"
  /\ UNCHANGED << sem, done, wakeups, k, wpc, calls >>

Post ==
  /\ mpc = "post"
  /\ sem' = sem + 1
  /\ mpc' = "count"
  /\ UNCHANGED << ready, done, wakeups, k, wpc, calls >>

Count_OneMore ==
  /\ mpc = "count"
  /\ wakeups' = wakeups + 1
  /\ k' = IF k < Ops THEN k + 1 ELSE 0
  /\ mpc' = IF k < Ops THEN "post" ELSE "done"
  /\ UNCHANGED << sem, ready, done, wpc, calls >>

Count ==
  /\ mpc = "count"
  /\ wakeups' = wakeups + 1
  /\ k' = IF k + 1 < Ops THEN k + 1 ELSE 0
  /\ mpc' = IF k + 1 < Ops THEN "post" ELSE "done"
  /\ UNCHANGED << sem, ready, done, wpc, calls >>

SetDone ==
  /\ mpc = "done"
  /\ done' = TRUE
  /\ mpc' = "release"
  /\ UNCHANGED << sem, ready, wakeups, k, wpc, calls >>

Release_OneLess ==
  /\ mpc = "release"
  /\ sem' = IF k > 0 THEN sem + 1 ELSE sem
  /\ k' = k + 1
  /\ mpc' = IF k + 1 < Cardinality(Waiters) THEN "release" ELSE "join"
  /\ UNCHANGED << ready, done, wakeups, wpc, calls >>

(* One post for each waiter that may be waiting.                            *)
Release ==
  /\ mpc = "release"
  /\ sem' = sem + 1
  /\ k' = k + 1
  /\ mpc' = IF k + 1 < Cardinality(Waiters) THEN "release" ELSE "join"
  /\ UNCHANGED << ready, done, wakeups, wpc, calls >>

Join ==
  /\ mpc = "join"
  /\ \A w \in Waiters : wpc[w] = "exit"
  /\ mpc' = "idle"
  /\ UNCHANGED << sem, ready, done, wakeups, k, wpc, calls >>

-----------------------------------------------------------------------------
(* sem_waiter.                                                              *)

(* A poll of ready.                                                         *)
SpinReady(w) ==
  /\ wpc[w] = "spin"
  /\ wpc' = [wpc EXCEPT ![w] = IF ready THEN "check" ELSE "spin"]
  /\ UNCHANGED << sem, ready, done, wakeups, mpc, k, calls >>

CheckDone(w) ==
  /\ wpc[w] = "check"
  /\ wpc' = [wpc EXCEPT ![w] = IF done THEN "exit" ELSE "wait"]
  /\ UNCHANGED << sem, ready, done, wakeups, mpc, k, calls >>

SemWait(w) ==
  /\ wpc[w] = "wait"
  /\ sem > 0
  /\ sem' = sem - 1
  /\ wpc' = [wpc EXCEPT ![w] = "check"]
  /\ UNCHANGED << ready, done, wakeups, mpc, k, calls >>
-----------------------------------------------------------------------------
MainStep == SetReady \/ Post \/ Count \/ SetDone \/ Release \/ Join
WaiterStep(w) == SpinReady(w) \/ CheckDone(w) \/ SemWait(w)

Over == mpc = "idle" /\ calls = MaxCalls /\ UNCHANGED vars

Next == Call \/ MainStep \/ (\E w \in Waiters : WaiterStep(w)) \/ Over

(* The scheduler runs main and every waiter.                                *)
Fairness == WF_vars(MainStep) /\ \A w \in Waiters : WF_vars(WaiterStep(w))

Spec == Init /\ [][Next]_vars
FairSpec == Spec /\ Fairness

-----------------------------------------------------------------------------
(* The waiters that will take from the semaphore before they look at done.  *)
Committed == {w \in Waiters : wpc[w] = "wait"}

(* Posts of the release loop that are still to come.                        *)
ToCome == IF mpc = "release" THEN Cardinality(Waiters) - k ELSE 0

(* Once done is set, the posts in the semaphore and those still to come are *)
(* enough for every waiter that is still going to wait, whatever the        *)
(* waiters took while main was posting (sync_semaphore.c:66-67).            *)
NoWaiterStranded ==
  mpc \in {"release", "join"} => Cardinality(Committed) <= sem + ToCome

(* What the calls leave in the semaphore adds up to no more than their      *)
(* posts; with the 33 calls of a run it stays far from SEM_VALUE_MAX.       *)
LeftoverBounded == sem <= calls * (Ops + Cardinality(Waiters))

(* A call returns: every waiter sees done and is joined.                    *)
CallReturns == mpc = "ready" ~> mpc = "idle"
=============================================================================
