-------------------------------- MODULE Workers --------------------------------
(***************************************************************************)
(* The benchmarks whose measure starts workers, lets them count, joins them *)
(* and reports the counts: src/benchmarks/sync/sync_mutex.c and             *)
(* sync_rwlock.c (workers wait for ready, then count under a lock),         *)
(* os/cswitch_smt.c (main counts along with one worker, which sets ready)   *)
(* and os/proc_pthread.c (workers end at once).                             *)
(*                                                                          *)
(* cswitch_smt and proc_pthread check pthread_create; the other two do not, *)
(* and it is taken to succeed there.                                        *)
(***************************************************************************)
EXTENDS Integers, FiniteSets

CONSTANTS
  CPUs,       (* SSB_NUM_CPUS()                                             *)
  Ops,        (* OPS_PER_THREAD, ITER_COUNT                                 *)
  WarmOps     (* what warmup counts                                         *)

WorkersAssumption == CPUs \in Nat \ {0} /\ Ops \in Nat \ {0} /\ WarmOps \in Nat

Kinds == {"sync-mutex", "sync-rwlock", "cswitch-smt", "proc-pthread"}

None == -1

VARIABLES
  kind,       (* the benchmark                                              *)
  mpc,        (* where main is                                              *)
  k,          (* its loop variable                                          *)
  created,    (* workers created in this call                               *)
  ret,        (* what the last callback returned                            *)
  ready,
  countA,     (* counter; data; ping_count                                  *)
  countB,     (* -; total_ops; pong_count                                   *)
  wpc,        (* where each worker is                                       *)
  n,          (* operations each has left                                   *)
  writer,     (* holder of the mutex, or of the write lock                  *)
  readers     (* holders of the read lock                                   *)

mainVars == << kind, mpc, k, created, ret >>
workVars == << ready, countA, countB >>
lockVars == << writer, readers >>
vars == << mainVars, workVars, wpc, n, lockVars >>

(* nthreads, at least two where it is read from the machine.                *)
Threads ==
  CASE kind = "cswitch-smt"  -> 1
    [] kind = "proc-pthread" -> CPUs
    [] OTHER                 -> IF CPUs < 2 THEN 2 ELSE CPUs

Slots == 0..(IF CPUs < 2 THEN 1 ELSE CPUs - 1)

NReaders == (Threads * 3) \div 4

NWriters == Threads - NReaders

IsWriter(t) == kind = "sync-rwlock" => t < NWriters

Share(t) == IF kind = "sync-rwlock" /\ IsWriter(t) THEN Ops \div 3 ELSE Ops

TypeOK ==
  /\ kind \in Kinds
  /\ mpc \in {"warmup", "idle", "create", "release", "spin", "count", "join", "over"}
  /\ k \in 0..(Threads + Ops) /\ created \in 0..Threads
  /\ ret \in {0, -1}
  /\ ready \in BOOLEAN /\ countA \in Nat /\ countB \in Nat
  /\ wpc \in [Slots -> {"none", "start", "lock", "add", "unlock", "exit"}]
  /\ n \in [Slots -> 0..Ops]
  /\ writer \in Slots \cup {None} /\ readers \subseteq Slots

Init ==
  /\ kind \in Kinds
  /\ mpc = "warmup" /\ k = 0 /\ created = 0 /\ ret = 0
  /\ ready = FALSE /\ countA = 0 /\ countB = 0
  /\ wpc = [t \in Slots |-> "none"] /\ n = [t \in Slots |-> 0]
  /\ writer = None /\ readers = {}

-----------------------------------------------------------------------------
(* Main.                                                                    *)

Warmup ==
  /\ mpc = "warmup"
  /\ countA' = IF kind = "proc-pthread" THEN 0 ELSE WarmOps
  /\ countB' = IF kind = "cswitch-smt" THEN WarmOps ELSE 0
  /\ mpc' = "idle"
  /\ UNCHANGED << kind, k, created, ret, ready, wpc, n, lockVars >>

Call_KeepsCount ==
  /\ mpc = "idle"
  /\ ready' = FALSE
  /\ k' = 0 /\ created' = 0
  /\ mpc' = "create"
  /\ UNCHANGED << kind, ret, countA, countB, wpc, n, lockVars >>

Call ==
  /\ mpc = "idle"
  /\ countA' = 0 /\ countB' = 0 /\ ready' = FALSE
  /\ k' = 0 /\ created' = 0
  /\ mpc' = "create"
  /\ UNCHANGED << kind, ret, wpc, n, lockVars >>

AfterCreate ==
  CASE kind = "cswitch-smt"  -> "spin"
    [] kind = "proc-pthread" -> "join"
    [] OTHER                 -> "release"

Create ==
  /\ mpc = "create"
  /\ IF k < Threads
     THEN /\ wpc' = [wpc EXCEPT ![k] = "start"]
          /\ n' = [n EXCEPT ![k] = Share(k)]
          /\ created' = created + 1 /\ k' = k + 1 /\ mpc' = mpc
     ELSE /\ k' = 0 /\ mpc' = AfterCreate
          /\ UNCHANGED << created, wpc, n >>
  /\ UNCHANGED << kind, ret, workVars, lockVars >>

(* proc_pthread goes on with the workers it has, cswitch_smt gives up.      *)
CreateFails ==
  /\ mpc = "create"
  /\ k < Threads
  /\ kind \in {"cswitch-smt", "proc-pthread"}
  /\ IF kind = "cswitch-smt" THEN mpc' = "over" /\ ret' = -1
                             ELSE mpc' = "join" /\ ret' = ret
  /\ k' = 0
  /\ UNCHANGED << kind, created, workVars, wpc, n, lockVars >>

Release ==
  /\ mpc = "release"
  /\ ready' = TRUE
  /\ mpc' = "join"
  /\ UNCHANGED << kind, k, created, ret, countA, countB, wpc, n, lockVars >>

SpinReady ==
  /\ mpc = "spin"
  /\ ready
  /\ mpc' = "count"
  /\ UNCHANGED << kind, k, created, ret, workVars, wpc, n, lockVars >>

CountPing ==
  /\ mpc = "count"
  /\ IF k < Ops THEN countA' = countA + 1 /\ k' = k + 1 /\ mpc' = mpc
                ELSE k' = 0 /\ mpc' = "join" /\ countA' = countA
  /\ UNCHANGED << kind, created, ret, ready, countB, wpc, n, lockVars >>

Join ==
  /\ mpc = "join"
  /\ IF k < created
     THEN /\ wpc[k] = "exit" /\ wpc' = [wpc EXCEPT ![k] = "none"]
          /\ k' = k + 1 /\ mpc' = mpc
     ELSE k' = 0 /\ mpc' = "idle" /\ wpc' = wpc
  /\ UNCHANGED << kind, created, ret, workVars, n, lockVars >>

-----------------------------------------------------------------------------
(* Workers.                                                                 *)

Start(t) ==
  /\ wpc[t] = "start"
  /\ CASE kind = "cswitch-smt"  -> ready' = TRUE /\ wpc' = [wpc EXCEPT ![t] = "add"]
       [] kind = "proc-pthread" -> ready' = ready /\ wpc' = [wpc EXCEPT ![t] = "exit"]
       [] OTHER                 -> ready /\ ready' = ready /\ wpc' = [wpc EXCEPT ![t] = "lock"]
  /\ UNCHANGED << mainVars, countA, countB, n, lockVars >>

Lock(t) ==
  /\ wpc[t] = "lock"
  /\ IF n[t] = 0
     THEN wpc' = [wpc EXCEPT ![t] = "exit"] /\ UNCHANGED lockVars
     ELSE /\ writer = None
          /\ IF IsWriter(t) THEN readers = {} /\ writer' = t /\ readers' = readers
                            ELSE writer' = writer /\ readers' = readers \cup {t}
          /\ wpc' = [wpc EXCEPT ![t] = "add"]
  /\ UNCHANGED << mainVars, workVars, n >>

Add(t) ==
  /\ wpc[t] = "add" /\ kind # "cswitch-smt"
  /\ IF IsWriter(t) THEN countA' = countA + 1 /\ countB' = countB
                    ELSE countB' = countB + 1 /\ countA' = countA
  /\ wpc' = [wpc EXCEPT ![t] = "unlock"]
  /\ UNCHANGED << mainVars, ready, n, lockVars >>

Unlock_StillReading(t) ==
  /\ wpc[t] = "unlock"
  /\ IF IsWriter(t) THEN writer' = None /\ readers' = readers
                    ELSE writer' = writer /\ readers' = readers
  /\ n' = [n EXCEPT ![t] = @ - 1]
  /\ wpc' = [wpc EXCEPT ![t] = "lock"]
  /\ UNCHANGED << mainVars, workVars >>

Unlock(t) ==
  /\ wpc[t] = "unlock"
  /\ IF IsWriter(t) THEN writer' = None /\ readers' = readers
                    ELSE writer' = writer /\ readers' = readers \ {t}
  /\ n' = [n EXCEPT ![t] = @ - 1]
  /\ wpc' = [wpc EXCEPT ![t] = "lock"]
  /\ UNCHANGED << mainVars, workVars >>

CountPong(t) ==
  /\ wpc[t] = "add" /\ kind = "cswitch-smt"
  /\ IF n[t] > 0
     THEN countB' = countB + 1 /\ n' = [n EXCEPT ![t] = @ - 1] /\ wpc' = wpc
     ELSE wpc' = [wpc EXCEPT ![t] = "exit"] /\ UNCHANGED << countB, n >>
  /\ UNCHANGED << mainVars, ready, countA, lockVars >>

-----------------------------------------------------------------------------
MainStep == Create \/ Release \/ SpinReady \/ CountPing \/ Join

WorkerStep(t) == Start(t) \/ Lock(t) \/ Add(t) \/ Unlock(t) \/ CountPong(t)

Next == Warmup \/ Call \/ MainStep \/ CreateFails \/ \E t \in Slots : WorkerStep(t)

Spec == Init /\ [][Next]_vars

-----------------------------------------------------------------------------
(* When a measure returns no worker is left and the counts are those of     *)
(* this call, exactly: every reader's share in one, every writer's in the   *)
(* other, none of warmup or of the call before.                             *)
CountsOwnWork ==
  mpc = "idle" /\ created > 0 =>
    /\ \A t \in Slots : wpc[t] = "none"
    /\ writer = None /\ readers = {}
    /\ CASE kind = "sync-mutex"   -> countA = Threads * Ops
         [] kind = "sync-rwlock"  -> /\ countA = NWriters * (Ops \div 3)
                                     /\ countB = NReaders * Ops
         [] kind = "cswitch-smt"  -> countA + countB = 2 * Ops
         [] kind = "proc-pthread" -> TRUE

(* A measure returns.                                                       *)
CallReturns == mpc = "create" ~> mpc \in {"idle", "over"}
=============================================================================
