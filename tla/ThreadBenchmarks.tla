--------------------------- MODULE ThreadBenchmarks ---------------------------
(***************************************************************************)
(* The benchmarks whose measure runs threads against each other, as one     *)
(* process runs them: `servmark --benchmark NAME` takes one of them through *)
(* init and then calls its measure again and again on the same state.       *)
(* Their insides are in CswitchFutex, CswitchPipe, MpmcQueue and Workers,   *)
(* whose variables have the same names here unless two of them share a name. *)
(***************************************************************************)
EXTENDS Integers, Sequences, FiniteSets

CONSTANTS
  FutexRounds, PipeRounds,  (* SWITCHES / 2 of the two context switches     *)
  MayFail,                  (* whether the system calls of the pipe may fail *)
  Producers, Consumers,     (* the threads of sync_mpmc                     *)
  QueueSize, Ops,           (* QUEUE_SIZE and OPS_PER_PRODUCER              *)
  CPUs, WorkOps, WarmOps    (* of the benchmarks that only count            *)

VARIABLES
  bench,                                               (* the one selected  *)
  word, mpc, mi, tpc, ti, switches, reported,          (* cswitch_futex     *)
  bytes, ping, pi, pong, qi, broke, failed,            (* cswitch_pipe      *)
  pipeSwitches, pipeReported,
  items, head, tail, produced, consumed, ppc, pn, pt,  (* sync_mpmc         *)
  cpc, ch, citem, local, drain, sent, received,
  wmpc, k, created, ret, ready, countA, countB,        (* Workers           *)
  wpc, n, writer, readers

Futex == INSTANCE CswitchFutex WITH Rounds <- FutexRounds
Pipe  == INSTANCE CswitchPipe WITH
           Rounds <- PipeRounds, switches <- pipeSwitches, reported <- pipeReported
Mpmc  == INSTANCE MpmcQueue

(* The kind of these is the name of the benchmark.                          *)
WorkKinds == {"sync-mutex", "sync-rwlock", "cswitch-smt", "proc-pthread"}

Work == INSTANCE Workers WITH
  kind <- IF bench \in WorkKinds THEN bench ELSE "sync-mutex",
  Ops <- WorkOps, mpc <- wmpc

ASSUME FutexAssumption == Futex!RoundsAssumption
ASSUME PipeAssumption == Pipe!RoundsAssumption /\ Pipe!MayFailAssumption
ASSUME MpmcAssumption == Mpmc!ThreadsAssumption /\ Mpmc!SizeAssumption
ASSUME WorkAssumption == Work!WorkersAssumption

futexVars == << word, mpc, mi, tpc, ti, switches, reported >>
pipeVars  == << bytes, ping, pi, pong, qi, broke, failed, pipeSwitches, pipeReported >>
mpmcVars  == << items, head, tail, produced, consumed, ppc, pn, pt, cpc, ch, citem,
                local, drain, sent, received >>
workVars  == << wmpc, k, created, ret, ready, countA, countB, wpc, n, writer, readers >>
vars == << bench, futexVars, pipeVars, mpmcVars, workVars >>

Benches == {"cswitch-futex", "cswitch-pipe-ping", "sync-mpmc"} \cup WorkKinds

TypeOK ==
  bench \in Benches /\ Futex!TypeOK /\ Pipe!TypeOK /\ Mpmc!TypeOK /\ Work!TypeOK

Init == bench \in Benches /\ Futex!Init /\ Pipe!Init /\ Mpmc!Init /\ Work!Init

-----------------------------------------------------------------------------
(* A step of the one benchmark that runs leaves the others' state alone.    *)
RunsFutex ==
  bench = "cswitch-futex" /\ UNCHANGED << bench, pipeVars, mpmcVars, workVars >>

RunsPipe ==
  bench = "cswitch-pipe-ping" /\ UNCHANGED << bench, futexVars, mpmcVars, workVars >>

RunsMpmc == bench = "sync-mpmc" /\ UNCHANGED << bench, futexVars, pipeVars, workVars >>

RunsWork == bench \in WorkKinds /\ UNCHANGED << bench, futexVars, pipeVars, mpmcVars >>

Next ==
  \/ RunsFutex /\ Futex!Next
  \/ RunsPipe /\ Pipe!Next
  \/ RunsMpmc /\ Mpmc!Next
  \/ RunsWork /\ Work!Next

(* The scheduler runs every thread of the benchmark that runs.  The harness *)
(* is not obliged to call again, nor a system call to fail.                 *)
Fairness ==
  /\ WF_vars(RunsFutex /\ Futex!MainStep) /\ WF_vars(RunsFutex /\ Futex!ThreadStep)
  /\ WF_vars(RunsPipe /\ Pipe!PingStep) /\ WF_vars(RunsPipe /\ Pipe!PongStep)
  /\ \A p \in Producers : WF_vars(RunsMpmc /\ Mpmc!ProducerStep(p))
  /\ \A c \in Consumers : WF_vars(RunsMpmc /\ Mpmc!ConsumerStep(c))
  /\ WF_vars(RunsWork /\ Work!MainStep)
  /\ \A t \in 0..CPUs : WF_vars(RunsWork /\ t \in Work!Slots /\ Work!WorkerStep(t))

Spec == Init /\ [][Next]_vars
FairSpec == Spec /\ Fairness

-----------------------------------------------------------------------------
(* No wake of the futex ping-pong is lost (cswitch_futex.c:36-38, 80-82).   *)
NoLostWake == Futex!NoLostWake

(* With one producer and one consumer the ring of sync_mpmc.c:34-49 is a    *)
(* bounded FIFO queue, across calls.                                        *)
QueueImplementsFifo == Mpmc!ImplementsFifo

(* A call reports its own work, all of it: sync_mpmc, with one thread of    *)
(* each kind, takes out every item in order and counts all but the item 0,  *)
(* which dequeue cannot tell from an empty queue (sync_mpmc.c:48, 61-73);   *)
(* cswitch_pipe leaves its pipe empty and has counted all its rounds,       *)
(* though either side may leave its loop early (cswitch_pipe.c:34-43,       *)
(* 88-105); the others count every worker's share and nothing of warmup or  *)
(* of the call before (sync_mutex.c:55-84, sync_rwlock.c:63-99,             *)
(* cswitch_smt.c:56-94).                                                    *)
CountsOwnWork == Mpmc!AllConsumed /\ Pipe!LeavesNothing /\ Work!CountsOwnWork

(* Every call returns, but for a ping-pong that ends with one side waiting  *)
(* behind a peer that has left its loop (cswitch_futex.c:82,                *)
(* cswitch_pipe.c:38 and 89): producers find room, consumers an end         *)
(* (sync_mpmc.c:54-73), workers the flag they wait for (sync_mutex.c:24,    *)
(* sync_rwlock.c:27, cswitch_smt.c:70), a lock is released.                 *)
EveryCallReturns ==
  /\ Futex!StuckOnlyAtTheEnd /\ Pipe!StuckOnlyAtTheEnd
  /\ bench = "sync-mpmc" => Mpmc!CallReturns
  /\ Work!CallReturns
=============================================================================
