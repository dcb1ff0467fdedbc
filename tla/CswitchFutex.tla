----------------------------- MODULE CswitchFutex -----------------------------
(***************************************************************************)
(* The futex ping-pong of src/benchmarks/os/cswitch_futex.c.  Main and the  *)
(* thread hand a word back and forth: main stores 1, wakes, waits while the *)
(* word is 1; the thread waits while it is 0, stores 0, wakes.  FUTEX_WAIT  *)
(* returns at once if the word is not what the caller expects.  The futex   *)
(* calls order the relaxed stores, so memory is sequentially consistent.    *)
(*                                                                          *)
(* The harness calls measure again and again on the same state; a call may  *)
(* fail to create the thread.  No signal handler is installed that could    *)
(* interrupt a wait.                                                        *)
(***************************************************************************)
EXTENDS Integers

CONSTANT Rounds   (* SWITCHES / 2, the rounds of each side                  *)

RoundsAssumption == Rounds \in Nat \ {0}

VARIABLES
  word,      (* futex_word                                                  *)
  mpc, mi,   (* main: where it is in measure, and its loop variable         *)
  tpc, ti,   (* the same of the thread                                      *)
  switches,  (* the counter the thread keeps                                *)
  reported   (* what the last call reported, -1 if it failed                *)

mainVars == << mpc, mi >>
threadVars == << tpc, ti, switches >>
vars == << word, mainVars, threadVars, reported >>

TypeOK ==
  /\ word \in {0, 1}
  /\ mpc \in {"idle", "spin", "store", "wake", "wait", "asleep", "join"}
  /\ mi \in 0..Rounds
  /\ tpc \in {"none", "start", "wait", "asleep", "store", "wake", "count", "exit"}
  /\ ti \in 0..Rounds
  /\ switches \in 0..2 * Rounds
  /\ reported \in -1..2 * Rounds

(* warmup may have left the word at 1.                                      *)
Init ==
  /\ word \in {0, 1}
  /\ mpc = "idle" /\ mi = 0
  /\ tpc = "none" /\ ti = 0
  /\ switches = 0
  /\ reported = -1

-----------------------------------------------------------------------------
(* FUTEX_WAKE, 1: of the two sides only the other one can be asleep.        *)
WakeThread == tpc' = IF tpc = "asleep" THEN "store" ELSE tpc

WakeMain_Nobody(next) == mpc' = mpc /\ mi' = mi

(* The thread wakes main, which has then finished a round.                  *)
WakeMain(next) ==
  IF mpc = "asleep" THEN mpc' = next /\ mi' = mi + 1
                    ELSE UNCHANGED mainVars

NextRound_OffByOne(k) == IF k <= Rounds THEN "store" ELSE "join"

(* Where main goes after round k.                                           *)
NextRound(k) == IF k < Rounds THEN "store" ELSE "join"

-----------------------------------------------------------------------------
(* measure, in the calling thread.                                          *)

(* The three stores and pthread_create.                                     *)
Call ==
  /\ mpc = "idle"
  /\ word' = 0
  /\ switches' = 0
  /\ \/ mpc' = "spin" /\ mi' = 0 /\ tpc' = "start" /\ ti' = 0 /\ UNCHANGED reported
     \/ reported' = -1 /\ UNCHANGED << mainVars, tpc, ti >>

SpinReady ==
  /\ mpc = "spin"
  /\ tpc # "start"
  /\ mpc' = "store"
  /\ UNCHANGED << word, mi, threadVars, reported >>

MainStore ==
  /\ mpc = "store"
  /\ word' = 1
  /\ mpc' = "wake"
  /\ UNCHANGED << mi, threadVars, reported >>

MainWake ==
  /\ mpc = "wake"
  /\ WakeThread
  /\ mpc' = "wait"
  /\ UNCHANGED << word, mi, ti, switches, reported >>

MainWait ==
  /\ mpc = "wait"
  /\ IF word = 1 THEN mpc' = "asleep" /\ UNCHANGED mi
                 ELSE mpc' = NextRound(mi + 1) /\ mi' = mi + 1
  /\ UNCHANGED << word, threadVars, reported >>

MainJoin ==
  /\ mpc = "join"
  /\ tpc = "exit"
  /\ mpc' = "idle"
  /\ tpc' = "none"
  /\ reported' = switches
  /\ UNCHANGED << word, mi, ti, switches >>

-----------------------------------------------------------------------------
(* futex_thread.                                                            *)

ThreadStart ==
  /\ tpc = "start"
  /\ tpc' = "wait"
  /\ UNCHANGED << word, mainVars, ti, switches, reported >>

ThreadWait ==
  /\ tpc = "wait"
  /\ tpc' = IF word = 0 THEN "asleep" ELSE "store"
  /\ UNCHANGED << word, mainVars, ti, switches, reported >>

ThreadStore ==
  /\ tpc = "store"
  /\ word' = 0
  /\ tpc' = "wake"
  /\ UNCHANGED << mainVars, ti, switches, reported >>

ThreadWake ==
  /\ tpc = "wake"
  /\ WakeMain(NextRound(mi + 1))
  /\ tpc' = "count"
  /\ UNCHANGED << word, ti, switches, reported >>

ThreadCount ==
  /\ tpc = "count"
  /\ switches' = switches + 2
  /\ ti' = ti + 1
  /\ tpc' = IF ti + 1 < Rounds THEN "wait" ELSE "exit"
  /\ UNCHANGED << word, mainVars, reported >>

-----------------------------------------------------------------------------
MainStep == SpinReady \/ MainStore \/ MainWake \/ MainWait \/ MainJoin
ThreadStep == ThreadStart \/ ThreadWait \/ ThreadStore \/ ThreadWake \/ ThreadCount

Next == Call \/ MainStep \/ ThreadStep

Spec == Init /\ [][Next]_vars

-----------------------------------------------------------------------------
(* No wake is lost: a side asleep on a word that the other has toggled is   *)
(* about to be woken by it (store before FUTEX_WAKE, cswitch_futex.c:37-38  *)
(* and 81-82, against the check inside FUTEX_WAIT).                         *)
NoLostWake ==
  /\ mpc = "asleep" /\ word = 0 => tpc = "wake"
  /\ tpc = "asleep" /\ word = 1 => mpc = "wake"

(* A side that sleeps for ever sleeps behind the last round of the other.   *)
Stranded ==
  \/ mpc = "asleep" /\ tpc = "exit"
  \/ mpc = "join" /\ tpc = "asleep"

(* A call returns, or it ends with one side asleep behind a peer that has   *)
(* finished all its rounds; it never gets stuck in the middle.              *)
StuckOnlyAtTheEnd == mpc = "spin" ~> mpc = "idle" \/ Stranded
=============================================================================
