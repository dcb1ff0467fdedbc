------------------------------ MODULE CswitchPipe ------------------------------
(***************************************************************************)
(* The pipe ping-pong of src/benchmarks/os/cswitch_pipe.c.  Both threads    *)
(* use both ends of one pipe: ping (the new thread) writes a byte and reads *)
(* one, pong (the caller of measure) reads a byte and writes one.  Whose    *)
(* byte a read takes is not determined, and does not matter: a pipe is the  *)
(* number of bytes in it.                                                   *)
(*                                                                          *)
(* A read or write of either side may fail: ping then sets thread_failed    *)
(* and leaves its loop, pong just leaves its loop.  The harness does not    *)
(* call measure again after a call that failed.                             *)
(***************************************************************************)
EXTENDS Integers

CONSTANTS
  Rounds,     (* SWITCHES_PER_ITER / 2, the rounds of each side             *)
  MayFail     (* whether system calls may fail                              *)

RoundsAssumption == Rounds \in Nat \ {0}
MayFailAssumption == MayFail \in BOOLEAN

VARIABLES
  bytes,      (* bytes in the pipe                                          *)
  ping, pi,   (* where ping is, and its loop variable                       *)
  pong, qi,   (* the same of pong                                           *)
  broke,      (* pong left its loop early                                   *)
  failed,     (* thread_failed                                              *)
  switches,   (* switch_count                                               *)
  reported    (* what the last call reported, -1 if it failed               *)

pingVars == << ping, pi, failed, switches >>
pongVars == << pong, qi, broke >>
vars == << bytes, pingVars, pongVars, reported >>

TypeOK ==
  /\ bytes \in Nat
  /\ ping \in {"none", "start", "write", "read", "exit"} /\ pi \in 0..Rounds
  /\ pong \in {"idle", "spin", "read", "write", "join", "over"} /\ qi \in 0..Rounds
  /\ broke \in BOOLEAN /\ failed \in BOOLEAN
  /\ switches \in 0..2 * Rounds
  /\ reported \in -1..2 * Rounds

(* init makes the pipe; warmup takes every byte out again that it puts in.  *)
Init ==
  /\ bytes = 0
  /\ ping = "none" /\ pi = 0
  /\ pong = "idle" /\ qi = 0
  /\ broke = FALSE /\ failed = FALSE
  /\ switches = 0
  /\ reported = 0

-----------------------------------------------------------------------------
(* ping_thread.                                                             *)

PingStart ==
  /\ ping = "start"
  /\ ping' = "write"
  /\ UNCHANGED << bytes, pi, failed, switches, pongVars, reported >>

PingWrite ==
  /\ ping = "write"
  /\ ping' = "read"
  /\ bytes' = bytes + 1
  /\ UNCHANGED << pi, failed, switches, pongVars, reported >>

PingRead ==
  /\ ping = "read"
  /\ bytes > 0
  /\ bytes' = bytes - 1
  /\ switches' = switches + 2
  /\ pi' = pi + 1
  /\ ping' = IF pi + 1 < Rounds THEN "write" ELSE "exit"
  /\ UNCHANGED << failed, pongVars, reported >>

PingFails ==
  /\ MayFail
  /\ ping \in {"write", "read"}
  /\ ping' = "exit"
  /\ failed' = TRUE
  /\ UNCHANGED << bytes, pi, switches, pongVars, reported >>

-----------------------------------------------------------------------------
(* measure.                                                                 *)

Call ==
  /\ pong = "idle"
  /\ failed' = FALSE
  /\ switches' = 0
  /\ \/ pong' = "spin" /\ ping' = "start" /\ UNCHANGED reported
     \/ pong' = "over" /\ reported' = -1 /\ UNCHANGED ping
  /\ pi' = 0 /\ qi' = 0 /\ broke' = FALSE
  /\ UNCHANGED bytes

SpinReady ==
  /\ pong = "spin"
  /\ ping # "start"
  /\ pong' = "read"
  /\ UNCHANGED << bytes, pingVars, qi, broke, reported >>

PongRead ==
  /\ pong = "read"
  /\ bytes > 0
  /\ bytes' = bytes - 1
  /\ pong' = "write"
  /\ UNCHANGED << pingVars, qi, broke, reported >>

PongWrite ==
  /\ pong = "write"
  /\ bytes' = bytes + 1
  /\ qi' = qi + 1
  /\ pong' = IF qi + 1 < Rounds THEN "read" ELSE "join"
  /\ UNCHANGED << pingVars, broke, reported >>

PongFails ==
  /\ MayFail
  /\ pong \in {"read", "write"}
  /\ pong' = "join"
  /\ broke' = TRUE
  /\ UNCHANGED << bytes, pingVars, qi, reported >>

PongJoin ==
  /\ pong = "join"
  /\ ping = "exit"
  /\ IF failed THEN pong' = "over" /\ reported' = -1
               ELSE pong' = "idle" /\ reported' = switches
  /\ ping' = "none"
  /\ UNCHANGED << bytes, pi, failed, switches, qi, broke >>

-----------------------------------------------------------------------------
PingStep == PingStart \/ PingWrite \/ PingRead
PongStep == SpinReady \/ PongRead \/ PongWrite \/ PongJoin

Next == Call \/ PingStep \/ PingFails \/ PongStep \/ PongFails

Spec == Init /\ [][Next]_vars

-----------------------------------------------------------------------------
(* A call that succeeds leaves the pipe empty, even if pong left its loop   *)
(* early, and counts every round: the next call starts from nothing.        *)
LeavesNothing ==
  pong = "idle" => bytes = 0 /\ reported \in {0, 2 * Rounds}

(* The last byte is gone and the peer will write no other.                  *)
Stranded ==
  /\ bytes = 0
  /\ \/ pong = "read" /\ ping = "exit"
     \/ ping = "read" /\ pong = "join" /\ broke

(* A call returns, or one side waits behind a peer that has left its loop.  *)
StuckOnlyAtTheEnd == pong = "spin" ~> pong \in {"idle", "over"} \/ Stranded
=============================================================================
