----------------------------- MODULE IoBenchmarks -----------------------------
(***************************************************************************)
(* The benchmarks that move data or connections through the kernel or the   *)
(* file system, as one run of them: `servmark --benchmark NAME` takes one   *)
(* of them through init and warmup and then calls its measure again and     *)
(* again on the same state, the file benchmarks once per core at the same   *)
(* time.  Their insides are in IpcPipe, NetConnRate, NetStream and          *)
(* SharedFixture, whose variables have the same names here unless two of    *)
(* them share a name.                                                       *)
(***************************************************************************)
EXTENDS Integers

CONSTANTS
  Msgs, PipeMsgs, Calls,                    (* of ipc_pipe                  *)
  WarmConns, NumConns, Backlog, MaxFailed,  (* of net_conn_rate             *)
  WarmMsgs, NumMsgs, Buffer, MaxRefused,    (* of the four streams          *)
  Instances, Blocks, Passes, FixtureCalls, MaxFaults   (* of the fixtures   *)

VARIABLES
  bench,                                                      (* the one selected *)
  pc, table, rfd, wfd, made, content, sent, fdi, fdc, calls,  (* IpcPipe     *)
  ret, fresh, orphan, cpc, ctable, seen, got,
  phase, mpc, i, actual, connRet, failed,                     (* NetConnRate *)
  apc, done, accepted, listening, queue,
  streamPhase, script, sends, total, streamRet, refused,      (* NetStream   *)
  streamFailed, spc, told, count, listens, pending, up, down, eof, left,
  instPhase, todo, fd, n, off, moved, instRet, instCalls,     (* SharedFixture *)
  since, entry, size, dir, faults

Ipc  == INSTANCE IpcPipe
Conn == INSTANCE NetConnRate WITH ret <- connRet

(* The kind of a stream or a fixture is the name of the benchmark.          *)
StreamKinds  == {"net-tcp", "net-latency", "net-zero-copy", "net-udp"}
FixtureKinds == {"fs-copy", "fs-fsync", "fs-meta", "fs-rand-rw", "fs-seq-rw", "fs-uring",
                 "script-python", "script-shell"}

Stream == INSTANCE NetStream WITH
  kind <- IF bench \in StreamKinds THEN bench ELSE "net-tcp",
  MaxFailed <- MaxRefused, phase <- streamPhase, i <- sends, ret <- streamRet,
  failed <- streamFailed, done <- told, listening <- listens, queue <- pending

Fixture == INSTANCE SharedFixture WITH
  kind <- IF bench \in FixtureKinds THEN bench ELSE "fs-copy",
  Calls <- FixtureCalls, MaxFailed <- MaxFaults, phase <- instPhase, script <- todo,
  ret <- instRet, calls <- instCalls, failed <- faults

ASSUME IpcAssumption == Ipc!MsgsAssumption /\ Ipc!CallsAssumption
ASSUME ConnAssumption == Conn!ConnsAssumption /\ Conn!BacklogAssumption
ASSUME StreamAssumption == Stream!StreamAssumption
ASSUME FixtureAssumption == Fixture!FixtureAssumption

ipcVars  == << pc, table, rfd, wfd, made, content, sent, fdi, fdc, calls, ret, fresh,
               orphan, cpc, ctable, seen, got >>
connVars == << phase, mpc, i, actual, connRet, failed, apc, done, accepted, listening,
               queue >>
streamVars == << streamPhase, script, sends, total, streamRet, refused, streamFailed,
                 spc, told, count, listens, pending, up, down, eof, left >>
fixtureVars == << instPhase, todo, fd, n, off, moved, instRet, instCalls, since, entry,
                  size, dir, faults >>
vars == << bench, ipcVars, connVars, streamVars, fixtureVars >>

Benches == {"ipc-pipe", "net-conn-rate"} \cup StreamKinds \cup FixtureKinds

TypeOK ==
  bench \in Benches /\ Ipc!TypeOK /\ Conn!TypeOK /\ Stream!TypeOK /\ Fixture!TypeOK

Init == bench \in Benches /\ Ipc!Init /\ Conn!Init /\ Stream!Init /\ Fixture!Init

-----------------------------------------------------------------------------
(* A step of the one benchmark that runs leaves the others' state alone.    *)
RunsIpc ==
  bench = "ipc-pipe" /\ UNCHANGED << bench, connVars, streamVars, fixtureVars >>

RunsConn ==
  bench = "net-conn-rate" /\ UNCHANGED << bench, ipcVars, streamVars, fixtureVars >>

RunsStream ==
  bench \in StreamKinds /\ UNCHANGED << bench, ipcVars, connVars, fixtureVars >>

RunsFixture ==
  bench \in FixtureKinds /\ UNCHANGED << bench, ipcVars, connVars, streamVars >>

Next ==
  \/ RunsIpc /\ Ipc!Next
  \/ RunsConn /\ Conn!Next
  \/ RunsStream /\ Stream!Next
  \/ RunsFixture /\ Fixture!Next

(* Both processes, or both threads, of the benchmark that runs are          *)
(* scheduled.  No call is obliged to fail.                                  *)
Fairness ==
  /\ WF_vars(RunsIpc /\ Ipc!SelfStep) /\ WF_vars(RunsIpc /\ Ipc!ChildStep)
  /\ WF_vars(RunsConn /\ Conn!CallerStep) /\ WF_vars(RunsConn /\ Conn!AcceptorStep)
  /\ WF_vars(RunsStream /\ Stream!CallerStep) /\ WF_vars(RunsStream /\ Stream!ServerStep)

Spec == Init /\ [][Next]_vars
FairSpec == Spec /\ Fairness

-----------------------------------------------------------------------------
(* What a successful call reports has moved, and in that call: the messages *)
(* of a pipe found open (ipc_pipe.c:67-70), the connections                 *)
(* (net_conn_rate.c:60-80), the bytes a server drained by the time it is    *)
(* joined (net_tcp.c:82-87, net_zero_copy.c:98-108), the echoes             *)
(* (net_latency.c:78-91), and no datagram that was not sent (net_udp.c:69); *)
(* a file benchmark has worked on whole files unless a call failed or       *)
(* another instance of it was in init or cleanup meanwhile                  *)
(* (fs_seq_rw.c:18-30, 82-86 and their like).                               *)
ReportsWhatMoved ==
  /\ Ipc!FreshCallMoves /\ Conn!CountsOwnConnections /\ Stream!ReportsWhatArrived
  /\ Fixture!ShortOnlyIfDisturbed

(* Whatever failed, cleanup leaves no descriptor of ipc_pipe open but the   *)
(* two that warmup forgets when it could not fork (ipc_pipe.c:30, 81-85),   *)
(* and the last instance to end leaves no file below /tmp, whoever removed  *)
(* or remade whose (fs_copy.c:90-95, fs_meta.c:70-78 and their like).       *)
EndsClean == Ipc!EndsClean /\ Fixture!NothingLeftBehind

(* Every call returns: a reader without data sees the end of its pipe       *)
(* (ipc_pipe.c:55-73), an acceptor in accept() is woken by the shutdown     *)
(* (net_conn_rate.c:72-74), a server sees the end of its stream; but for a  *)
(* caller whose connect was refused and that joins a thread still in        *)
(* accept() (net_tcp.c:58-59, net_latency.c:73-76).                         *)
EveryCallReturns == Ipc!CallsReturn /\ Conn!CallReturns /\ Stream!StuckOnlyIfRefused
=============================================================================
