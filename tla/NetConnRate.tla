------------------------------ MODULE NetConnRate ------------------------------
(***************************************************************************)
(* src/benchmarks/net/net_conn_rate.c: the caller of warmup or measure      *)
(* connects Conns times to a listening socket of its own process, an        *)
(* acceptor thread accepts and counts.  The call ends by shutting the       *)
(* listener down, which is what wakes an acceptor blocked in accept().      *)
(*                                                                          *)
(* The kernel's part: a connection waits in the accept queue until it is    *)
(* accepted; connect() waits while the queue is full and fails when nobody  *)
(* listens; shutdown() of a listening socket drops its queue, and every     *)
(* accept() on it fails from then on.  The thread is always created.        *)
(***************************************************************************)
EXTENDS Integers

CONSTANTS
  WarmConns,  (* connections of warmup                                      *)
  NumConns,   (* NUM_CONNS                                                  *)
  Backlog,    (* LISTEN_BACKLOG                                             *)
  MaxFailed   (* bound: connects that fail for want of ports or descriptors *)

ConnsAssumption ==
  /\ WarmConns \in Nat \ {0} /\ NumConns \in Nat \ {0}
  /\ WarmConns <= NumConns
BacklogAssumption == Backlog \in Nat \ {0} /\ MaxFailed \in Nat

VARIABLES
  phase,      (* "warmup" until it has returned, then "measure"             *)
  mpc,        (* where the caller is                                        *)
  i,          (* its loop variable                                          *)
  actual,     (* connects that succeeded in this call                       *)
  ret,        (* what the last call returned                                *)
  failed,     (* connects that failed while somebody listened               *)
  apc,        (* where the acceptor is                                      *)
  done,       (* told to stop                                               *)
  accepted,   (* connections counted                                        *)
  listening,  (* the listener listens                                       *)
  queue       (* connections in its accept queue                            *)

callerVars == << phase, mpc, i, actual, ret, failed >>
acceptorVars == << apc, done, accepted >>
kernelVars == << listening, queue >>
vars == << callerVars, acceptorVars, kernelVars >>

Conns == IF phase = "warmup" THEN WarmConns ELSE NumConns

TypeOK ==
  /\ phase \in {"warmup", "measure"}
  /\ mpc \in {"idle", "spin", "connect", "shutdown", "done", "join", "over"}
  /\ i \in 0..Conns /\ actual \in 0..i
  /\ ret \in {0, -1}
  /\ failed \in 0..MaxFailed
  /\ apc \in {"none", "start", "loop", "accept", "count", "exit"}
  /\ done \in BOOLEAN
  /\ accepted \in Nat
  /\ listening \in BOOLEAN
  /\ queue \in 0..Backlog

(* init returns a listening socket or the benchmark does not run.           *)
Init ==
  /\ phase = "warmup" /\ mpc = "idle" /\ i = 0 /\ actual = 0 /\ ret = 0 /\ failed = 0
  /\ apc = "none" /\ done = FALSE /\ accepted = 0
  /\ listening = TRUE /\ queue = 0

-----------------------------------------------------------------------------
(* warmup and measure.                                                      *)

Call ==
  /\ mpc = "idle"
  /\ done' = FALSE /\ accepted' = 0 /\ i' = 0 /\ actual' = 0
  /\ apc' = "start"
  /\ mpc' = "spin"
  /\ UNCHANGED << phase, ret, failed, kernelVars >>

SpinReady ==
  /\ mpc = "spin"
  /\ apc # "start"
  /\ mpc' = "connect"
  /\ UNCHANGED << phase, i, actual, ret, failed, acceptorVars, kernelVars >>

Stop == IF phase = "measure" THEN "shutdown" ELSE "done"

NextConnect_OneMore == i' = i + 1 /\ mpc' = IF i < Conns THEN "connect" ELSE Stop

NextConnect == i' = i + 1 /\ mpc' = IF i + 1 < Conns THEN "connect" ELSE Stop

Connect ==
  /\ mpc = "connect"
  /\ listening /\ queue < Backlog
  /\ queue' = queue + 1
  /\ actual' = actual + 1
  /\ NextConnect
  /\ UNCHANGED << phase, ret, failed, acceptorVars, listening >>

(* A connect that fails is passed over; its socket is never closed.         *)
Refused ==
  /\ mpc = "connect"
  /\ ~listening
  /\ NextConnect
  /\ UNCHANGED << phase, actual, ret, failed, acceptorVars, kernelVars >>

ConnectFails ==
  /\ mpc = "connect"
  /\ listening /\ failed < MaxFailed
  /\ failed' = failed + 1
  /\ NextConnect
  /\ UNCHANGED << phase, actual, ret, acceptorVars, kernelVars >>

(* measure shuts the listener down and then sets done; warmup the other way *)
(* round.                                                                   *)
Shutdown ==
  /\ mpc = "shutdown"
  /\ listening' = FALSE /\ queue' = 0
  /\ mpc' = IF phase = "measure" THEN "done" ELSE "join"
  /\ UNCHANGED << phase, i, actual, ret, failed, acceptorVars >>

SetDone ==
  /\ mpc = "done"
  /\ done' = TRUE
  /\ mpc' = IF phase = "measure" THEN "join" ELSE "shutdown"
  /\ UNCHANGED << phase, i, actual, ret, failed, apc, accepted, kernelVars >>

(* warmup makes a new listener, whose bind and listen nobody checks.        *)
JoinWarmup ==
  /\ mpc = "join" /\ phase = "warmup"
  /\ apc = "exit" /\ apc' = "none"
  /\ listening' \in BOOLEAN
  /\ phase' = "measure"
  /\ mpc' = "idle"
  /\ UNCHANGED << i, actual, ret, failed, done, accepted, queue >>

Enough == accepted * 100 >= NumConns * 95

(* After a measure that failed the harness cleans up.                       *)
JoinMeasure ==
  /\ mpc = "join" /\ phase = "measure"
  /\ apc = "exit" /\ apc' = "none"
  /\ IF Enough THEN ret' = 0 /\ mpc' = "idle" ELSE ret' = -1 /\ mpc' = "over"
  /\ UNCHANGED << phase, i, actual, failed, done, accepted, kernelVars >>

-----------------------------------------------------------------------------
(* acceptor.                                                                *)

AcceptorStart ==
  /\ apc = "start"
  /\ apc' = "loop"
  /\ UNCHANGED << callerVars, done, accepted, kernelVars >>

CheckDone ==
  /\ apc = "loop"
  /\ apc' = IF done THEN "exit" ELSE "accept"
  /\ UNCHANGED << callerVars, done, accepted, kernelVars >>

Accept ==
  /\ apc = "accept"
  /\ listening /\ queue > 0
  /\ queue' = queue - 1
  /\ apc' = "count"
  /\ UNCHANGED << callerVars, done, accepted, listening >>

AcceptFails ==
  /\ apc = "accept"
  /\ ~listening
  /\ apc' = "exit"
  /\ UNCHANGED << callerVars, done, accepted, kernelVars >>

CountAccepted ==
  /\ apc = "count"
  /\ accepted' = accepted + 1
  /\ apc' = "loop"
  /\ UNCHANGED << callerVars, done, kernelVars >>

-----------------------------------------------------------------------------
CallerStep == Call \/ SpinReady \/ Connect \/ Refused \/ Shutdown \/ SetDone
              \/ JoinWarmup \/ JoinMeasure

AcceptorStep == AcceptorStart \/ CheckDone \/ Accept \/ AcceptFails \/ CountAccepted

Over == mpc = "over" /\ UNCHANGED vars

Next == CallerStep \/ ConnectFails \/ AcceptorStep \/ Over

Spec == Init /\ [][Next]_vars

-----------------------------------------------------------------------------
(* Every connection of a call is in one place: in the accept queue, on its  *)
(* way to the counter, counted, or dropped by the shutdown.  None is        *)
(* counted twice and none is carried into the next call, so the rate a call *)
(* reports is of connections it made.                                       *)
CountsOwnConnections ==
  mpc # "idle" => accepted + queue + (IF apc = "count" THEN 1 ELSE 0) <= actual

(* A call returns: a full queue drains, a refused connect is passed over,   *)
(* and an acceptor blocked in accept() is woken by the shutdown.            *)
CallReturns == mpc = "spin" ~> mpc \in {"idle", "over"}

(* measure is called twice for warming up and again for every sample        *)
(* (README.md:286-287): a call that succeeded leaves a listener for the     *)
(* next one.                                                                *)
RearmedForNextCall ==
  mpc = "idle" /\ phase = "measure" /\ i = NumConns => listening
=============================================================================
