------------------------------- MODULE NetStream -------------------------------
(***************************************************************************)
(* The benchmarks of src/benchmarks/net in which a caller talks to a server *)
(* thread of its own process: net_tcp.c (a stream), net_latency.c (request  *)
(* and echo), net_zero_copy.c (sendfile into a stream) and net_udp.c.       *)
(* warmup and measure of all four create the thread, spin until it is       *)
(* ready, connect (but for UDP), send, and stop the thread; they differ in  *)
(* how they stop it, and in what they do when the connect fails.  Each      *)
(* function is given as the steps it takes on either path.                  *)
(*                                                                          *)
(* A connect fails if nobody listens or the process is out of descriptors   *)
(* (the result of socket() is not checked).  A message is one send; a       *)
(* datagram that finds the receive buffer full is dropped.  The thread is   *)
(* always created.                                                          *)
(***************************************************************************)
EXTENDS Integers, Sequences

CONSTANTS
  WarmMsgs,   (* messages of warmup                                         *)
  NumMsgs,    (* NUM_MSGS, NUM_RRS, the chunks of SENDFILE_PASSES           *)
  Buffer,     (* messages between two sockets                               *)
  MaxFailed   (* bound: calls of socket() that fail                         *)

StreamAssumption ==
  /\ WarmMsgs \in Nat \ {0} /\ NumMsgs \in Nat \ {0}
  /\ Buffer \in Nat \ {0} /\ MaxFailed \in Nat

Kinds == {"net-tcp", "net-latency", "net-zero-copy", "net-udp"}

VARIABLES
  kind,       (* the benchmark                                              *)
  phase,      (* "new", then the callback that was called last              *)
  script,     (* steps the caller has left                                  *)
  i,          (* messages the caller has sent in this call                  *)
  total,      (* echoes it has received                                     *)
  ret,        (* what the call returned                                     *)
  refused,    (* history: the connect of this call failed                   *)
  failed,     (* history: calls of socket() that failed                     *)
  spc,        (* where the server thread is                                 *)
  done,       (* told to stop                                               *)
  count,      (* total_bytes, drained, packets                              *)
  listening,  (* the listener listens                                       *)
  queue,      (* connections in its accept queue                            *)
  up, down,   (* messages under way to the server and to the caller         *)
  eof,        (* the caller has shut down its sending side                  *)
  left        (* history: messages under way when the call began            *)

callerVars == << kind, phase, script, i, total, ret, refused, failed, left >>
serverVars == << spc, done, count >>
kernelVars == << listening, queue, up, down, eof >>
vars == << callerVars, serverVars, kernelVars >>

-----------------------------------------------------------------------------
(* The steps after the connect, if it succeeded and if it did not; for      *)
(* net_udp the steps after ready.                                           *)

nt_warmup == [ok      |-> << "send", "hangup", "done", "join" >>,
              refused |-> << "done", "join" >>]

nt_measure_NoShutdown == [ok      |-> << "send", "hangup", "join" >>,
                          refused |-> << "done", "join", "fail" >>]

nt_measure == [ok      |-> << "send", "hangup", "join" >>,
               refused |-> << "shut", "done", "join", "fail" >>]

nl_warmup == [ok      |-> << "exchange", "hangup", "done", "join" >>,
              refused |-> << "done", "join" >>]

nl_measure == [ok      |-> << "exchange", "hangup", "done", "join" >>,
               refused |-> << "done", "join", "fail" >>]

zc_warmup == [ok      |-> << "send", "hangup", "shut", "done", "join", "relisten" >>,
              refused |-> << "shut", "done", "join", "relisten" >>]

(* The file may be gone after the connect.                                  *)
zc_measure == [ok         |-> << "send", "hangup", "shut", "done", "join" >>,
               refused    |-> << "fail" >>,
               unreadable |-> << "hangup", "fail" >>]

nu_warmup == [ok |-> << "send", "done", "join" >>]

nu_measure == [ok |-> << "send", "done", "join" >>]

Plan(p) ==
  CASE kind = "net-tcp"       -> IF p = "measure" THEN nt_measure ELSE nt_warmup
    [] kind = "net-latency"   -> IF p = "measure" THEN nl_measure ELSE nl_warmup
    [] kind = "net-zero-copy" -> IF p = "measure" THEN zc_measure ELSE zc_warmup
    [] kind = "net-udp"       -> IF p = "measure" THEN nu_measure ELSE nu_warmup

PerCall == IF phase = "measure" THEN NumMsgs ELSE WarmMsgs

Idle == script = << >> /\ ret = 0
Over == script = << >> /\ ret = -1

At(step) == script # << >> /\ Head(script) = step

TypeOK ==
  /\ kind \in Kinds
  /\ phase \in {"new", "warmup", "measure"}
  /\ script \in Seq({"spin", "connect", "send", "exchange", "hangup", "shut", "done",
                     "join", "relisten", "fail"})
  /\ i \in 0..PerCall /\ total \in 0..i
  /\ ret \in {0, -1}
  /\ refused \in BOOLEAN /\ failed \in 0..MaxFailed
  /\ spc \in {"none", "start", "accept", "check", "recv", "reply", "exit"}
  /\ done \in BOOLEAN /\ count \in Nat
  /\ listening \in BOOLEAN /\ queue \in {0, 1}
  /\ up \in 0..Buffer /\ down \in {0, 1} /\ eof \in BOOLEAN
  /\ left \in 0..Buffer

(* init returns a bound socket that listens, or the benchmark does not run. *)
(* zc_init checks neither bind nor listen.                                  *)
Init ==
  /\ kind \in Kinds
  /\ phase = "new" /\ script = << >> /\ i = 0 /\ total = 0 /\ ret = 0
  /\ refused = FALSE /\ failed = 0
  /\ spc = "none" /\ done = FALSE /\ count = 0
  /\ listening \in IF kind = "net-zero-copy" THEN BOOLEAN ELSE {TRUE}
  /\ queue = 0 /\ up = 0 /\ down = 0 /\ eof = FALSE /\ left = 0

-----------------------------------------------------------------------------
(* The caller.                                                              *)

Call_KeepsCount ==
  /\ Idle
  /\ phase' = IF phase = "new" THEN "warmup" ELSE "measure"
  /\ i' = 0 /\ total' = 0 /\ count' = count /\ done' = FALSE
  /\ refused' = FALSE
  /\ left' = up
  /\ spc' = "start"
  /\ script' = << "spin" >> \o (IF kind = "net-udp" THEN Plan(phase').ok
                                ELSE << "connect" >>)
  /\ UNCHANGED << kind, ret, failed, kernelVars >>

Call ==
  /\ Idle
  /\ phase' = IF phase = "new" THEN "warmup" ELSE "measure"
  /\ i' = 0 /\ total' = 0 /\ count' = 0 /\ done' = FALSE
  /\ refused' = FALSE
  /\ left' = up
  /\ spc' = "start"
  /\ script' = << "spin" >> \o (IF kind = "net-udp" THEN Plan(phase').ok
                                ELSE << "connect" >>)
  /\ UNCHANGED << kind, ret, failed, kernelVars >>

SpinReady ==
  /\ At("spin")
  /\ spc # "start"
  /\ script' = Tail(script)
  /\ UNCHANGED << kind, phase, i, total, ret, refused, failed, left, serverVars,
                  kernelVars >>

Connect ==
  /\ At("connect")
  /\ listening /\ queue = 0
  /\ queue' = 1 /\ eof' = FALSE
  /\ \E outcome \in {"ok", "unreadable"} \cap DOMAIN Plan(phase) :
       script' = Plan(phase)[outcome]
  /\ UNCHANGED << kind, phase, i, total, ret, refused, failed, left, serverVars,
                  listening, up, down >>

ConnectFails ==
  /\ At("connect")
  /\ IF listening THEN failed < MaxFailed /\ failed' = failed + 1 ELSE failed' = failed
  /\ refused' = TRUE
  /\ script' = Plan(phase).refused
  /\ UNCHANGED << kind, phase, i, total, ret, left, serverVars, kernelVars >>

Send ==
  /\ At("send")
  /\ i < PerCall
  /\ IF up < Buffer THEN up' = up + 1 ELSE kind = "net-udp" /\ up' = up
  /\ i' = i + 1
  /\ UNCHANGED << kind, phase, script, total, ret, refused, failed, left, serverVars,
                  listening, queue, down, eof >>

(* A request is sent when the echo of the last one is in.                   *)
Request ==
  /\ At("exchange")
  /\ i < PerCall /\ total = i
  /\ up' = up + 1 /\ i' = i + 1
  /\ UNCHANGED << kind, phase, script, total, ret, refused, failed, left, serverVars,
                  listening, queue, down, eof >>

Echo ==
  /\ At("exchange")
  /\ down > 0
  /\ down' = down - 1 /\ total' = total + 1
  /\ UNCHANGED << kind, phase, script, i, ret, refused, failed, left, serverVars,
                  listening, queue, up, eof >>

AllSent ==
  /\ \/ At("send")
     \/ At("exchange") /\ total = i
  /\ i = PerCall
  /\ script' = Tail(script)
  /\ UNCHANGED << kind, phase, i, total, ret, refused, failed, left, serverVars,
                  kernelVars >>

Hangup ==
  /\ At("hangup")
  /\ eof' = TRUE
  /\ script' = Tail(script)
  /\ UNCHANGED << kind, phase, i, total, ret, refused, failed, left, serverVars,
                  listening, queue, up, down >>

(* A connection nobody has accepted is dropped with what was sent over it.  *)
Shutdown ==
  /\ At("shut")
  /\ listening' = FALSE /\ queue' = 0
  /\ up' = IF queue = 1 THEN 0 ELSE up
  /\ script' = Tail(script)
  /\ UNCHANGED << kind, phase, i, total, ret, refused, failed, left, serverVars, down,
                  eof >>

SetDone ==
  /\ At("done")
  /\ done' = TRUE
  /\ script' = Tail(script)
  /\ UNCHANGED << kind, phase, i, total, ret, refused, failed, left, spc, count,
                  kernelVars >>

Join ==
  /\ At("join")
  /\ spc = "exit" /\ spc' = "none"
  /\ script' = Tail(script)
  /\ UNCHANGED << kind, phase, i, total, ret, refused, failed, left, done, count,
                  kernelVars >>

(* A new listener, whose bind and listen nobody checks.                     *)
Relisten ==
  /\ At("relisten")
  /\ listening' \in BOOLEAN
  /\ script' = Tail(script)
  /\ UNCHANGED << kind, phase, i, total, ret, refused, failed, left, serverVars, queue,
                  up, down, eof >>

(* return -1, after which the harness cleans up and does not call again.    *)
Fail ==
  /\ At("fail")
  /\ ret' = -1
  /\ script' = << >>
  /\ UNCHANGED << kind, phase, i, total, refused, failed, left, serverVars, kernelVars >>

-----------------------------------------------------------------------------
(* tcp_server, echo_server, zc_sink and udp_receiver.                       *)

Loop == IF kind \in {"net-latency", "net-udp"} THEN "check" ELSE "recv"

ServerStart ==
  /\ spc = "start"
  /\ spc' = IF kind = "net-udp" THEN Loop ELSE "accept"
  /\ UNCHANGED << callerVars, done, count, kernelVars >>

Accept ==
  /\ spc = "accept"
  /\ queue = 1 /\ queue' = 0
  /\ spc' = Loop
  /\ UNCHANGED << callerVars, done, count, listening, up, down, eof >>

AcceptFails ==
  /\ spc = "accept"
  /\ ~listening
  /\ spc' = "exit"
  /\ UNCHANGED << callerVars, done, count, kernelVars >>

CheckDone ==
  /\ spc = "check"
  /\ spc' = IF done THEN "exit" ELSE "recv"
  /\ UNCHANGED << callerVars, done, count, kernelVars >>

Receive ==
  /\ spc = "recv"
  /\ up > 0 /\ up' = up - 1
  /\ IF kind = "net-latency" THEN spc' = "reply" /\ count' = count
                         ELSE spc' = Loop /\ count' = count + 1
  /\ UNCHANGED << callerVars, done, listening, queue, down, eof >>

Reply ==
  /\ spc = "reply"
  /\ down' = down + 1
  /\ spc' = Loop
  /\ UNCHANGED << callerVars, done, count, listening, queue, up, eof >>

EndOfStream ==
  /\ spc = "recv"
  /\ kind # "net-udp" /\ up = 0 /\ eof
  /\ spc' = "exit"
  /\ UNCHANGED << callerVars, done, count, kernelVars >>

(* SO_RCVTIMEO of the datagram socket.                                      *)
Timeout ==
  /\ spc = "recv"
  /\ kind = "net-udp" /\ up = 0
  /\ spc' = Loop
  /\ UNCHANGED << callerVars, done, count, kernelVars >>

-----------------------------------------------------------------------------
CallerStep == SpinReady \/ Connect \/ (~listening /\ ConnectFails) \/ Send \/ Request
              \/ Echo \/ AllSent \/ Hangup \/ Shutdown \/ SetDone \/ Join \/ Relisten
              \/ Fail

ServerStep == ServerStart \/ Accept \/ AcceptFails \/ CheckDone \/ Receive \/ Reply
              \/ EndOfStream \/ Timeout

Next == Call \/ CallerStep \/ ConnectFails \/ ServerStep

Spec == Init /\ [][Next]_vars
FairSpec == Spec /\ WF_vars(CallerStep) /\ WF_vars(ServerStep)

-----------------------------------------------------------------------------
(* What a successful measure reports has moved in that call: a stream's     *)
(* server has counted every message although nothing but the hang-up tells  *)
(* it that there are no more, every request has its echo, and the receiver  *)
(* of datagrams has counted none that was not sent (those found in the      *)
(* buffer were sent by the call before).                                    *)
ReportsWhatArrived ==
  /\ Idle /\ phase = "measure" =>
       CASE kind = "net-latency" -> total = NumMsgs /\ up = 0 /\ down = 0
         [] kind = "net-udp"     -> TRUE
         [] OTHER            -> count = NumMsgs /\ up = 0
  /\ kind = "net-udp" => count + up <= left + i

(* A call returns, or its connect has failed and it waits for a thread that *)
(* waits in accept(): nothing in warmup of net_tcp and in net_latency wakes *)
(* the thread.                                                              *)
StuckOnlyIfRefused ==
  At("spin") ~> \/ script = << >>
                \/ /\ refused /\ At("join") /\ spc = "accept"
                   /\ \/ kind = "net-latency"
                      \/ kind = "net-tcp" /\ phase = "warmup"
=============================================================================
