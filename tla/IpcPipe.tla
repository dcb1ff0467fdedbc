-------------------------------- MODULE IpcPipe --------------------------------
(***************************************************************************)
(* src/benchmarks/io/ipc_pipe.c between the calls of the harness: init,     *)
(* warmup, two discarded measure calls, then measure calls between          *)
(* _perf_counters_start and _perf_counters_stop, then cleanup.  A call      *)
(* forks a reader, writes the messages into the pipe, closes both ends and  *)
(* waits.                                                                   *)
(*                                                                          *)
(* What the module is about is the table of file descriptors.  The state    *)
(* keeps two numbers, and a number means whatever the process has open      *)
(* there: the kernel gives out the lowest free number, to a pipe as to a    *)
(* perf counter.                                                            *)
(***************************************************************************)
EXTENDS Integers, FiniteSetsExt

CONSTANTS
  Msgs,       (* NUM_MSGS, and the 1000 of warmup                           *)
  PipeMsgs,   (* messages that fit into a pipe                              *)
  Calls       (* bound: measure calls made by the harness                   *)

MsgsAssumption == Msgs \in Nat \ {0} /\ PipeMsgs \in Nat \ {0}
CallsAssumption == Calls \in Nat /\ Calls >= 3

Fds == 0..5
Pipes == {1, 2}   \* the pipe of init and the fresh one of warmup
Discarded == 2

End(kind, p) == [kind |-> kind, pipe |-> p]
Free == End("free", 0)
Perf == End("perf", 0)
Objects == [kind : {"r", "w"}, pipe : Pipes] \cup {Free, Perf}

VARIABLES
  pc,        (* where the benchmark process is                              *)
  table,     (* what its descriptors are                                    *)
  rfd, wfd,  (* s->pipe_fd                                                  *)
  made,      (* pipes made so far                                           *)
  content,   (* messages in each pipe                                       *)
  sent,      (* writes made in this call, which is what it reports          *)
  fdi, fdc,  (* the harness's counters, -1 if not open                      *)
  calls,     (* measure calls begun                                         *)
  ret,       (* what the last callback returned                             *)
  fresh,     (* history: this call found its pipe open                      *)
  orphan,    (* history: warmup forgot the pipe of init                     *)
  cpc,       (* where the reader is                                         *)
  ctable,    (* its descriptors                                             *)
  seen,      (* reads that returned data in this call                       *)
  got        (* history: messages it read                                   *)

childVars == << cpc, ctable, seen, got >>
perfVars == << fdi, fdc >>
vars == << pc, table, rfd, wfd, made, content, sent, perfVars, calls, ret,
           fresh, orphan, childVars >>

Labels == {"init", "fork", "close", "write", "shut", "wait", "next", "call",
           "stop", "cleanup", "done", "killed"}

TypeOK ==
  /\ pc \in Labels
  /\ table \in [Fds -> Objects] /\ ctable \in [Fds -> Objects]
  /\ rfd \in Fds /\ wfd \in Fds
  /\ made \in 0..2
  /\ content \in [Pipes -> 0..PipeMsgs]
  /\ sent \in 0..Msgs
  /\ fdi \in Fds \cup {-1} /\ fdc \in Fds \cup {-1}
  /\ calls \in 0..Calls
  /\ ret \in {0, -1}
  /\ fresh \in BOOLEAN /\ orphan \in BOOLEAN
  /\ cpc \in {"none", "shut", "read", "end", "dead"}
  /\ seen \in 0..Msgs /\ got \in 0..Msgs

Init ==
  /\ pc = "init"
  /\ table = [f \in Fds |-> Free]
  /\ rfd = 0 /\ wfd = 0
  /\ made = 0
  /\ content = [p \in Pipes |-> 0]
  /\ sent = 0
  /\ fdi = -1 /\ fdc = -1
  /\ calls = 0 /\ ret = 0
  /\ fresh = TRUE /\ orphan = FALSE
  /\ cpc = "none" /\ ctable = [f \in Fds |-> Free] /\ seen = 0 /\ got = 0

(* The lowest number free in a table.                                       *)
Lowest(t) == Min({f \in Fds : t[f] = Free})

(* pipe(): two new descriptors, in s->pipe_fd.                              *)
MakePipe ==
  LET r == Lowest(table)
      t == [table EXCEPT ![r] = End("r", made + 1)]
      w == Lowest(t)
  IN  /\ rfd' = r /\ wfd' = w
      /\ table' = [t EXCEPT ![w] = End("w", made + 1)]
      /\ made' = made + 1

Close(t, f) == IF f = -1 THEN t ELSE [t EXCEPT ![f] = Free]

Open(p, kind) == \/ \E f \in Fds : table[f] = End(kind, p)
                 \/ \E f \in Fds : ctable[f] = End(kind, p)

-----------------------------------------------------------------------------
(* init, and the second half of warmup.                                     *)

(* A failure of the pipe or of the buffer leaves nothing open.              *)
InitPipe ==
  /\ pc = "init"
  /\ \/ MakePipe /\ pc' = "fork"
     \/ pc' = "done" /\ UNCHANGED << table, rfd, wfd, made >>
  /\ UNCHANGED << content, sent, perfVars, calls, ret, fresh, orphan, childVars >>

(* A fresh pipe for measure, whether or not the one of init was closed.     *)
FreshPipe ==
  /\ pc = "next"
  /\ \/ MakePipe /\ pc' = "call" /\ UNCHANGED ret
     \/ pc' = "cleanup" /\ ret' = -1 /\ UNCHANGED << table, rfd, wfd, made >>
  /\ UNCHANGED << content, sent, perfVars, calls, fresh, orphan, childVars >>

-----------------------------------------------------------------------------
(* The transfer, in warmup and in measure.                                  *)

Fork ==
  /\ pc = "fork"
  /\ cpc' = "shut" /\ ctable' = table /\ seen' = 0 /\ got' = 0
  /\ sent' = 0
  /\ fresh' = (table[wfd].kind = "w")
  /\ pc' = "close"
  /\ UNCHANGED << table, rfd, wfd, made, content, perfVars, calls, ret, orphan >>

(* warmup goes on without a reader; measure gives up.                       *)
ForkFails ==
  /\ pc = "fork"
  /\ IF calls = 0
     THEN pc' = "next" /\ orphan' = TRUE /\ UNCHANGED ret
     ELSE pc' = "stop" /\ ret' = -1 /\ UNCHANGED orphan
  /\ UNCHANGED << table, rfd, wfd, made, content, sent, perfVars, calls, fresh,
                  childVars >>

CloseReadEnd ==
  /\ pc = "close"
  /\ table' = Close(table, rfd)
  /\ pc' = "write"
  /\ UNCHANGED << rfd, wfd, made, content, sent, perfVars, calls, ret, fresh, orphan,
                  childVars >>

WriteTarget == Msgs

(* One write().  Whatever it returns the message is counted; without a      *)
(* reader SIGPIPE ends the process.                                         *)
Write ==
  /\ pc = "write" /\ sent < WriteTarget
  /\ LET p == table[wfd].pipe
     IN  IF table[wfd].kind # "w"
         THEN sent' = sent + 1 /\ UNCHANGED << pc, content >>
         ELSE IF Open(p, "r")
         THEN /\ content[p] < PipeMsgs
              /\ content' = [content EXCEPT ![p] = @ + 1]
              /\ sent' = sent + 1
              /\ UNCHANGED pc
         ELSE pc' = "killed" /\ UNCHANGED << content, sent >>
  /\ UNCHANGED << table, rfd, wfd, made, perfVars, calls, ret, fresh, orphan, childVars >>

WritesDone ==
  /\ pc = "write" /\ sent = WriteTarget
  /\ table' = Close(table, wfd)
  /\ pc' = "wait"
  /\ UNCHANGED << rfd, wfd, made, content, sent, perfVars, calls, ret, fresh, orphan,
                  childVars >>

WaitReader ==
  /\ pc = "wait"
  /\ cpc = "dead"
  /\ cpc' = "none"
  /\ pc' = IF calls = 0 THEN "next" ELSE "stop"
  /\ UNCHANGED << table, rfd, wfd, made, content, sent, perfVars, calls, ret, fresh,
                  orphan, ctable, seen, got >>

-----------------------------------------------------------------------------
(* The reader.                                                              *)

ChildCloses ==
  /\ cpc = "shut"
  /\ ctable' = Close(ctable, wfd)
  /\ cpc' = "read"
  /\ UNCHANGED << pc, table, rfd, wfd, made, content, sent, perfVars, calls, ret, fresh,
                  orphan, seen, got >>

ChildTarget == Msgs

(* One read().  A perf counter can be read as well as a pipe.  Any other    *)
(* descriptor, and a pipe without a writer, end the loop.                   *)
ChildReads ==
  /\ cpc = "read" /\ seen < ChildTarget
  /\ LET o == ctable[rfd]
     IN  CASE o.kind = "r" /\ content[o.pipe] > 0 ->
                /\ content' = [content EXCEPT ![o.pipe] = @ - 1]
                /\ seen' = seen + 1 /\ got' = got + 1 /\ UNCHANGED cpc
           [] o.kind = "r" /\ content[o.pipe] = 0 ->
                /\ ~Open(o.pipe, "w")
                /\ cpc' = "end" /\ UNCHANGED << content, seen, got >>
           [] o.kind = "perf" ->
                seen' = seen + 1 /\ UNCHANGED << content, got, cpc >>
           [] OTHER -> cpc' = "end" /\ UNCHANGED << content, seen, got >>
  /\ UNCHANGED << pc, table, rfd, wfd, made, sent, perfVars, calls, ret, fresh, orphan,
                  ctable >>

ChildExits ==
  /\ \/ cpc = "end"
     \/ cpc = "read" /\ seen = ChildTarget
  /\ cpc' = "dead"
  /\ ctable' = [f \in Fds |-> Free]
  /\ UNCHANGED << pc, table, rfd, wfd, made, content, sent, perfVars, calls, ret, fresh,
                  orphan, seen, got >>

-----------------------------------------------------------------------------
(* The harness around measure.                                              *)

(* The first two calls are not counted by perf.  Unless both counters open  *)
(* none stays open.                                                         *)
CallMeasure ==
  /\ pc = "call" /\ calls < Calls
  /\ calls' = calls + 1
  /\ \/ fdi' = -1 /\ fdc' = -1 /\ UNCHANGED table
     \/ /\ calls >= Discarded
        /\ LET i == Lowest(table)
               t == [table EXCEPT ![i] = Perf]
               c == Lowest(t)
           IN  fdi' = i /\ fdc' = c /\ table' = [t EXCEPT ![c] = Perf]
  /\ pc' = "fork"
  /\ UNCHANGED << rfd, wfd, made, content, sent, ret, fresh, orphan, childVars >>

(* _perf_counters_stop closes the two numbers.  The harness calls again, or *)
(* after a failure or a sample it has seen enough.                          *)
StopPerf ==
  /\ pc = "stop"
  /\ table' = Close(Close(table, fdi), fdc)
  /\ \/ ret = 0 /\ pc' = "call"
     \/ (ret # 0 \/ calls > Discarded) /\ pc' = "cleanup"
  /\ UNCHANGED << rfd, wfd, made, content, sent, perfVars, calls, ret, fresh, orphan,
                  childVars >>

Cleanup ==
  /\ pc = "cleanup"
  /\ table' = Close(Close(table, rfd), wfd)
  /\ pc' = "done"
  /\ UNCHANGED << rfd, wfd, made, content, sent, perfVars, calls, ret, fresh, orphan,
                  childVars >>

-----------------------------------------------------------------------------
SelfStep ==
  \/ InitPipe \/ Fork \/ ForkFails \/ CloseReadEnd \/ Write \/ WritesDone
  \/ WaitReader \/ FreshPipe \/ CallMeasure \/ StopPerf \/ Cleanup

ChildStep == ChildCloses \/ ChildReads \/ ChildExits

Over ==
  /\ \/ pc \in {"done", "killed"}
     \/ pc = "call" /\ calls = Calls
  /\ UNCHANGED vars

Next == SelfStep \/ ChildStep \/ Over

Spec == Init /\ [][Next]_vars

-----------------------------------------------------------------------------
(* A measure call that finds its pipe open and returns 0 has moved every    *)
(* message it counts, although no write is checked (ipc_pipe.c:67-70).      *)
FreshCallMoves ==
  pc = "stop" /\ ret = 0 /\ fresh => got = sent

(* No call ends in SIGPIPE or hangs: the reader takes as many messages as   *)
(* the writer has, or sees the end, with the fresh pipe and with closed or  *)
(* foreign descriptors.                                                     *)
CallsReturn == pc = "fork" ~> pc \in {"stop", "next", "cleanup"}

(* Whatever failed, cleanup leaves no descriptor open but the two that      *)
(* warmup forgets when it could not fork; numbers that are closed twice     *)
(* never hit anything that is still needed then.                            *)
EndsClean ==
  pc = "done" => \A f \in Fds : table[f] # Free => orphan /\ table[f].pipe = 1
=============================================================================
