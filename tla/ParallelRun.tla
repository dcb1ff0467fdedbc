----------------------------- MODULE ParallelRun -----------------------------
(***************************************************************************)
(* The fork/pipe runner harness_run_parallel of src/core/harness.c, from    *)
(* the first pipe() to the return.  The parent makes a pipe and a child for *)
(* each instance, then waits for the children in order, and only after a    *)
(* child has been waited for does it read the child's result.  Every system *)
(* call that the code checks may fail, and fork, which it does not check,   *)
(* may fail too.  A child may die at any point.                             *)
(*                                                                          *)
(* A child's run_benchmark_instance is one step here (module RunInstance    *)
(* has its inside, InstanceContract its promise): it leaves a result, good  *)
(* or failed, in the child's child_result_t.  Pinning and memory policy do  *)
(* not change what is modelled.                                             *)
(***************************************************************************)
EXTENDS Integers

CONSTANTS
  N,           (* num_instances                                             *)
  OkResults,   (* contents of a child_result_t with ret = 0                 *)
  Fail,        (* a child_result_t with ret # 0                             *)
  Zero,        (* a child_result_t fresh from calloc: its ret is 0 as well  *)
  None,        (* no result; an empty pipe                                  *)
  PipeBytes    (* capacity of a pipe                                        *)

Inst == 0..N-1
Parent == -1
Procs == Inst \cup {Parent}
Results == OkResults \cup {Fail}

ASSUME InstancesAssumption == N \in Nat \ {0}
ASSUME ResultsAssumption ==
  /\ Fail \notin OkResults
  /\ Zero \notin Results
  /\ None \notin Results \cup {Zero}
ASSUME PipeAssumption == PipeBytes \in Nat

VARIABLES
  ppc,        (* where the parent stands                                    *)
  i,          (* its loop variable                                          *)
  pids,       (* pids[k]: "unset", "child", or "none" for the -1 of a       *)
              (* failed fork                                                *)
  cpc,        (* where each child stands: "none" if there is no such child  *)
  result,     (* the child_result_t in each child's memory                  *)
  status,     (* how each child died: "none", "exited", "signaled"          *)
  buf,        (* content of each pipe                                       *)
  rend,       (* the processes that hold the read end of each pipe          *)
  wend,       (* the processes that hold the write end of each pipe         *)
  got,        (* the parent's results array                                 *)
  wstatus,    (* the parent's wstatus                                       *)
  anyFailed,  (* the parent's any_failed                                    *)
  verdict,    (* the return statement taken: "ok" returns 0, "failed",      *)
              (* "nopipe" and "noalloc" return -1                           *)
  stray       (* a signal went to processes that are not its children       *)

parentVars == << ppc, i, pids, got, wstatus, anyFailed, verdict, stray >>
childVars == << cpc, result, status >>
pipeVars == << buf, rend, wend >>
vars == << parentVars, childVars, pipeVars >>

ParentLabels == {"pipe", "fork", "shut", "alloc", "kill", "killwait", "wait",
                 "read", "aggregate", "ret"}
ChildLabels == {"none", "run", "write", "exit", "zombie", "reaped"}
Running == {"run", "write", "exit"}

TypeOK ==
  /\ ppc \in ParentLabels
  /\ i \in Inst
  /\ pids \in [Inst -> {"unset", "child", "none"}]
  /\ cpc \in [Inst -> ChildLabels]
  /\ result \in [Inst -> Results \cup {None}]
  /\ status \in [Inst -> {"none", "exited", "signaled"}]
  /\ buf \in [Inst -> Results \cup {None}]
  /\ rend \in [Inst -> SUBSET Procs]
  /\ wend \in [Inst -> SUBSET Procs]
  /\ got \in [Inst -> Results \cup {Zero}]
  /\ wstatus \in {"exited", "signaled"}
  /\ anyFailed \in BOOLEAN
  /\ verdict \in {"none", "ok", "failed", "nopipe", "noalloc"}
  /\ stray \in BOOLEAN

Init ==
  /\ ppc = "pipe"
  /\ i = 0
  /\ pids = [k \in Inst |-> "unset"]
  /\ cpc = [c \in Inst |-> "none"]
  /\ result = [c \in Inst |-> None]
  /\ status = [c \in Inst |-> "none"]
  /\ buf = [k \in Inst |-> None]
  /\ rend = [k \in Inst |-> {}]
  /\ wend = [k \in Inst |-> {}]
  /\ got = [k \in Inst |-> Zero]
  /\ wstatus \in {"exited", "signaled"}
  /\ anyFailed = FALSE
  /\ verdict = "none"
  /\ stray = FALSE

(* Process p closes its copies of an end of the pipes in K.                 *)
Closed(ends, p, K) == [k \in Inst |-> IF k \in K THEN ends[k] \ {p} ELSE ends[k]]

NextInstance_OffByOne(again, after) ==
  IF i + 1 <= N THEN ppc' = again /\ i' = i + 1
                ELSE ppc' = after /\ i' = 0

(* The parent goes on with the next instance, or, after the last, with the  *)
(* first instance of its next loop.                                         *)
NextInstance(again, after) ==
  IF i + 1 < N THEN ppc' = again /\ i' = i + 1
               ELSE ppc' = after /\ i' = 0

-----------------------------------------------------------------------------
(* The creation loop.                                                       *)

OpenPipe ==
  /\ ppc = "pipe"
  /\ ppc' = "fork"
  /\ rend' = [rend EXCEPT ![i] = {Parent}]
  /\ wend' = [wend EXCEPT ![i] = {Parent}]
  /\ UNCHANGED << i, pids, got, wstatus, anyFailed, verdict, stray, buf,
                  childVars >>

PipesMade_OffByOne == 0..i-2

(* The pipes of the iterations before this one.                             *)
PipesMade == 0..i-1

(* pipe() fails: the pipes made so far are closed and the call returns.     *)
(* The children forked so far are neither killed nor waited for.            *)
PipeFails ==
  /\ ppc = "pipe"
  /\ ppc' = "ret"
  /\ rend' = Closed(rend, Parent, PipesMade)
  /\ wend' = Closed(wend, Parent, PipesMade)
  /\ verdict' = "nopipe"
  /\ UNCHANGED << i, pids, got, wstatus, anyFailed, stray, buf, childVars >>

(* A child is born with a copy of every descriptor the parent has open.     *)
Inherited(ends, c) ==
  [k \in Inst |-> IF Parent \in ends[k] THEN ends[k] \cup {c} ELSE ends[k]]

ForkChild ==
  /\ ppc = "fork"
  /\ ppc' = "shut"
  /\ pids' = [pids EXCEPT ![i] = "child"]
  /\ cpc' = [cpc EXCEPT ![i] = "run"]
  /\ rend' = Inherited(rend, i)
  /\ wend' = Inherited(wend, i)
  /\ UNCHANGED << i, got, wstatus, anyFailed, verdict, stray, result, status,
                  buf >>

(* The result of fork() is not checked: -1 is stored as a pid.              *)
ForkFails ==
  /\ ppc = "fork"
  /\ ppc' = "shut"
  /\ pids' = [pids EXCEPT ![i] = "none"]
  /\ UNCHANGED << i, got, wstatus, anyFailed, verdict, stray, childVars,
                  pipeVars >>

CloseOneEnd_Forgotten == UNCHANGED << rend, wend >>

CloseOneEnd == wend' = Closed(wend, Parent, {i}) /\ UNCHANGED rend

CloseWriteEnd ==
  /\ ppc = "shut"
  /\ CloseOneEnd
  /\ NextInstance("pipe", "alloc")
  /\ UNCHANGED << pids, got, wstatus, anyFailed, verdict, stray, childVars,
                  buf >>

-----------------------------------------------------------------------------
(* calloc of the results array, and what happens without it.                *)

AllocResults ==
  /\ ppc = "alloc"
  /\ ppc' \in {"wait", "kill"}
  /\ UNCHANGED << i, pids, got, wstatus, anyFailed, verdict, stray, childVars,
                  pipeVars >>

(* The processes of S die with the given status and lose their descriptors. *)
Die(S, how) ==
  /\ cpc' = [c \in Inst |-> IF c \in S THEN "zombie" ELSE cpc[c]]
  /\ status' = [c \in Inst |-> IF c \in S THEN how ELSE status[c]]
  /\ rend' = [k \in Inst |-> rend[k] \ S]
  /\ wend' = [k \in Inst |-> wend[k] \ S]

(* kill(pids[i], SIGTERM) after the read end is closed.  With pids[i] = -1  *)
(* the signal goes to every process the user may signal.                    *)
Targets == IF pids[i] = "child" THEN {i} ELSE Inst

KillChild ==
  /\ ppc = "kill"
  /\ ppc' = "killwait"
  /\ LET S == {c \in Targets : cpc[c] \in Running}
     IN  /\ cpc' = [c \in Inst |-> IF c \in S THEN "zombie" ELSE cpc[c]]
         /\ status' = [c \in Inst |-> IF c \in S THEN "signaled" ELSE status[c]]
         /\ rend' = [k \in Inst |->
                       (IF k = i THEN rend[k] \ {Parent} ELSE rend[k]) \ S]
         /\ wend' = [k \in Inst |-> wend[k] \ S]
  /\ stray' = (stray \/ pids[i] # "child")
  /\ UNCHANGED << i, pids, got, wstatus, anyFailed, verdict, result, buf >>

(* waitpid(pids[i], ...): waits for that child, fails at once if it was     *)
(* already waited for, and with pids[i] = -1 takes any dead child.  A call  *)
(* that fails leaves the status as it was, uninitialized.                   *)
Reap(c, w) ==
  /\ cpc[c] = "zombie"
  /\ cpc' = [cpc EXCEPT ![c] = "reaped"]
  /\ w = status[c]

WaitPid_NoHang(w) ==
  Reap(i, w) \/ UNCHANGED cpc

WaitPid(w) ==
  \/ pids[i] = "child" /\ Reap(i, w)
  \/ pids[i] = "child" /\ cpc[i] = "reaped" /\ UNCHANGED cpc
  \/ pids[i] = "none" /\ \E c \in Inst : Reap(c, w)
  \/ /\ pids[i] = "none"
     /\ \A c \in Inst : cpc[c] \in {"none", "reaped"}
     /\ UNCHANGED cpc

WaitKilled ==
  /\ ppc = "killwait"
  /\ \E w \in {"exited", "signaled"} : WaitPid(w)
  /\ NextInstance("kill", "ret")
  /\ verdict' = IF i + 1 < N THEN verdict ELSE "noalloc"
  /\ UNCHANGED << pids, got, wstatus, anyFailed, stray, result, status,
                  pipeVars >>

-----------------------------------------------------------------------------
(* The collection loop: waitpid, then read.                                 *)

WaitChild ==
  /\ ppc = "wait"
  /\ ppc' = "read"
  /\ \E w \in {"exited", "signaled"} : WaitPid(w) /\ wstatus' = w
  /\ UNCHANGED << i, pids, got, anyFailed, verdict, stray, result, status,
                  pipeVars >>

ShortRead_Ignored == FALSE

(* n != sizeof(child_result_t)                                              *)
ShortRead == buf[i] = None

KilledChild_Ignored == FALSE

(* !WIFEXITED(wstatus)                                                      *)
KilledChild == wstatus = "signaled"

(* read() returns the message, or 0 once nobody holds the write end; until  *)
(* then it blocks.                                                          *)
ReadResult ==
  /\ ppc = "read"
  /\ buf[i] # None \/ wend[i] = {}
  /\ got' = IF buf[i] # None THEN [got EXCEPT ![i] = buf[i]] ELSE got
  /\ buf' = [buf EXCEPT ![i] = None]
  /\ rend' = Closed(rend, Parent, {i})
  /\ anyFailed' = (anyFailed \/ ShortRead \/ got'[i] = Fail \/ KilledChild)
  /\ NextInstance("wait", "aggregate")
  /\ UNCHANGED << pids, wstatus, verdict, stray, childVars, wend >>

(* Without a failure the results are pooled, in the order of the instances, *)
(* into the caller's statistics.                                            *)
Aggregate ==
  /\ ppc = "aggregate"
  /\ ppc' = "ret"
  /\ verdict' = IF anyFailed THEN "failed" ELSE "ok"
  /\ UNCHANGED << i, pids, got, wstatus, anyFailed, stray, childVars,
                  pipeVars >>

-----------------------------------------------------------------------------
(* The children.                                                            *)

(* The child closes its read end and runs the benchmark.                    *)
ChildRun(c) ==
  /\ cpc[c] = "run"
  /\ cpc' = [cpc EXCEPT ![c] = "write"]
  /\ \E r \in Results : result' = [result EXCEPT ![c] = r]
  /\ rend' = Closed(rend, c, {c})
  /\ UNCHANGED << parentVars, status, buf, wend >>

MaxIterations_TenThousand == 10000

(* sizeof(child_result_t): two ints and SSB_MAX_ITERATIONS doubles.         *)
MaxIterations == 31
ResultBytes == 8 + 8 * MaxIterations

(* write() blocks while the pipe cannot take the message whole.             *)
PipeTakes == ResultBytes <= PipeBytes

ChildWrite(c) ==
  /\ cpc[c] = "write"
  /\ rend[c] # {}
  /\ PipeTakes
  /\ cpc' = [cpc EXCEPT ![c] = "exit"]
  /\ buf' = [buf EXCEPT ![c] = result[c]]
  /\ wend' = Closed(wend, c, {c})
  /\ UNCHANGED << parentVars, result, status, rend >>

(* A write to a pipe nobody can read raises SIGPIPE.                        *)
ChildSigpipe(c) ==
  /\ cpc[c] = "write"
  /\ rend[c] = {}
  /\ Die({c}, "signaled")
  /\ UNCHANGED << parentVars, result, buf >>

ChildExit(c) ==
  /\ cpc[c] = "exit"
  /\ Die({c}, "exited")
  /\ UNCHANGED << parentVars, result, buf >>

(* A signal kills the child: a crash in the benchmark, the OOM killer.      *)
ChildCrash(c) ==
  /\ cpc[c] \in Running
  /\ Die({c}, "signaled")
  /\ UNCHANGED << parentVars, result, buf >>

-----------------------------------------------------------------------------
ParentStep ==
  \/ OpenPipe \/ PipeFails \/ ForkChild \/ ForkFails \/ CloseWriteEnd
  \/ AllocResults \/ KillChild \/ WaitKilled
  \/ WaitChild \/ ReadResult \/ Aggregate

ChildStep(c) == ChildRun(c) \/ ChildWrite(c) \/ ChildSigpipe(c) \/ ChildExit(c)

(* The call has returned and every child has ended.                         *)
Over ==
  /\ ppc = "ret"
  /\ \A c \in Inst : cpc[c] \notin Running
  /\ UNCHANGED vars

Next ==
  \/ ParentStep
  \/ \E c \in Inst : ChildStep(c)
  \/ \E c \in Inst : ChildCrash(c)
  \/ Over

(* The operating system schedules the parent and every child, and each      *)
(* benchmark instance terminates (RunInstance!Terminates).  No crash is     *)
(* ever required to happen.                                                 *)
Fairness == WF_vars(ParentStep) /\ \A c \in Inst : WF_vars(ChildStep(c))

Spec == Init /\ [][Next]_vars
FairSpec == Spec /\ Fairness

-----------------------------------------------------------------------------
(* A call that returns 0 has, for every instance, the very result that this *)
(* instance's child computed, a good one, from a child that exited normally *)
(* (harness.c:568-578): no zeroed slot, no result of a sibling.             *)
ResultsAttributed ==
  verdict = "ok" => \A c \in Inst :
    /\ got[c] = result[c]
    /\ result[c] \in OkResults
    /\ status[c] = "exited"

(* The collection never gives up good work: it reports a failure only if    *)
(* some fork failed, some child died of a signal or some benchmark failed.  *)
NoFalseAlarm ==
  verdict = "failed" => \E c \in Inst :
    pids[c] = "none" \/ status[c] = "signaled" \/ result[c] = Fail

(* When the call gets past its creation loop, no child outlives it as a     *)
(* process or as a zombie, even when a failed fork made waitpid take        *)
(* children out of order (harness.c:555-578).                               *)
ChildrenReaped ==
  verdict \in {"ok", "failed", "noalloc"} =>
    \A c \in Inst : cpc[c] \in {"none", "reaped"}

(* The parent never blocks in read(): by then the message is in the pipe or *)
(* the last writer is gone, for a failed fork and a crashed child too.      *)
ReadNeverBlocks == ppc = "read" => buf[i] # None \/ wend[i] = {}

(* A child that still has to report can always do so while the parent is    *)
(* creating or collecting: nobody closes its pipe under it (SIGPIPE).       *)
PipeKeptForChild ==
  \A c \in Inst :
    /\ cpc[c] \in {"run", "write"}
    /\ ppc \notin {"kill", "killwait", "ret"}
    => Parent \in rend[c]

(* Every return leaves the parent without a descriptor of any pipe.         *)
DescriptorsReleased ==
  ppc = "ret" => \A k \in Inst : Parent \notin rend[k] \cup wend[k]

(* The call returns: no wait of the parent for a child and of a child for   *)
(* the parent can close into a cycle, because a whole child_result_t fits   *)
(* into a pipe that nobody reads until its writer has exited.               *)
Terminates == <>(ppc = "ret")

(* Kill children on allocation failure (harness.c:557): its children, and   *)
(* no other process.                                                        *)
OnlyChildrenKilled == ~stray

(* The runner implements ForkJoin.  Its Lost is any value that is no result; *)
(* the content of a calloc'd slot serves.                                   *)
Lost == Zero

Outcome ==
  [c \in Inst |-> IF pids[c] = "none" \/ status[c] = "signaled"
                  THEN Lost ELSE result[c]]

Abstract == INSTANCE ForkJoin WITH
  outcome   <- Outcome,
  resources <- ~(ppc \in {"kill", "killwait"} \/ verdict = "noalloc"),
  verdict   <- IF verdict \in {"none", "ok"} THEN verdict ELSE "error",
  delivered <- IF verdict = "ok" THEN got ELSE [c \in Inst |-> None]

ImplementsForkJoin == Abstract!Spec
=============================================================================
