-------------------------- MODULE ParallelRun_proofs --------------------------
(***************************************************************************)
(* The safety invariants of ParallelRun, proved for any number of instances *)
(* and any set of results.  They are not inductive: whether a result is     *)
(* attributed to its instance, say, depends on which children the parent    *)
(* has waited for and on who still holds which end of which pipe.           *)
(***************************************************************************)
EXTENDS ParallelRun, TLAPS

(* The children the parent has called waitpid for in its current loop.      *)
Waited(k) ==
  \/ ppc \in {"wait", "kill", "killwait"} /\ k < i
  \/ ppc = "read" /\ k <= i
  \/ ppc = "aggregate"
  \/ verdict \in {"ok", "failed", "noalloc"}

(* The instances whose pipe the parent has read.                            *)
Collected(k) ==
  \/ ppc \in {"wait", "read"} /\ k < i
  \/ ppc = "aggregate"
  \/ verdict \in {"ok", "failed"}

(* The pipes whose read end the parent has.                                 *)
HasReadEnd(k) ==
  \/ ppc = "pipe" /\ k < i
  \/ ppc \in {"fork", "shut"} /\ k <= i
  \/ ppc = "alloc"
  \/ ppc \in {"wait", "read", "kill"} /\ k >= i
  \/ ppc = "killwait" /\ k > i

Unforked(k) ==
  \/ ppc \in {"pipe", "fork"} /\ k >= i
  \/ ppc = "shut" /\ k > i
  \/ verdict = "nopipe" /\ k >= i

Good(k) ==
  /\ pids[k] = "child"
  /\ status[k] = "exited"
  /\ got[k] = result[k]
  /\ result[k] \in OkResults

Bad(k) == pids[k] = "none" \/ status[k] = "signaled" \/ result[k] = Fail

PidsInv ==
  \A k \in Inst : /\ pids[k] = "unset" <=> Unforked(k)
                  /\ pids[k] = "child" <=> cpc[k] # "none"

ChildInv ==
  \A k \in Inst :
    /\ cpc[k] \in {"none", "run"} => result[k] = None
    /\ cpc[k] \in {"none", "run", "write"} => buf[k] = None
    /\ cpc[k] \in {"none", "run", "write", "exit"} <=> status[k] = "none"
    /\ cpc[k] \in {"write", "exit"} => result[k] \in Results
    /\ cpc[k] = "exit" => buf[k] = result[k]
    /\ status[k] = "exited" =>
         result[k] \in Results /\ (buf[k] = result[k] \/ Collected(k))
    /\ buf[k] # None => buf[k] = result[k]

ReapInv ==
  \A k \in Inst :
    /\ Waited(k) /\ pids[k] = "child" => cpc[k] = "reaped"
    /\ cpc[k] = "reaped" =>
         Waited(k) \/ \E j \in Inst : pids[j] = "none" /\ Waited(j)

CollectInv ==
  /\ \A k \in Inst : Collected(k) /\ ~anyFailed => Good(k)
  /\ anyFailed => \E k \in Inst : Bad(k)
  /\ ppc = "read" =>
       wstatus = status[i] \/ \E j \in 0..i : pids[j] = "none"

ReadEndInv == \A k \in Inst : Parent \in rend[k] <=> HasReadEnd(k)

WriteEndInv ==
  \A k \in Inst :
    /\ Parent \in wend[k] <=> (ppc \in {"fork", "shut"} /\ k = i)
    /\ wend[k] \subseteq {Parent, k}
    /\ k \in wend[k] => cpc[k] \in {"run", "write"}

LoopInv == ppc = "alloc" => i = 0

VerdictInv ==
  /\ verdict = "none" <=> ppc # "ret"
  /\ verdict = "ok" => ~anyFailed
  /\ verdict = "failed" => anyFailed

IInv == /\ TypeOK
        /\ PidsInv
        /\ ChildInv
        /\ ReapInv
        /\ CollectInv
        /\ ReadEndInv
        /\ WriteEndInv
        /\ LoopInv
        /\ VerdictInv

-----------------------------------------------------------------------------
(* Every step of the runner keeps every variable in its type: no loop index *)
(* leaves the arrays pids, pipes and results.                               *)
LEMMA TypeStep ==
  ASSUME TypeOK, [Next]_vars
  PROVE  TypeOK'
<1> USE InstancesAssumption, ResultsAssumption DEF TypeOK, Inst, Parent,
     Procs, Results, Running, ParentLabels, ChildLabels
<1>1. CASE OpenPipe
  BY <1>1 DEF OpenPipe, parentVars, childVars, pipeVars
<1>2. CASE PipeFails
  BY <1>2 DEF PipeFails, parentVars, childVars, pipeVars, Closed, PipesMade
<1>3. CASE ForkChild
  BY <1>3 DEF ForkChild, parentVars, childVars, pipeVars, Inherited
<1>4. CASE ForkFails
  BY <1>4 DEF ForkFails, parentVars, childVars, pipeVars
<1>5. CASE CloseWriteEnd
  BY <1>5 DEF CloseWriteEnd, parentVars, childVars, pipeVars, CloseOneEnd,
       Closed, NextInstance
<1>6. CASE AllocResults
  BY <1>6 DEF AllocResults, parentVars, childVars, pipeVars
<1>7. CASE KillChild
  BY <1>7 DEF KillChild, parentVars, childVars, pipeVars, Targets
<1>8. CASE WaitKilled
  BY <1>8 DEF WaitKilled, parentVars, childVars, pipeVars, WaitPid, Reap,
       NextInstance
<1>9. CASE WaitChild
  BY <1>9 DEF WaitChild, parentVars, childVars, pipeVars, WaitPid, Reap
<1>10. CASE ReadResult
  BY <1>10 DEF ReadResult, parentVars, childVars, pipeVars, Closed,
       NextInstance, ShortRead, KilledChild
<1>11. CASE Aggregate
  BY <1>11 DEF Aggregate, parentVars, childVars, pipeVars
<1>12. ASSUME NEW c \in Inst, ChildRun(c) PROVE TypeOK'
  BY <1>12 DEF ChildRun, parentVars, childVars, pipeVars, Closed
<1>13. ASSUME NEW c \in Inst, ChildWrite(c) PROVE TypeOK'
  BY <1>13 DEF ChildWrite, parentVars, childVars, pipeVars, Closed
<1>14. ASSUME NEW c \in Inst, ChildSigpipe(c) PROVE TypeOK'
  BY <1>14 DEF ChildSigpipe, parentVars, childVars, pipeVars, Die
<1>15. ASSUME NEW c \in Inst, ChildExit(c) PROVE TypeOK'
  BY <1>15 DEF ChildExit, parentVars, childVars, pipeVars, Die
<1>16. ASSUME NEW c \in Inst, ChildCrash(c) PROVE TypeOK'
  BY <1>16 DEF ChildCrash, parentVars, childVars, pipeVars, Die
<1>17. CASE UNCHANGED vars
  BY <1>17 DEF vars, parentVars, childVars, pipeVars
<1>18. QED
  BY <1>1, <1>2, <1>3, <1>4, <1>5, <1>6, <1>7, <1>8, <1>9, <1>10, <1>11,
       <1>12, <1>13, <1>14, <1>15, <1>16, <1>17 DEF Next, ParentStep,
       ChildStep, Over

(* pids records exactly the forks done so far, and a process exists for     *)
(* exactly the successful ones.                                             *)
LEMMA PidsStep ==
  ASSUME IInv, TypeOK', [Next]_vars
  PROVE  PidsInv'
<1> USE InstancesAssumption, ResultsAssumption DEF IInv, TypeOK, PidsInv,
     Unforked, VerdictInv, Inst, Parent, Procs, Results, Running
<1>1. CASE OpenPipe
  BY <1>1 DEF OpenPipe, parentVars, childVars, pipeVars
<1>2. CASE PipeFails
  BY <1>2 DEF PipeFails, parentVars, childVars, pipeVars, Closed, PipesMade
<1>3. CASE ForkChild
  BY <1>3 DEF ForkChild, parentVars, childVars, pipeVars, Inherited
<1>4. CASE ForkFails
  BY <1>4 DEF ForkFails, parentVars, childVars, pipeVars
<1>5. CASE CloseWriteEnd
  BY <1>5 DEF CloseWriteEnd, parentVars, childVars, pipeVars, CloseOneEnd,
       Closed, NextInstance
<1>6. CASE AllocResults
  BY <1>6 DEF AllocResults, parentVars, childVars, pipeVars
<1>7. CASE KillChild
  BY <1>7 DEF KillChild, parentVars, childVars, pipeVars, Targets
<1>8. CASE WaitKilled
  BY <1>8 DEF WaitKilled, parentVars, childVars, pipeVars, WaitPid, Reap,
       NextInstance
<1>9. CASE WaitChild
  BY <1>9 DEF WaitChild, parentVars, childVars, pipeVars, WaitPid, Reap
<1>10. CASE ReadResult
  BY <1>10 DEF ReadResult, parentVars, childVars, pipeVars, Closed,
       NextInstance, ShortRead, KilledChild
<1>11. CASE Aggregate
  BY <1>11 DEF Aggregate, parentVars, childVars, pipeVars
<1>12. ASSUME NEW c \in Inst, ChildRun(c) PROVE PidsInv'
  BY <1>12 DEF ChildRun, parentVars, childVars, pipeVars, Closed
<1>13. ASSUME NEW c \in Inst, ChildWrite(c) PROVE PidsInv'
  BY <1>13 DEF ChildWrite, parentVars, childVars, pipeVars, Closed
<1>14. ASSUME NEW c \in Inst, ChildSigpipe(c) PROVE PidsInv'
  BY <1>14 DEF ChildSigpipe, parentVars, childVars, pipeVars, Die
<1>15. ASSUME NEW c \in Inst, ChildExit(c) PROVE PidsInv'
  BY <1>15 DEF ChildExit, parentVars, childVars, pipeVars, Die
<1>16. ASSUME NEW c \in Inst, ChildCrash(c) PROVE PidsInv'
  BY <1>16 DEF ChildCrash, parentVars, childVars, pipeVars, Die
<1>17. CASE UNCHANGED vars
  BY <1>17 DEF vars, parentVars, childVars, pipeVars
<1>18. QED
  BY <1>1, <1>2, <1>3, <1>4, <1>5, <1>6, <1>7, <1>8, <1>9, <1>10, <1>11,
       <1>12, <1>13, <1>14, <1>15, <1>16, <1>17 DEF Next, ParentStep,
       ChildStep, Over

(* A child's result, its message and the way it died fit together.          *)
LEMMA ChildStepInv ==
  ASSUME IInv, TypeOK', [Next]_vars
  PROVE  ChildInv'
<1> USE InstancesAssumption, ResultsAssumption DEF IInv, TypeOK, PidsInv,
     Unforked, ChildInv, ReapInv, Waited, VerdictInv, Collected, Inst,
     Parent, Procs, Results, Running
<1>1. CASE OpenPipe
  BY <1>1 DEF OpenPipe, parentVars, childVars, pipeVars
<1>2. CASE PipeFails
  BY <1>2 DEF PipeFails, parentVars, childVars, pipeVars, Closed, PipesMade
<1>3. CASE ForkChild
  BY <1>3 DEF ForkChild, parentVars, childVars, pipeVars, Inherited
<1>4. CASE ForkFails
  BY <1>4 DEF ForkFails, parentVars, childVars, pipeVars
<1>5. CASE CloseWriteEnd
  BY <1>5 DEF CloseWriteEnd, parentVars, childVars, pipeVars, CloseOneEnd,
       Closed, NextInstance
<1>6. CASE AllocResults
  BY <1>6 DEF AllocResults, parentVars, childVars, pipeVars
<1>7. CASE KillChild
  BY <1>7 DEF KillChild, parentVars, childVars, pipeVars, Targets
<1>8. CASE WaitKilled
  BY <1>8 DEF WaitKilled, parentVars, childVars, pipeVars, WaitPid, Reap,
       NextInstance
<1>9. CASE WaitChild
  BY <1>9 DEF WaitChild, parentVars, childVars, pipeVars, WaitPid, Reap
<1>10. CASE ReadResult
  BY <1>10 DEF ReadResult, parentVars, childVars, pipeVars, Closed,
       NextInstance, ShortRead, KilledChild
<1>11. CASE Aggregate
  BY <1>11 DEF Aggregate, parentVars, childVars, pipeVars
<1>12. ASSUME NEW c \in Inst, ChildRun(c) PROVE ChildInv'
  BY <1>12 DEF ChildRun, parentVars, childVars, pipeVars, Closed
<1>13. ASSUME NEW c \in Inst, ChildWrite(c) PROVE ChildInv'
  BY <1>13 DEF ChildWrite, parentVars, childVars, pipeVars, Closed
<1>14. ASSUME NEW c \in Inst, ChildSigpipe(c) PROVE ChildInv'
  BY <1>14 DEF ChildSigpipe, parentVars, childVars, pipeVars, Die
<1>15. ASSUME NEW c \in Inst, ChildExit(c) PROVE ChildInv'
  BY <1>15 DEF ChildExit, parentVars, childVars, pipeVars, Die
<1>16. ASSUME NEW c \in Inst, ChildCrash(c) PROVE ChildInv'
  BY <1>16 DEF ChildCrash, parentVars, childVars, pipeVars, Die
<1>17. CASE UNCHANGED vars
  BY <1>17 DEF vars, parentVars, childVars, pipeVars
<1>18. QED
  BY <1>1, <1>2, <1>3, <1>4, <1>5, <1>6, <1>7, <1>8, <1>9, <1>10, <1>11,
       <1>12, <1>13, <1>14, <1>15, <1>16, <1>17 DEF Next, ParentStep,
       ChildStep, Over

(* Whoever the parent has waited for is reaped; nobody else is, unless a    *)
(* failed fork turned a waitpid into a wait for any child.                  *)
LEMMA ReapStep ==
  ASSUME IInv, TypeOK', [Next]_vars
  PROVE  ReapInv'
<1> USE InstancesAssumption, ResultsAssumption DEF IInv, TypeOK, PidsInv,
     Unforked, ReapInv, Waited, LoopInv, VerdictInv, Inst, Parent, Procs,
     Results, Running
<1>1. CASE OpenPipe
  BY <1>1 DEF OpenPipe, parentVars, childVars, pipeVars
<1>2. CASE PipeFails
  BY <1>2 DEF PipeFails, parentVars, childVars, pipeVars, Closed, PipesMade
<1>3. CASE ForkChild
  BY <1>3 DEF ForkChild, parentVars, childVars, pipeVars, Inherited
<1>4. CASE ForkFails
  BY <1>4 DEF ForkFails, parentVars, childVars, pipeVars
<1>5. CASE CloseWriteEnd
  BY <1>5 DEF CloseWriteEnd, parentVars, childVars, pipeVars, CloseOneEnd,
       Closed, NextInstance
<1>6. CASE AllocResults
  BY <1>6 DEF AllocResults, parentVars, childVars, pipeVars
<1>7. CASE KillChild
  BY <1>7 DEF KillChild, parentVars, childVars, pipeVars, Targets
<1>8. CASE WaitKilled
  BY <1>8 DEF WaitKilled, parentVars, childVars, pipeVars, WaitPid, Reap,
       NextInstance
<1>9. CASE WaitChild
  BY <1>9 DEF WaitChild, parentVars, childVars, pipeVars, WaitPid, Reap
<1>10. CASE ReadResult
  BY <1>10 DEF ReadResult, parentVars, childVars, pipeVars, Closed,
       NextInstance, ShortRead, KilledChild
<1>11. CASE Aggregate
  BY <1>11 DEF Aggregate, parentVars, childVars, pipeVars
<1>12. ASSUME NEW c \in Inst, ChildRun(c) PROVE ReapInv'
  BY <1>12 DEF ChildRun, parentVars, childVars, pipeVars, Closed
<1>13. ASSUME NEW c \in Inst, ChildWrite(c) PROVE ReapInv'
  BY <1>13 DEF ChildWrite, parentVars, childVars, pipeVars, Closed
<1>14. ASSUME NEW c \in Inst, ChildSigpipe(c) PROVE ReapInv'
  BY <1>14 DEF ChildSigpipe, parentVars, childVars, pipeVars, Die
<1>15. ASSUME NEW c \in Inst, ChildExit(c) PROVE ReapInv'
  BY <1>15 DEF ChildExit, parentVars, childVars, pipeVars, Die
<1>16. ASSUME NEW c \in Inst, ChildCrash(c) PROVE ReapInv'
  BY <1>16 DEF ChildCrash, parentVars, childVars, pipeVars, Die
<1>17. CASE UNCHANGED vars
  BY <1>17 DEF vars, parentVars, childVars, pipeVars
<1>18. QED
  BY <1>1, <1>2, <1>3, <1>4, <1>5, <1>6, <1>7, <1>8, <1>9, <1>10, <1>11,
       <1>12, <1>13, <1>14, <1>15, <1>16, <1>17 DEF Next, ParentStep,
       ChildStep, Over

(* While no failure is recorded, every collected instance delivered its own *)
(* good result; a recorded failure has a cause.                             *)
LEMMA CollectStep ==
  ASSUME IInv, TypeOK', [Next]_vars
  PROVE  CollectInv'
<1> USE InstancesAssumption, ResultsAssumption DEF IInv, TypeOK, PidsInv,
     Unforked, ChildInv, ReapInv, Waited, LoopInv, VerdictInv, CollectInv,
     Good, Bad, Collected, Inst, Parent, Procs, Results, Running
<1>1. CASE OpenPipe
  BY <1>1 DEF OpenPipe, parentVars, childVars, pipeVars
<1>2. CASE PipeFails
  BY <1>2 DEF PipeFails, parentVars, childVars, pipeVars, Closed, PipesMade
<1>3. CASE ForkChild
  BY <1>3 DEF ForkChild, parentVars, childVars, pipeVars, Inherited
<1>4. CASE ForkFails
  BY <1>4 DEF ForkFails, parentVars, childVars, pipeVars
<1>5. CASE CloseWriteEnd
  BY <1>5 DEF CloseWriteEnd, parentVars, childVars, pipeVars, CloseOneEnd,
       Closed, NextInstance
<1>6. CASE AllocResults
  BY <1>6 DEF AllocResults, parentVars, childVars, pipeVars
<1>7. CASE KillChild
  <2>1. \A k \in Inst : Bad(k) => Bad(k)'
    BY <1>7 DEF KillChild, Targets
  <2>2. /\ \A k \in Inst : ~Collected(k)'
        /\ ppc' # "read"
        /\ anyFailed' = anyFailed
    BY <1>7 DEF KillChild
  <2>3. QED
    BY <2>1, <2>2
<1>8. CASE WaitKilled
  BY <1>8 DEF WaitKilled, parentVars, childVars, pipeVars, WaitPid, Reap,
       NextInstance
<1>9. CASE WaitChild
  BY <1>9 DEF WaitChild, parentVars, childVars, pipeVars, WaitPid, Reap
<1>10. CASE ReadResult
  <2> USE <1>10 DEF ReadResult, childVars, ShortRead, KilledChild
  <2>1. i \in Inst /\ \A k \in Inst : Collected(k)' => Collected(k) \/ k = i
    BY DEF NextInstance
  <2>2. pids[i] # "unset" /\ ~Collected(i)
    BY <2>1
  <2>3. ~anyFailed => \A j \in 0..i : j # i => pids[j] = "child"
    BY <2>1
  <2>4. ASSUME NEW k \in Inst, k = i, ~anyFailed' PROVE Good(k)'
    <3>1. buf[k] # None /\ buf[k] = result[k] /\ pids[k] = "child"
      BY <2>1, <2>2, <2>4
    <3>2. got' = [got EXCEPT ![k] = buf[k]] /\ got'[k] # Fail
      BY <2>4, <3>1
    <3>3. got'[k] = result[k]
      BY <3>1, <3>2
    <3>4. result[k] \in OkResults
      BY <3>1, <3>2, <3>3
    <3>5. status[k] = "exited"
      BY <2>1, <2>3, <2>4, <3>1
    <3>6. QED
      BY <3>1, <3>3, <3>4, <3>5
  <2>5. ASSUME NEW k \in Inst, Collected(k)', ~anyFailed' PROVE Good(k)'
    <3>1. CASE k = i
      BY <2>4, <2>5, <3>1
    <3>2. CASE k # i
      <4>1. Good(k)
        BY <2>1, <2>5, <3>2
      <4>2. got'[k] = got[k]
        BY <2>1, <3>2
      <4>3. QED
        BY <4>1, <4>2
    <3>3. QED
      BY <3>1, <3>2
  <2>6. ASSUME anyFailed' PROVE \E k \in Inst : Bad(k)
    <3>1. CASE anyFailed
      BY <3>1
    <3>2. CASE buf[i] = None
      BY <2>1, <2>2, <3>2
    <3>3. CASE buf[i] # None /\ got'[i] = Fail
      BY <2>1, <3>3
    <3>4. CASE wstatus = "signaled"
      <4>1. status[i] = "signaled" \/ \E j \in 0..i : pids[j] = "none"
        BY <3>4
      <4>2. 0..i \subseteq Inst
        BY <2>1
      <4>3. QED
        BY <2>1, <4>1, <4>2
    <3>5. QED
      BY <2>6, <3>1, <3>2, <3>3, <3>4
  <2>7. (\E k \in Inst : Bad(k)) => \E k \in Inst : Bad(k)'
    OBVIOUS
  <2>8. ppc' # "read"
    BY DEF NextInstance
  <2>9. QED
    BY <2>5, <2>6, <2>7, <2>8
<1>11. CASE Aggregate
  BY <1>11 DEF Aggregate, parentVars, childVars, pipeVars
<1>12. ASSUME NEW c \in Inst, ChildRun(c) PROVE CollectInv'
  BY <1>12 DEF ChildRun, parentVars, childVars, pipeVars, Closed
<1>13. ASSUME NEW c \in Inst, ChildWrite(c) PROVE CollectInv'
  BY <1>13 DEF ChildWrite, parentVars, childVars, pipeVars, Closed
<1>14. ASSUME NEW c \in Inst, ChildSigpipe(c) PROVE CollectInv'
  BY <1>14 DEF ChildSigpipe, parentVars, childVars, pipeVars, Die
<1>15. ASSUME NEW c \in Inst, ChildExit(c) PROVE CollectInv'
  BY <1>15 DEF ChildExit, parentVars, childVars, pipeVars, Die
<1>16. ASSUME NEW c \in Inst, ChildCrash(c) PROVE CollectInv'
  BY <1>16 DEF ChildCrash, parentVars, childVars, pipeVars, Die
<1>17. CASE UNCHANGED vars
  BY <1>17 DEF vars, parentVars, childVars, pipeVars
<1>18. QED
  BY <1>1, <1>2, <1>3, <1>4, <1>5, <1>6, <1>7, <1>8, <1>9, <1>10, <1>11,
       <1>12, <1>13, <1>14, <1>15, <1>16, <1>17 DEF Next, ParentStep,
       ChildStep, Over

(* The parent has exactly the read ends that its program point says.        *)
LEMMA ReadEndStep ==
  ASSUME IInv, TypeOK', [Next]_vars
  PROVE  ReadEndInv'
<1> USE InstancesAssumption, ResultsAssumption DEF IInv, TypeOK, ReadEndInv,
     HasReadEnd, LoopInv, VerdictInv, Inst, Parent, Procs, Results, Running
<1>1. CASE OpenPipe
  BY <1>1 DEF OpenPipe, parentVars, childVars, pipeVars
<1>2. CASE PipeFails
  BY <1>2 DEF PipeFails, parentVars, childVars, pipeVars, Closed, PipesMade
<1>3. CASE ForkChild
  BY <1>3 DEF ForkChild, parentVars, childVars, pipeVars, Inherited
<1>4. CASE ForkFails
  BY <1>4 DEF ForkFails, parentVars, childVars, pipeVars
<1>5. CASE CloseWriteEnd
  BY <1>5 DEF CloseWriteEnd, parentVars, childVars, pipeVars, CloseOneEnd,
       Closed, NextInstance
<1>6. CASE AllocResults
  BY <1>6 DEF AllocResults, parentVars, childVars, pipeVars
<1>7. CASE KillChild
  BY <1>7 DEF KillChild, parentVars, childVars, pipeVars, Targets
<1>8. CASE WaitKilled
  BY <1>8 DEF WaitKilled, parentVars, childVars, pipeVars, WaitPid, Reap,
       NextInstance
<1>9. CASE WaitChild
  BY <1>9 DEF WaitChild, parentVars, childVars, pipeVars, WaitPid, Reap
<1>10. CASE ReadResult
  BY <1>10 DEF ReadResult, parentVars, childVars, pipeVars, Closed,
       NextInstance, ShortRead, KilledChild
<1>11. CASE Aggregate
  BY <1>11 DEF Aggregate, parentVars, childVars, pipeVars
<1>12. ASSUME NEW c \in Inst, ChildRun(c) PROVE ReadEndInv'
  BY <1>12 DEF ChildRun, parentVars, childVars, pipeVars, Closed
<1>13. ASSUME NEW c \in Inst, ChildWrite(c) PROVE ReadEndInv'
  BY <1>13 DEF ChildWrite, parentVars, childVars, pipeVars, Closed
<1>14. ASSUME NEW c \in Inst, ChildSigpipe(c) PROVE ReadEndInv'
  BY <1>14 DEF ChildSigpipe, parentVars, childVars, pipeVars, Die
<1>15. ASSUME NEW c \in Inst, ChildExit(c) PROVE ReadEndInv'
  BY <1>15 DEF ChildExit, parentVars, childVars, pipeVars, Die
<1>16. ASSUME NEW c \in Inst, ChildCrash(c) PROVE ReadEndInv'
  BY <1>16 DEF ChildCrash, parentVars, childVars, pipeVars, Die
<1>17. CASE UNCHANGED vars
  BY <1>17 DEF vars, parentVars, childVars, pipeVars
<1>18. QED
  BY <1>1, <1>2, <1>3, <1>4, <1>5, <1>6, <1>7, <1>8, <1>9, <1>10, <1>11,
       <1>12, <1>13, <1>14, <1>15, <1>16, <1>17 DEF Next, ParentStep,
       ChildStep, Over

(* Past its creation a pipe can only be written by its own child, and only  *)
(* until that child has reported or died.                                   *)
LEMMA WriteEndStep ==
  ASSUME IInv, TypeOK', [Next]_vars
  PROVE  WriteEndInv'
<1> USE InstancesAssumption, ResultsAssumption DEF IInv, TypeOK, PidsInv,
     Unforked, WriteEndInv, VerdictInv, Inst, Parent, Procs, Results, Running
<1>1. CASE OpenPipe
  BY <1>1 DEF OpenPipe, parentVars, childVars, pipeVars
<1>2. CASE PipeFails
  BY <1>2 DEF PipeFails, parentVars, childVars, pipeVars, Closed, PipesMade
<1>3. CASE ForkChild
  BY <1>3 DEF ForkChild, parentVars, childVars, pipeVars, Inherited
<1>4. CASE ForkFails
  BY <1>4 DEF ForkFails, parentVars, childVars, pipeVars
<1>5. CASE CloseWriteEnd
  BY <1>5 DEF CloseWriteEnd, parentVars, childVars, pipeVars, CloseOneEnd,
       Closed, NextInstance
<1>6. CASE AllocResults
  BY <1>6 DEF AllocResults, parentVars, childVars, pipeVars
<1>7. CASE KillChild
  BY <1>7 DEF KillChild, parentVars, childVars, pipeVars, Targets
<1>8. CASE WaitKilled
  BY <1>8 DEF WaitKilled, parentVars, childVars, pipeVars, WaitPid, Reap,
       NextInstance
<1>9. CASE WaitChild
  BY <1>9 DEF WaitChild, parentVars, childVars, pipeVars, WaitPid, Reap
<1>10. CASE ReadResult
  BY <1>10 DEF ReadResult, parentVars, childVars, pipeVars, Closed,
       NextInstance, ShortRead, KilledChild
<1>11. CASE Aggregate
  BY <1>11 DEF Aggregate, parentVars, childVars, pipeVars
<1>12. ASSUME NEW c \in Inst, ChildRun(c) PROVE WriteEndInv'
  BY <1>12 DEF ChildRun, parentVars, childVars, pipeVars, Closed
<1>13. ASSUME NEW c \in Inst, ChildWrite(c) PROVE WriteEndInv'
  BY <1>13 DEF ChildWrite, parentVars, childVars, pipeVars, Closed
<1>14. ASSUME NEW c \in Inst, ChildSigpipe(c) PROVE WriteEndInv'
  BY <1>14 DEF ChildSigpipe, parentVars, childVars, pipeVars, Die
<1>15. ASSUME NEW c \in Inst, ChildExit(c) PROVE WriteEndInv'
  BY <1>15 DEF ChildExit, parentVars, childVars, pipeVars, Die
<1>16. ASSUME NEW c \in Inst, ChildCrash(c) PROVE WriteEndInv'
  BY <1>16 DEF ChildCrash, parentVars, childVars, pipeVars, Die
<1>17. CASE UNCHANGED vars
  BY <1>17 DEF vars, parentVars, childVars, pipeVars
<1>18. QED
  BY <1>1, <1>2, <1>3, <1>4, <1>5, <1>6, <1>7, <1>8, <1>9, <1>10, <1>11,
       <1>12, <1>13, <1>14, <1>15, <1>16, <1>17 DEF Next, ParentStep,
       ChildStep, Over

(* The verdict agrees with any_failed, and the second loop starts at the    *)
(* first instance.                                                          *)
LEMMA VerdictStep ==
  ASSUME IInv, TypeOK', [Next]_vars
  PROVE  LoopInv' /\ VerdictInv'
<1> USE InstancesAssumption, ResultsAssumption DEF IInv, TypeOK, LoopInv,
     VerdictInv, Inst, Parent, Procs, Results, Running
<1>1. CASE OpenPipe
  BY <1>1 DEF OpenPipe, parentVars, childVars, pipeVars
<1>2. CASE PipeFails
  BY <1>2 DEF PipeFails, parentVars, childVars, pipeVars, Closed, PipesMade
<1>3. CASE ForkChild
  BY <1>3 DEF ForkChild, parentVars, childVars, pipeVars, Inherited
<1>4. CASE ForkFails
  BY <1>4 DEF ForkFails, parentVars, childVars, pipeVars
<1>5. CASE CloseWriteEnd
  BY <1>5 DEF CloseWriteEnd, parentVars, childVars, pipeVars, CloseOneEnd,
       Closed, NextInstance
<1>6. CASE AllocResults
  BY <1>6 DEF AllocResults, parentVars, childVars, pipeVars
<1>7. CASE KillChild
  BY <1>7 DEF KillChild, parentVars, childVars, pipeVars, Targets
<1>8. CASE WaitKilled
  BY <1>8 DEF WaitKilled, parentVars, childVars, pipeVars, WaitPid, Reap,
       NextInstance
<1>9. CASE WaitChild
  BY <1>9 DEF WaitChild, parentVars, childVars, pipeVars, WaitPid, Reap
<1>10. CASE ReadResult
  BY <1>10 DEF ReadResult, parentVars, childVars, pipeVars, Closed,
       NextInstance, ShortRead, KilledChild
<1>11. CASE Aggregate
  BY <1>11 DEF Aggregate, parentVars, childVars, pipeVars
<1>12. ASSUME NEW c \in Inst, ChildRun(c) PROVE LoopInv' /\ VerdictInv'
  BY <1>12 DEF ChildRun, parentVars, childVars, pipeVars, Closed
<1>13. ASSUME NEW c \in Inst, ChildWrite(c) PROVE LoopInv' /\ VerdictInv'
  BY <1>13 DEF ChildWrite, parentVars, childVars, pipeVars, Closed
<1>14. ASSUME NEW c \in Inst, ChildSigpipe(c) PROVE LoopInv' /\ VerdictInv'
  BY <1>14 DEF ChildSigpipe, parentVars, childVars, pipeVars, Die
<1>15. ASSUME NEW c \in Inst, ChildExit(c) PROVE LoopInv' /\ VerdictInv'
  BY <1>15 DEF ChildExit, parentVars, childVars, pipeVars, Die
<1>16. ASSUME NEW c \in Inst, ChildCrash(c) PROVE LoopInv' /\ VerdictInv'
  BY <1>16 DEF ChildCrash, parentVars, childVars, pipeVars, Die
<1>17. CASE UNCHANGED vars
  BY <1>17 DEF vars, parentVars, childVars, pipeVars
<1>18. QED
  BY <1>1, <1>2, <1>3, <1>4, <1>5, <1>6, <1>7, <1>8, <1>9, <1>10, <1>11,
       <1>12, <1>13, <1>14, <1>15, <1>16, <1>17 DEF Next, ParentStep,
       ChildStep, Over

(* The initial states satisfy the inductive invariant.                      *)
LEMMA InitInv == Init => IInv
<1> SUFFICES ASSUME Init PROVE IInv
  OBVIOUS
<1> USE InstancesAssumption, ResultsAssumption DEF Init, Inst, Parent
<1>1. TypeOK
  <2>1. rend \in [Inst -> SUBSET Procs] /\ wend \in [Inst -> SUBSET Procs]
    OBVIOUS
  <2>2. i \in Inst /\ ppc \in ParentLabels /\ cpc \in [Inst -> ChildLabels]
    BY DEF ParentLabels, ChildLabels
  <2>3. /\ result \in [Inst -> Results \cup {None}]
        /\ buf \in [Inst -> Results \cup {None}]
        /\ got \in [Inst -> Results \cup {Zero}]
    OBVIOUS
  <2>4. QED
    BY <2>1, <2>2, <2>3 DEF TypeOK
<1>2. PidsInv /\ ChildInv /\ ReapInv
  BY DEF PidsInv, Unforked, ChildInv, Collected, ReapInv, Waited
<1>3. CollectInv
  BY DEF CollectInv, Collected
<1>4. ReadEndInv /\ WriteEndInv /\ LoopInv /\ VerdictInv
  BY DEF ReadEndInv, HasReadEnd, WriteEndInv, LoopInv, VerdictInv
<1>5. QED
  BY <1>1, <1>2, <1>3, <1>4 DEF IInv

(* Every step preserves it.                                                 *)
LEMMA NextInv == IInv /\ [Next]_vars => IInv'
<1> SUFFICES ASSUME IInv, [Next]_vars PROVE IInv'
  OBVIOUS
<1>1. TypeOK'
  BY TypeStep DEF IInv
<1>2. PidsInv' /\ ChildInv' /\ ReapInv'
  BY <1>1, PidsStep, ChildStepInv, ReapStep
<1>3. CollectInv' /\ ReadEndInv' /\ WriteEndInv' /\ LoopInv' /\ VerdictInv'
  BY <1>1, CollectStep, ReadEndStep, WriteEndStep, VerdictStep
<1>4. QED
  BY <1>1, <1>2, <1>3 DEF IInv

(* The inductive invariant holds in every reachable state.                  *)
THEOREM Inductive == Spec => []IInv
BY InitInv, NextInv, PTL DEF Spec

(* Type correctness, for every number of instances (harness.c:392-619).     *)
THEOREM TypeCorrect == Spec => []TypeOK
<1>1. IInv => TypeOK
  BY DEF IInv
<1>2. QED
  BY <1>1, Inductive, PTL

(* A call that returns 0 hands over, for every instance, the good result    *)
(* that this instance's own child computed (harness.c:568-578).             *)
THEOREM Attribution == Spec => []ResultsAttributed
<1>1. IInv => ResultsAttributed
  BY DEF IInv, CollectInv, VerdictInv, Collected, Good, ResultsAttributed
<1>2. QED
  BY <1>1, Inductive, PTL

(* A reported failure has a cause in some instance (harness.c:576).         *)
THEOREM Soundness == Spec => []NoFalseAlarm
<1>1. IInv => NoFalseAlarm
  BY DEF IInv, CollectInv, VerdictInv, Bad, NoFalseAlarm
<1>2. QED
  BY <1>1, Inductive, PTL

(* Past the creation loop no child outlives the call, whichever forks       *)
(* failed (harness.c:555-578).                                              *)
THEOREM Reaping == Spec => []ChildrenReaped
<1>1. IInv => ChildrenReaped
  BY DEF IInv, TypeOK, PidsInv, Unforked, ReapInv, VerdictInv, Waited,
         ChildrenReaped, ChildLabels
<1>2. QED
  BY <1>1, Inductive, PTL

(* The parent's read never blocks: waitpid comes first, and the last writer *)
(* of the pipe is gone with the child (harness.c:550, 570, 573).            *)
THEOREM NonBlockingRead == Spec => []ReadNeverBlocks
<1>1. IInv => ReadNeverBlocks
  <2> SUFFICES ASSUME IInv, ppc = "read" PROVE buf[i] # None \/ wend[i] = {}
    BY DEF ReadNeverBlocks
  <2>1. i \in Inst /\ i \in Int
    BY InstancesAssumption DEF IInv, TypeOK, Inst
  <2>2. cpc[i] \notin {"run", "write"}
    BY <2>1 DEF IInv, PidsInv, ReapInv, Waited
  <2>3. wend[i] = {}
    BY <2>1, <2>2 DEF IInv, WriteEndInv
  <2>4. QED
    BY <2>3
<1>2. QED
  BY <1>1, Inductive, PTL

(* No child finds its pipe closed while the parent creates or collects.     *)
THEOREM NoSigpipe == Spec => []PipeKeptForChild
<1>1. IInv => PipeKeptForChild
  BY InstancesAssumption
     DEF IInv, TypeOK, PidsInv, Unforked, ReapInv, Waited, ReadEndInv,
         HasReadEnd, VerdictInv, ParentLabels, PipeKeptForChild, Inst
<1>2. QED
  BY <1>1, Inductive, PTL

(* Every return statement leaves the parent without a pipe descriptor.      *)
THEOREM NoDescriptorLeak == Spec => []DescriptorsReleased
<1>1. IInv => DescriptorsReleased
  BY DEF IInv, ReadEndInv, HasReadEnd, WriteEndInv, DescriptorsReleased
<1>2. QED
  BY <1>1, Inductive, PTL

-----------------------------------------------------------------------------
(* The initial states of the runner are initial states of ForkJoin.         *)
LEMMA RefineInit == Init => Abstract!Init
<1> SUFFICES ASSUME Init PROVE Abstract!Init
  OBVIOUS
<1>1. Outcome = [c \in Inst |-> None]
  BY DEF Init, Outcome
<1>2. QED
  BY <1>1 DEF Init, Abstract!Init, Abstract!Inst, Inst

(* Every step of the runner is a step of ForkJoin under the mapping of      *)
(* ParallelRun, or leaves the mapped variables alone.                       *)
LEMMA RefineStep ==
  ASSUME IInv, [Next]_vars
  PROVE  [Abstract!Next]_(Abstract!vars)
<1> USE InstancesAssumption, ResultsAssumption
    DEF IInv, TypeOK, VerdictInv, Inst, Abstract!Inst, parentVars, childVars,
        pipeVars
<1>1. ASSUME OpenPipe \/ ForkChild \/ CloseWriteEnd \/ WaitChild
             \/ ReadResult \/ UNCHANGED vars
      PROVE  UNCHANGED Abstract!vars
  <2>1. Outcome' = Outcome
    BY <1>1 DEF Outcome, OpenPipe, ForkChild, CloseWriteEnd, WaitChild,
       ReadResult, vars, PidsInv, Unforked
  <2>2. QED
    BY <1>1, <2>1 DEF Abstract!vars, OpenPipe, ForkChild, CloseWriteEnd,
       WaitChild, ReadResult, NextInstance, vars
<1>2. ASSUME PipeFails PROVE Abstract!GiveUp
  <2>1. Outcome' = Outcome
    BY <1>2 DEF Outcome, PipeFails
  <2>2. Outcome[i] = None
    BY <1>2 DEF Outcome, PipeFails, PidsInv, Unforked, ChildInv
  <2>3. QED
    BY <1>2, <2>1, <2>2 DEF Abstract!GiveUp, PipeFails, Results
<1>3. ASSUME ForkFails PROVE Abstract!Lose({i})
  <2>1. Outcome' = [c \in Inst |-> IF c \in {i} THEN Lost ELSE Outcome[c]]
    BY <1>3 DEF Outcome, ForkFails
  <2>2. QED
    BY <1>3, <2>1 DEF Abstract!Lose, ForkFails
<1>4. ASSUME AllocResults PROVE Abstract!RunOut \/ UNCHANGED Abstract!vars
  <2>1. Outcome' = Outcome
    BY <1>4 DEF Outcome, AllocResults
  <2>2. QED
    BY <1>4, <2>1 DEF Abstract!RunOut, Abstract!vars, AllocResults
<1>5. ASSUME KillChild PROVE \E S \in SUBSET Inst : Abstract!Lose(S)
  <2> DEFINE S == {c \in Targets : cpc[c] \in Running}
  <2>1. S \in SUBSET Inst
    BY DEF Targets
  <2>2. Outcome' = [c \in Inst |-> IF c \in S THEN Lost ELSE Outcome[c]]
    BY <1>5, <2>1 DEF Outcome, KillChild
  <2>3. Abstract!Lose(S)
    BY <1>5, <2>2 DEF Abstract!Lose, KillChild
  <2>4. QED
    BY <2>1, <2>3
<1>6. ASSUME WaitKilled PROVE Abstract!GiveUp \/ UNCHANGED Abstract!vars
  <2>1. Outcome' = Outcome
    BY <1>6 DEF Outcome, WaitKilled
  <2>2. QED
    BY <1>6, <2>1 DEF Abstract!GiveUp, Abstract!vars, WaitKilled, NextInstance
<1>7. ASSUME Aggregate PROVE Abstract!GiveUp \/ Abstract!Succeed
  <2>1. Outcome' = Outcome
    BY <1>7 DEF Outcome, Aggregate
  <2>2. CASE anyFailed
    <3>1. PICK k \in Inst : Bad(k)
      BY <2>2 DEF CollectInv
    <3>2. Outcome[k] \notin OkResults
      BY <3>1 DEF Bad, Outcome, Lost, Results
    <3>3. QED
      BY <1>7, <2>1, <2>2, <3>2 DEF Abstract!GiveUp, Aggregate
  <2>3. CASE ~anyFailed
    <3>1. \A k \in Inst : Good(k)
      BY <1>7, <2>3 DEF CollectInv, Collected, Aggregate
    <3>2. Outcome = got /\ \A k \in Inst : Outcome[k] \in OkResults
      BY <3>1 DEF Good, Outcome
    <3>3. QED
      BY <1>7, <2>1, <2>3, <3>2 DEF Abstract!Succeed, Aggregate
  <2>4. QED
    BY <2>2, <2>3
<1>8. ASSUME NEW c \in Inst, ChildRun(c) PROVE Abstract!Produce(c)
  <2>1. Outcome[c] = None
    BY <1>8 DEF Outcome, ChildRun, ChildInv, PidsInv
  <2>2. PICK r \in Results : result' = [result EXCEPT ![c] = r]
    BY <1>8 DEF ChildRun
  <2>3. pids[c] # "none" /\ status[c] # "signaled"
    BY <1>8 DEF ChildRun, ChildInv, PidsInv
  <2>4. Outcome' = [Outcome EXCEPT ![c] = r]
    BY <1>8, <2>2, <2>3 DEF Outcome, ChildRun
  <2>5. QED
    BY <1>8, <2>1, <2>4 DEF Abstract!Produce, ChildRun, Results
<1>9. ASSUME NEW c \in Inst, ChildWrite(c) \/ ChildExit(c)
      PROVE  UNCHANGED Abstract!vars
  <2>1. \A k \in Inst : status'[k] = "signaled" <=> status[k] = "signaled"
    BY <1>9 DEF ChildWrite, ChildExit, Die, ChildInv
  <2>2. Outcome' = Outcome
    BY <1>9, <2>1 DEF Outcome, ChildWrite, ChildExit
  <2>3. QED
    BY <1>9, <2>2 DEF Abstract!vars, ChildWrite, ChildExit
<1>10. ASSUME NEW c \in Inst, ChildSigpipe(c) \/ ChildCrash(c)
       PROVE  Abstract!Lose({c})
  <2>1. Outcome' = [k \in Inst |-> IF k \in {c} THEN Lost ELSE Outcome[k]]
    BY <1>10 DEF Outcome, ChildSigpipe, ChildCrash, Die
  <2>2. QED
    BY <1>10, <2>1 DEF Abstract!Lose, ChildSigpipe, ChildCrash
<1>11. QED
  BY <1>1, <1>2, <1>3, <1>4, <1>5, <1>6, <1>7, <1>8, <1>9, <1>10
     DEF Next, ParentStep, ChildStep, Over, Abstract!Next

(* harness_run_parallel keeps the promise that ForkJoin states: see there.  *)
THEOREM Refinement == Spec => ImplementsForkJoin
<1>1. IInv /\ [Next]_vars => [Abstract!Next]_(Abstract!vars)
  BY RefineStep
<1>2. QED
  BY <1>1, RefineInit, Inductive, PTL DEF Spec, ImplementsForkJoin, Abstract!Spec
=============================================================================
