------------------------- MODULE SyncSemaphore_proofs -------------------------
(***************************************************************************)
(* The safety invariants of SyncSemaphore for any number of waiters, posts  *)
(* and calls.  The invariant follows main's loop variable: how often it has *)
(* posted in the running call bounds the semaphore, and how many release    *)
(* posts are still to come decides whether a waiter can be stranded.        *)
(***************************************************************************)
EXTENDS SyncSemaphore, FiniteSetTheorems, TLAPS

(* Posts of one call.                                                       *)
PerCall == Ops + Cardinality(Waiters)

(* Posts of the calls that are over, and of the one that is running.        *)
Earlier == IF mpc = "idle" THEN calls * PerCall ELSE (calls - 1) * PerCall

Posted ==
  CASE mpc = "post" -> k
    [] mpc = "count" -> k + 1
    [] mpc = "done" -> Ops
    [] mpc = "release" -> Ops + k
    [] mpc = "join" -> PerCall
    [] OTHER -> 0

LoopInv ==
  /\ mpc = "ready" => k = 0 /\ wakeups = 0
  /\ mpc \in {"post", "count"} => k < Ops /\ wakeups = k
  /\ mpc = "done" => k = 0
  /\ mpc = "release" => k < Cardinality(Waiters)
  /\ mpc # "idle" => calls >= 1

DoneInv == mpc \in {"release", "join"} => done

PostsInv == sem <= Earlier + Posted

IInv ==
  /\ TypeOK
  /\ LoopInv
  /\ DoneInv
  /\ PostsInv
  /\ NoWaiterStranded

-----------------------------------------------------------------------------
(* There is a natural number of waiters, at least one.                      *)
LEMMA WaitersCounted == Cardinality(Waiters) \in Nat /\ Cardinality(Waiters) > 0
  BY WaitersAssumption, FS_CardinalityType, FS_EmptySet

LEMMA CommittedCounted ==
  /\ IsFiniteSet(Committed)
  /\ Cardinality(Committed) \in Nat /\ Cardinality(Committed) <= Cardinality(Waiters)
<1>1. Committed \subseteq Waiters
  BY DEF Committed
<1> QED
  BY <1>1, WaitersAssumption, FS_Subset, FS_CardinalityType

LEMMA Initially == Init => IInv
<1> SUFFICES ASSUME Init PROVE IInv
  OBVIOUS
<1> USE WaitersAssumption, OpsAssumption, CallsAssumption, WaitersCounted
<1>1. TypeOK
  <2>1. wpc \in [Waiters -> {"none", "spin", "check", "wait", "exit"}]
    BY DEF Init
  <2>2. sem \in Nat /\ ready \in BOOLEAN /\ done \in BOOLEAN /\ mpc = "idle"
    BY DEF Init
  <2>3. wakeups \in 0..Ops
    BY DEF Init
  <2>4. k \in 0..Ops + Cardinality(Waiters)
    BY DEF Init
  <2>5. calls \in 0..MaxCalls
    BY DEF Init
  <2> QED
    BY <2>1, <2>2, <2>3, <2>4, <2>5 DEF TypeOK
<1>2. LoopInv /\ DoneInv
  BY DEF Init, LoopInv, DoneInv
<1>3. PostsInv
  BY DEF Init, PostsInv, Earlier, Posted, PerCall
<1>4. NoWaiterStranded
  BY DEF Init, NoWaiterStranded
<1> QED
  BY <1>1, <1>2, <1>3, <1>4 DEF IInv

-----------------------------------------------------------------------------
(* Types, main's loop variable and done: no step leaves them.               *)
LEMMA TypeStep ==
  ASSUME TypeOK, LoopInv, DoneInv, [Next]_vars
  PROVE  TypeOK' /\ LoopInv' /\ DoneInv'
<1> USE OpsAssumption, CallsAssumption, WaitersCounted
     DEF TypeOK, LoopInv, DoneInv
<1>1. CASE Call
  <2>1. wpc' \in [Waiters -> {"none", "spin", "check", "wait", "exit"}]
    BY <1>1 DEF Call
  <2>2. sem' \in Nat /\ ready' \in BOOLEAN /\ done' \in BOOLEAN /\ mpc' = "ready"
    BY <1>1 DEF Call
  <2>3. wakeups' \in 0..Ops /\ calls' \in 0..MaxCalls
    BY <1>1 DEF Call
  <2>4. k' \in 0..Ops + Cardinality(Waiters)
    BY <1>1 DEF Call
  <2>5. TypeOK'
    BY <2>1, <2>2, <2>3, <2>4
  <2>6. LoopInv' /\ DoneInv'
    BY <1>1 DEF Call
  <2> QED
    BY <2>5, <2>6
<1>2. CASE SetReady
  BY <1>2 DEF SetReady
<1>3. CASE Post
  BY <1>3 DEF Post
<1>4. CASE Count
  BY <1>4 DEF Count
<1>5. CASE SetDone
  BY <1>5 DEF SetDone
<1>6. CASE Release
  BY <1>6 DEF Release
<1>7. CASE Join
  BY <1>7 DEF Join
<1>8. ASSUME NEW w \in Waiters, SpinReady(w) PROVE TypeOK' /\ LoopInv' /\ DoneInv'
  BY <1>8 DEF SpinReady
<1>9. ASSUME NEW w \in Waiters, CheckDone(w) PROVE TypeOK' /\ LoopInv' /\ DoneInv'
  BY <1>9 DEF CheckDone
<1>10. ASSUME NEW w \in Waiters, SemWait(w) PROVE TypeOK' /\ LoopInv' /\ DoneInv'
  BY <1>10 DEF SemWait
<1>11. CASE UNCHANGED vars
  BY <1>11 DEF vars
<1> QED
  BY <1>1, <1>2, <1>3, <1>4, <1>5, <1>6, <1>7, <1>8, <1>9, <1>10, <1>11
     DEF Next, MainStep, WaiterStep, Over

(* The semaphore holds no more than main has posted so far.                 *)
LEMMA PostsStep ==
  ASSUME TypeOK, LoopInv, PostsInv, [Next]_vars
  PROVE  PostsInv'
<1> USE OpsAssumption, WaitersCounted
<1>t. /\ sem \in Nat /\ k \in Int /\ calls \in Nat /\ PerCall \in Nat
      /\ mpc \in {"idle", "ready", "post", "count", "done", "release", "join"}
  BY DEF TypeOK, PerCall
<1>1. CASE Call
  BY <1>1, <1>t DEF Call, PostsInv, Earlier, Posted
<1>2. CASE SetReady
  BY <1>2, <1>t DEF SetReady, LoopInv, PostsInv, Earlier, Posted
<1>3. CASE Post
  BY <1>3, <1>t DEF Post, PostsInv, Earlier, Posted
<1>4. CASE Count
  BY <1>4, <1>t DEF Count, LoopInv, PostsInv, Earlier, Posted
<1>5. CASE SetDone
  BY <1>5, <1>t DEF SetDone, LoopInv, PostsInv, Earlier, Posted
<1>6. CASE Release
  BY <1>6, <1>t DEF Release, LoopInv, PostsInv, Earlier, Posted, PerCall
<1>7. CASE Join
  BY <1>7, <1>t DEF Join, PostsInv, Earlier, Posted
<1>8. ASSUME NEW w \in Waiters, WaiterStep(w) PROVE PostsInv'
  BY <1>8, <1>t DEF WaiterStep, SpinReady, CheckDone, SemWait, PostsInv,
       Earlier, Posted
<1>9. CASE UNCHANGED vars
  BY <1>9 DEF vars, PostsInv, Earlier, Posted
<1> QED
  BY <1>1, <1>2, <1>3, <1>4, <1>5, <1>6, <1>7, <1>8, <1>9 DEF Next, MainStep, Over

-----------------------------------------------------------------------------
(* A waiter that takes from the semaphore is committed no longer, so supply *)
(* and demand shrink together; once done is set nobody commits any more.    *)
LEMMA StrandedStep ==
  ASSUME TypeOK, LoopInv, DoneInv, NoWaiterStranded, [Next]_vars
  PROVE  NoWaiterStranded'
<1> DEFINE Supply == sem + ToCome
<1>t. sem \in Nat /\ k \in Int /\ Cardinality(Waiters) \in Nat /\ wpc \in [Waiters -> {"none", "spin", "check", "wait", "exit"}]
  BY WaitersCounted DEF TypeOK
<1>1. CASE Call \/ SetReady \/ Post \/ Count \/ Join
  BY <1>1 DEF NoWaiterStranded, Call, SetReady, Post, Count, Join
<1>2. CASE SetDone
  <2>1. mpc' = "release" /\ k' = 0 /\ sem' = sem /\ Committed' = Committed
    BY <1>2 DEF SetDone, LoopInv, Committed
  <2> QED
    BY <2>1, <1>t, CommittedCounted DEF NoWaiterStranded, ToCome
<1>3. CASE Release
  <2>1. Committed' = Committed /\ sem' = sem + 1 /\ k' = k + 1
    BY <1>3 DEF Release, Committed
  <2>2. Supply' = Supply
    BY <1>3, <1>t, <2>1 DEF Release, LoopInv, ToCome
  <2> QED
    BY <1>3, <2>1, <2>2 DEF NoWaiterStranded, Release
<1>4. ASSUME NEW w \in Waiters, SpinReady(w) PROVE NoWaiterStranded'
  <2>1. Committed' = Committed
    BY <1>4, <1>t DEF SpinReady, Committed
  <2> QED
    BY <1>4, <2>1 DEF SpinReady, NoWaiterStranded, ToCome
<1>5. ASSUME NEW w \in Waiters, CheckDone(w) PROVE NoWaiterStranded'
  <2>1. mpc \in {"release", "join"} => Committed' = Committed
    BY <1>5, <1>t DEF CheckDone, Committed, DoneInv
  <2> QED
    BY <1>5, <2>1 DEF CheckDone, NoWaiterStranded, ToCome
<1>6. ASSUME NEW w \in Waiters, SemWait(w) PROVE NoWaiterStranded'
  <2>1. w \in Committed /\ Committed' = Committed \ {w}
    BY <1>6, <1>t DEF SemWait, Committed
  <2>2. Cardinality(Committed') = Cardinality(Committed) - 1
    BY <2>1, CommittedCounted, FS_RemoveElement
  <2>3. sem' = sem - 1 /\ ToCome' = ToCome /\ mpc' = mpc
    BY <1>6 DEF SemWait, ToCome
  <2>4. ToCome \in Int
    BY <1>t DEF ToCome
  <2> QED
    BY <2>2, <2>3, <2>4, <1>t, CommittedCounted DEF NoWaiterStranded
<1>7. CASE UNCHANGED vars
  BY <1>7 DEF vars, NoWaiterStranded, Committed, ToCome
<1> QED
  BY <1>1, <1>2, <1>3, <1>4, <1>5, <1>6, <1>7 DEF Next, MainStep, WaiterStep, Over

-----------------------------------------------------------------------------
(* The invariant holds in every reachable state.                            *)
THEOREM Inductive == Spec => []IInv
<1>1. IInv /\ [Next]_vars => IInv'
  BY TypeStep, PostsStep, StrandedStep DEF IInv
<1> QED
  BY Initially, <1>1, PTL DEF Spec

(* Types: main posts no more often than its loop says, in every call.       *)
THEOREM TypeCorrect == Spec => []TypeOK
<1>1. IInv => TypeOK
  BY DEF IInv
<1> QED
  BY Inductive, <1>1, PTL

(* The posts after done suffice for every waiter that is still going to     *)
(* wait (sync_semaphore.c:66-67), for any number of waiters.                *)
THEOREM NobodyStranded == Spec => []NoWaiterStranded
<1>1. IInv => NoWaiterStranded
  BY DEF IInv
<1> QED
  BY Inductive, <1>1, PTL

(* What accumulates in the semaphore over the calls is no more than what    *)
(* they posted, so it stays below SEM_VALUE_MAX (sync_semaphore.c:61-67).   *)
THEOREM Leftover == Spec => []LeftoverBounded
<1>1. IInv => LeftoverBounded
  <2> SUFFICES ASSUME IInv PROVE LeftoverBounded
    OBVIOUS
  <2>1. sem \in Nat /\ calls \in Nat /\ k \in Int /\ PerCall \in Nat
    BY WaitersCounted, OpsAssumption DEF IInv, TypeOK, PerCall
  <2>2. mpc # "idle" => calls * PerCall = (calls - 1) * PerCall + PerCall
    BY <2>1
  <2>3. mpc # "idle" => Posted <= PerCall
    BY <2>1, WaitersCounted, OpsAssumption DEF IInv, TypeOK, LoopInv, Posted, PerCall
  <2>4. sem <= calls * PerCall
    <3>1. CASE mpc = "idle"
      BY <2>1, <3>1 DEF IInv, PostsInv, Earlier, Posted
    <3>2. CASE mpc # "idle"
      <4> DEFINE B == (calls - 1) * PerCall
      <4>1. B \in Int /\ Posted \in Int
        BY <2>1, OpsAssumption DEF Posted
      <4>2. sem <= B + Posted
        BY <3>2 DEF IInv, PostsInv, Earlier
      <4> QED
        BY <2>1, <2>2, <2>3, <3>2, <4>1, <4>2
    <3> QED
      BY <3>1, <3>2
  <2> QED
    BY <2>4 DEF LeftoverBounded, PerCall
<1> QED
  BY Inductive, <1>1, PTL
=============================================================================
