--------------------------- MODULE HarnessRun_proofs ---------------------------
(***************************************************************************)
(* That the slots hold the selected benchmarks in the order of registration, *)
(* and that the statistics of a slot are of the benchmark in it, and when    *)
(* they may be of anything else: for any registry and any configurations.    *)
(***************************************************************************)
EXTENDS HarnessRun, FiniteSetTheorems, TLAPS

(* The slots in use never get ahead of the loop over the registry.          *)
LoopInv ==
  /\ Len(registry) <= Len(Benchmarks)
  /\ pc = "register" => Len(registry) < b
  /\ pc \in {"register", "error"} => count = 0
  /\ pc \in {"select", "done"} => b <= Len(registry) + 1 /\ count < b
  /\ pc = "run" => b <= Len(registry) /\ count < b /\ subtests[count + 1].bench = Current.name
  /\ pc = "cool" => b <= Len(registry) /\ count <= b

(* A slot that is not in use yet, or whose run failed, has no statistics.   *)
FreshInv ==
  \A k \in Slots :
    /\ k > count \/ subtests[k].status = "failed" => subtests[k].stats.from = None
    /\ subtests[k].stats.from = None =>
         subtests[k].stats.iterations = 0 /\ subtests[k].stats.measured = 0

(* What the samples of one slot may be, and whom they may have hit.         *)
OwnInv(k) ==
  LET s == subtests[k].stats
  IN  /\ s.from \in {None, subtests[k].bench}
      /\ s.iterations > s.measured => conf.minIter = s.iterations
      /\ conf.n > 1 /\ s.iterations > s.measured =>
           \E j \in DOMAIN Benchmarks : Benchmarks[j].name = s.from /\ ~Benchmarks[j].single
      /\ s.dirty => \E j \in 1..k - 1 : subtests[j].stats.iterations > RawCapacity

ScoreInv ==
  pc = "done" => \A k \in Slots :
    ~subtests[k].stats.dirty /\ subtests[k].stats.from = None => subtests[k].score = "zero"

ZeroInv == pc # "done" => \A k \in Slots : subtests[k].score = "zero"

IInv ==
  TypeOK /\ LoopInv /\ FreshInv /\ (\A k \in Slots : OwnInv(k)) /\ ZeroInv /\ ScoreInv

-----------------------------------------------------------------------------
LEMMA InitInv == Init => IInv
  BY ConfigsAssumption, RegistryAssumption
  DEF Init, IInv, TypeOK, LoopInv, FreshInv, ZeroInv, ScoreInv, Slots, Subtests

LEMMA Products == \A x, y \in Nat : x * y \in Nat
  BY SMT

(* The number of samples stays a number on the way into the statistics, and *)
(* exceeds what was measured only as the configured minimum.                *)
LEMMA Counts ==
  ASSUME NEW n \in Iterations, conf \in Configs
  PROVE  /\ n \in Nat
         /\ Clamped(n) \in Nat
         /\ Clamped(n) > n => Clamped(n) = conf.minIter
         /\ Pooled(n) \in Nat
<1>1. n \in Nat /\ conf.n \in Nat /\ conf.minIter \in Nat /\ conf.maxIter \in Nat
  BY IterationsAssumption, ConfigsAssumption DEF RawCapacity
<1>2. Clamped(n) \in Nat /\ (Clamped(n) > n => Clamped(n) = conf.minIter)
  BY <1>1 DEF Clamped
<1>3. conf.n * n \in Nat
  BY <1>1, Products
<1>4. Pooled(n) \in Nat
  BY <1>1, <1>3 DEF Pooled, PoolCapacity
<1> QED
  BY <1>1, <1>2, <1>4

-----------------------------------------------------------------------------
(* Samples that go into slot k reach a slot behind it only if raw_values of *)
(* k does not hold them.                                                    *)
LEMMA HitMeansTooMany ==
  ASSUME NEW n \in Nat, NEW k \in Nat, NEW j \in Nat, j > k, Spilled(n) > SlotCells * (j - k - 1)
  PROVE  n > RawCapacity
  BY DEF Spilled, SlotCells, RawCapacity, TailCells

(* A slot as it is while the loop is at it.                                 *)
LEMMA SlotFacts ==
  ASSUME IInv, pc = "run"
  PROVE  /\ Slots = 1..Len(registry) /\ Len(registry) \in Nat
         /\ b \in 1..Len(registry) /\ count \in 0..b - 1 /\ Slot \in Slots
         /\ Current \in {Benchmarks[j] : j \in DOMAIN Benchmarks}
         /\ subtests[Slot].bench = Current.name /\ Current.name \in Names
         /\ subtests[Slot].stats.from = None
<1>1. registry \in Seq({Benchmarks[j] : j \in DOMAIN Benchmarks})
  BY DEF IInv, TypeOK
<1>2. Slots = 1..Len(registry) /\ Len(registry) \in Nat
  BY <1>1 DEF IInv, TypeOK, Slots
<1>3. b \in 1..Len(registry) /\ count \in 0..b - 1 /\ Slot \in Slots
  BY <1>2, RegistryAssumption DEF IInv, TypeOK, LoopInv, Slot
<1>4. Current \in {Benchmarks[j] : j \in DOMAIN Benchmarks}
  BY <1>1, <1>3 DEF Current
<1>5. Current.name \in Names
  BY <1>4 DEF Names
<1>6. subtests[Slot].bench = Current.name
  BY DEF IInv, LoopInv, Slot
<1>7. subtests[Slot].stats.from = None
  BY <1>2, <1>3 DEF IInv, FreshInv, Slot
<1> QED
  BY <1>2, <1>3, <1>4, <1>5, <1>6, <1>7

(* Storing n values of which m were measured.                               *)
LEMMA StoreStep ==
  ASSUME IInv, Ran, NEW n \in Nat, NEW m \in Nat, NEW isHigh \in BOOLEAN,
         Store(Slot, n, m, isHigh),
         n > m => conf.minIter = n /\ ~Parallel
  PROVE  IInv'
<1>1. pc = "run" /\ count' = count + 1 /\ pc' = "cool" /\ UNCHANGED << conf, registry, b >>
  BY DEF Ran
<1>2. /\ Slots = 1..Len(registry) /\ Len(registry) \in Nat
      /\ b \in 1..Len(registry) /\ count \in 0..b - 1 /\ Slot \in Slots
      /\ Current \in {Benchmarks[j] : j \in DOMAIN Benchmarks}
      /\ subtests[Slot].bench = Current.name /\ Current.name \in Names
      /\ subtests[Slot].stats.from = None
  BY <1>1, SlotFacts
<1>3. CASE n < 2
  <2>1. /\ subtests' = [subtests EXCEPT ![Slot].status = "completed"] /\ beyond' = beyond
        /\ Slots' = Slots
    BY <1>3, <1>2 DEF Store, Slots
  <2>2. ASSUME NEW k \in Slots
        PROVE  /\ subtests'[k].stats = subtests[k].stats /\ subtests'[k].score = subtests[k].score
               /\ subtests'[k].bench = subtests[k].bench
               /\ subtests'[k].status = IF k = Slot THEN "completed" ELSE subtests[k].status
    BY <1>2, <2>1 DEF IInv, TypeOK, Slots
  <2>3. TypeOK'
    <3>1. ASSUME NEW k \in Slots PROVE subtests'[k] \in Subtests
      <4>1. subtests[k] \in Subtests /\ k \in DOMAIN subtests
        BY <1>1 DEF IInv, TypeOK, Slots
      <4>2. [subtests[k] EXCEPT !.status = "completed"] \in Subtests
        BY <4>1 DEF Subtests
      <4>3. subtests'[k] \in {subtests[k], [subtests[k] EXCEPT !.status = "completed"]}
        BY <2>1, <4>1
      <4> QED
        BY <4>1, <4>2, <4>3
    <3>2. subtests' \in [DOMAIN registry -> Subtests]
      BY <1>1, <2>1, <3>1 DEF IInv, TypeOK, Slots
    <3>3. \A k \in 1..count + 1 : subtests'[k].status # None
      BY <1>2, <2>2, NoneAssumption DEF IInv, TypeOK, Slot
    <3> QED
      BY <1>1, <1>2, <2>1, <3>2, <3>3 DEF IInv, TypeOK
  <2>4. LoopInv' /\ ZeroInv' /\ ScoreInv'
    BY <1>1, <1>2, <2>1, <2>2 DEF IInv, LoopInv, ZeroInv, ScoreInv
  <2>5. FreshInv'
    BY <1>1, <1>2, <2>1, <2>2 DEF IInv, FreshInv, Slot
  <2>6. ASSUME NEW k \in Slots PROVE OwnInv(k)'
    BY <1>1, <1>2, <2>1, <2>2 DEF IInv, OwnInv
  <2> QED
    BY <2>1, <2>3, <2>4, <2>5, <2>6 DEF IInv
<1>4. CASE n >= 2
  <2> DEFINE s == [from |-> Current.name, iterations |-> n, measured |-> m,
                   high |-> isHigh, dirty |-> FALSE]
  <2>1. /\ subtests' = [j \in Slots |->
               CASE j = Slot -> [subtests[j] EXCEPT !.stats = s, !.status = "completed"]
                 [] j \in Hit(Slot, n) -> [subtests[j] EXCEPT !.stats.dirty = TRUE]
                 [] OTHER -> subtests[j]]
        /\ beyond' = beyond + PastEnd(Slot, n)
    <3>1. ~(n < 2)
      BY <1>4
    <3> QED
      BY <3>1, Zenon DEF Store
  <2>2. Slots' = Slots
    BY <2>1 DEF Slots
  <2>n. Slot \in Slots /\ Slot \notin Hit(Slot, n)
    BY <1>2 DEF Hit
  <2>a. ASSUME NEW k \in Slots
        PROVE  /\ subtests[k] \in Subtests /\ subtests[k].stats \in Stats
               /\ subtests'[k].bench = subtests[k].bench /\ subtests'[k].score = subtests[k].score
               /\ subtests'[k].status = IF k = Slot THEN "completed" ELSE subtests[k].status
               /\ k = Slot => subtests'[k].stats = s
               /\ k # Slot /\ k \in Hit(Slot, n) =>
                    subtests'[k].stats = [subtests[k].stats EXCEPT !.dirty = TRUE]
               /\ k # Slot /\ k \notin Hit(Slot, n) => subtests'[k].stats = subtests[k].stats
    <3>1. subtests[k] \in Subtests /\ subtests[k].stats \in Stats
      BY DEF IInv, TypeOK, Slots, Subtests
    <3>2. CASE k = Slot
      <4>1. subtests'[k] = [subtests[k] EXCEPT !.stats = s, !.status = "completed"]
        BY <2>1, <2>n, <3>2
      <4> HIDE DEF s
      <4>2. /\ subtests'[k].bench = subtests[k].bench /\ subtests'[k].score = subtests[k].score
            /\ subtests'[k].status = "completed" /\ subtests'[k].stats = s
        BY <4>1, <3>1 DEF Subtests
      <4> QED
        BY <3>1, <4>2, <3>2
    <3>3. CASE k # Slot /\ k \in Hit(Slot, n)
      BY <2>1, <3>1, <3>3 DEF Subtests
    <3>4. CASE k # Slot /\ k \notin Hit(Slot, n)
      BY <2>1, <3>1, <3>4 DEF Subtests
    <3> QED
      BY <3>1, <3>2, <3>3, <3>4
  <2>b. s \in Stats
    BY <1>2 DEF Stats
  <2> HIDE DEF s
  <2>c. /\ s.from = Current.name /\ s.iterations = n /\ s.measured = m /\ s.dirty = FALSE
    BY DEF s
  <2>3. TypeOK'
    <3>1. ASSUME NEW k \in Slots PROVE subtests'[k] \in Subtests
      <4>1. subtests'[k].stats \in Stats
        BY <2>a, <2>b DEF Stats
      <4>2. subtests[k] \in Subtests
        BY <2>a
      <4>3. CASE k = Slot
        <5>1. subtests'[k] = [subtests[k] EXCEPT !.stats = s, !.status = "completed"]
          BY <4>3, <2>1, <2>n
        <5> QED
          BY <4>2, <5>1, <2>b DEF Subtests
      <4>4. CASE k # Slot
        BY <4>2, <4>4, <2>1 DEF Subtests, Stats
      <4> QED
        BY <4>3, <4>4
    <3>2. subtests' \in [DOMAIN registry -> Subtests]
      BY <1>1, <2>1, <3>1 DEF IInv, TypeOK, Slots
    <3>3. ASSUME NEW k \in 1..count + 1 PROVE subtests'[k].status # None
      <4>1. k \in Slots /\ (k = Slot \/ k \in 1..count)
        BY <1>2 DEF Slot
      <4>2. k \in 1..count => subtests[k].status # None
        BY DEF IInv, TypeOK
      <4> QED
        BY <4>1, <4>2, <2>a, NoneAssumption
    <3>4. beyond' \in Nat
      <4>1. beyond' = beyond + PastEnd(Slot, n) /\ beyond \in Nat
        BY <2>1 DEF IInv, TypeOK
      <4>2. PastEnd(Slot, n) \in Nat
        BY <1>2 DEF PastEnd, Spilled, RawCapacity, TailCells, SlotCells
      <4> QED
        BY <4>1, <4>2
    <3> QED
      BY <1>1, <1>2, <2>2, <3>2, <3>3, <3>4 DEF IInv, TypeOK, Slots
  <2>4. LoopInv'
    BY <1>1, <1>2 DEF IInv, LoopInv
  <2>5. ZeroInv' /\ ScoreInv'
    BY <1>1, <2>2, <2>a DEF IInv, ZeroInv, ScoreInv
  <2>6. FreshInv'
    <3>1. ASSUME NEW k \in Slots
          PROVE  /\ k > count' \/ subtests'[k].status = "failed" => subtests'[k].stats.from = None
                 /\ subtests'[k].stats.from = None =>
                      subtests'[k].stats.iterations = 0 /\ subtests'[k].stats.measured = 0
      <4>1. CASE k = Slot
        <5>1. subtests'[k].status = "completed" /\ subtests'[k].stats.from = Current.name
          BY <4>1, <2>a, <2>c
        <5>2. Current.name # None
          BY <1>2, NoneAssumption
        <5>3. ~(k > count')
          BY <4>1, <1>1, <1>2 DEF Slot
        <5> QED
          BY <5>1, <5>2, <5>3
      <4>2. CASE k # Slot
        <5>1. /\ subtests'[k].stats.from = subtests[k].stats.from
              /\ subtests'[k].stats.iterations = subtests[k].stats.iterations
              /\ subtests'[k].stats.measured = subtests[k].stats.measured
              /\ subtests'[k].status = subtests[k].status
          BY <4>2, <2>a DEF Stats
        <5> QED
          BY <5>1, <4>2, <1>1, <1>2 DEF IInv, FreshInv, Slot
      <4> QED
        BY <4>1, <4>2
    <3> QED
      BY <3>1, <2>2 DEF FreshInv
  <2>7. ASSUME NEW k \in Slots PROVE OwnInv(k)'
    <3>1. CASE k = Slot
      <4>1. conf' = conf /\ subtests'[k].stats = s /\ subtests'[k].bench = Current.name
        BY <3>1, <1>1, <1>2, <2>a
      <4>2. n > m => conf.minIter = n /\ (conf.n > 1 => ~Current.single)
        BY ConfigsAssumption DEF Parallel, IInv, TypeOK
      <4> QED
        BY <4>1, <4>2, <1>2, <2>c DEF OwnInv
    <3>2. CASE k # Slot
      <4>1. /\ subtests'[k].stats.from = subtests[k].stats.from
            /\ subtests'[k].stats.iterations = subtests[k].stats.iterations
            /\ subtests'[k].stats.measured = subtests[k].stats.measured
            /\ subtests'[k].bench = subtests[k].bench
        BY <3>2, <2>a DEF Stats
      <4>2. OwnInv(k)
        BY DEF IInv
      <4>3. subtests'[k].stats.dirty => \E j \in 1..k - 1 : subtests'[j].stats.iterations > RawCapacity
        <5>1. CASE k \in Hit(Slot, n)
          <6>1. Slot \in Nat /\ k \in Nat /\ 1 <= Slot
            BY <1>2
          <6>2. k > Slot /\ Spilled(n) > SlotCells * (k - Slot - 1)
            BY <5>1 DEF Hit
          <6>3. n > RawCapacity
            BY <6>1, <6>2, HitMeansTooMany
          <6>4. Slot \in 1..k - 1
            BY <6>1, <6>2
          <6>5. subtests'[Slot].stats.iterations > RawCapacity
            BY <6>3, <1>2, <2>a, <2>c
          <6> QED
            BY <6>4, <6>5
        <5>2. CASE k \notin Hit(Slot, n)
          <6>1. SUFFICES ASSUME subtests'[k].stats.dirty
                PROVE  \E j \in 1..k - 1 : subtests'[j].stats.iterations > RawCapacity
            OBVIOUS
          <6>2. subtests[k].stats.dirty
            BY <6>1, <5>2, <3>2, <2>a
          <6>3. PICK j \in 1..k - 1 : subtests[j].stats.iterations > RawCapacity
            BY <4>2, <6>2 DEF OwnInv
          <6>4. j \in Slots /\ k \in Slots
            BY <1>2
          <6>5. j # Slot
            BY <6>3, <1>2 DEF IInv, FreshInv, RawCapacity
          <6>6. subtests'[j].stats.iterations = subtests[j].stats.iterations
            BY <6>4, <6>5, <2>a DEF Stats
          <6> QED
            BY <6>3, <6>6
        <5> QED
          BY <5>1, <5>2
      <4> QED
        BY <4>1, <4>2, <4>3, <1>1 DEF OwnInv
    <3> QED
      BY <3>1, <3>2
  <2> QED
    BY <2>2, <2>3, <2>4, <2>5, <2>6, <2>7 DEF IInv
<1> QED
  BY <1>3, <1>4

-----------------------------------------------------------------------------
LEMMA RunStep == ASSUME IInv, RunSingle \/ RunParallel PROVE IInv'
<1>1. CASE RunSingle
  <2>1. Ran /\ ~Parallel
    BY <1>1 DEF RunSingle
  <2>2. PICK n \in Iterations, isHigh \in BOOLEAN :
          Store(Slot, Clamped(n), IF n < Clamped(n) THEN n ELSE Clamped(n), isHigh)
    BY <1>1 DEF RunSingle
  <2>3. n \in Nat /\ Clamped(n) \in Nat /\ (Clamped(n) > n => Clamped(n) = conf.minIter)
    BY Counts DEF IInv, TypeOK
  <2> DEFINE m == IF n < Clamped(n) THEN n ELSE Clamped(n)
  <2>4. m \in Nat /\ (Clamped(n) > m => conf.minIter = Clamped(n))
    BY <2>3
  <2>5. Store(Slot, Clamped(n), m, isHigh)
    BY <2>2
  <2> HIDE DEF m
  <2> QED
    BY <2>1, <2>3, <2>4, <2>5, StoreStep
<1>2. CASE RunParallel
  <2>1. Ran
    BY <1>2 DEF RunParallel
  <2>2. PICK n \in Iterations, isHigh \in BOOLEAN : Store(Slot, Pooled(n), Pooled(n), isHigh)
    BY <1>2 DEF RunParallel
  <2>3. Pooled(n) \in Nat
    BY Counts DEF IInv, TypeOK
  <2>4. ~(Pooled(n) > Pooled(n))
    BY <2>3
  <2> QED
    BY <2>1, <2>2, <2>3, <2>4, StoreStep
<1> QED
  BY <1>1, <1>2

LEMMA FailStep == ASSUME IInv, RunFails PROVE IInv'
<1>1. pc = "run" /\ count' = count + 1 /\ pc' = "cool" /\ UNCHANGED << conf, registry, b >>
  BY DEF RunFails, Ran
<1>2. /\ Slots = 1..Len(registry) /\ Len(registry) \in Nat
      /\ b \in 1..Len(registry) /\ count \in 0..b - 1 /\ Slot \in Slots
      /\ subtests[Slot].stats.from = None
  BY <1>1, SlotFacts
<1>3. /\ subtests' = [subtests EXCEPT ![Slot].status = "failed"] /\ beyond' = beyond
      /\ Slots' = Slots
  BY <1>2 DEF RunFails, Failed, Slots
<1>4. ASSUME NEW k \in Slots
      PROVE  /\ subtests'[k].stats = subtests[k].stats /\ subtests'[k].score = subtests[k].score
             /\ subtests'[k].bench = subtests[k].bench
             /\ subtests'[k].status = IF k = Slot THEN "failed" ELSE subtests[k].status
  BY <1>2, <1>3 DEF IInv, TypeOK, Slots, Subtests
<1>5. TypeOK'
  <2>1. ASSUME NEW k \in Slots PROVE subtests'[k] \in Subtests
    BY <1>2, <1>3 DEF IInv, TypeOK, Slots, Subtests
  <2>2. subtests' \in [DOMAIN registry -> Subtests]
    BY <1>1, <1>3, <2>1 DEF IInv, TypeOK, Slots
  <2>3. \A k \in 1..count + 1 : subtests'[k].status # None
    BY <1>2, <1>4, NoneAssumption DEF IInv, TypeOK, Slot
  <2> QED
    BY <1>1, <1>2, <1>3, <2>2, <2>3 DEF IInv, TypeOK
<1>6. LoopInv' /\ ZeroInv' /\ ScoreInv'
  BY <1>1, <1>2, <1>3, <1>4 DEF IInv, LoopInv, ZeroInv, ScoreInv
<1>7. FreshInv'
  BY <1>1, <1>2, <1>3, <1>4 DEF IInv, FreshInv, Slot
<1>8. ASSUME NEW k \in Slots PROVE OwnInv(k)'
  BY <1>1, <1>2, <1>3, <1>4 DEF IInv, OwnInv
<1> QED
  BY <1>3, <1>5, <1>6, <1>7, <1>8 DEF IInv

LEMMA SelectStep == ASSUME IInv, Select PROVE IInv'
<1>1. /\ pc = "select" /\ pc' = "run" /\ b <= Len(registry)
      /\ UNCHANGED << conf, registry, b, count, beyond >>
      /\ subtests' = [subtests EXCEPT ![Slot].bench = Current.name]
  BY DEF Select
<1>2. /\ Slots = 1..Len(registry) /\ Len(registry) \in Nat /\ Slots' = Slots
      /\ b \in 1..Len(registry) /\ count \in 0..b - 1 /\ Slot \in Slots
      /\ Current.name \in Names /\ subtests[Slot].stats.from = None
  <2>1. Slots = 1..Len(registry) /\ Len(registry) \in Nat /\ Slots' = Slots
    <3>1. registry \in Seq({Benchmarks[j] : j \in DOMAIN Benchmarks})
      BY DEF IInv, TypeOK
    <3>2. DOMAIN subtests = DOMAIN registry
      BY <1>1 DEF IInv, TypeOK
    <3>3. DOMAIN subtests' = DOMAIN subtests
      BY <1>1
    <3> QED
      BY <3>1, <3>2, <3>3 DEF Slots
  <2>2. b \in 1..Len(registry) /\ count \in 0..b - 1 /\ Slot \in Slots
    BY <1>1, <2>1, RegistryAssumption DEF IInv, TypeOK, LoopInv, Slot
  <2>3. Current.name \in Names
    BY <2>2 DEF Current, Names, IInv, TypeOK
  <2>4. subtests[Slot].stats.from = None
    BY <2>1, <2>2 DEF IInv, FreshInv, Slot
  <2> QED
    BY <2>1, <2>2, <2>3, <2>4
<1>3. ASSUME NEW k \in Slots
      PROVE  /\ subtests'[k].stats = subtests[k].stats /\ subtests'[k].score = subtests[k].score
             /\ subtests'[k].status = subtests[k].status
             /\ subtests'[k].bench = IF k = Slot THEN Current.name ELSE subtests[k].bench
  BY <1>1, <1>2 DEF IInv, TypeOK, Slots, Subtests
<1>4. TypeOK'
  <2>1. ASSUME NEW k \in Slots PROVE subtests'[k] \in Subtests
    BY <1>1, <1>2 DEF IInv, TypeOK, Slots, Subtests
  <2>2. subtests' \in [DOMAIN registry -> Subtests]
    BY <1>1, <1>2, <2>1 DEF IInv, TypeOK, Slots
  <2>3. \A k \in 1..count : subtests'[k].status # None
    BY <1>2, <1>3 DEF IInv, TypeOK
  <2> QED
    BY <1>1, <1>2, <2>2, <2>3 DEF IInv, TypeOK
<1>5. LoopInv' /\ ZeroInv' /\ ScoreInv' /\ FreshInv'
  BY <1>1, <1>2, <1>3 DEF IInv, LoopInv, ZeroInv, ScoreInv, FreshInv, Slot, Current
<1>6. ASSUME NEW k \in Slots PROVE OwnInv(k)'
  BY <1>1, <1>2, <1>3 DEF IInv, OwnInv
<1> QED
  BY <1>2, <1>4, <1>5, <1>6 DEF IInv

(* The loop moves on, and the scores.                                       *)
LEMMA LoopStep == ASSUME IInv, Skip \/ Cooldown PROVE IInv'
<1>1. /\ UNCHANGED << conf, registry, subtests, count, beyond >>
      /\ b' = b + 1 /\ b <= Len(registry) /\ pc' = "select" /\ pc \in {"select", "cool"}
      /\ pc \in {"select", "cool"} => count <= b
  BY DEF Skip, Cooldown, IInv, TypeOK, LoopInv
<1>2. registry \in Seq({Benchmarks[j] : j \in DOMAIN Benchmarks}) /\ Len(registry) \in Nat
  BY DEF IInv, TypeOK
<1>3. b' \in 1..Len(Benchmarks) + 1
  BY <1>1, <1>2, RegistryAssumption DEF IInv, TypeOK, LoopInv
<1>4. TypeOK'
  BY <1>1, <1>3 DEF IInv, TypeOK
<1>5. LoopInv'
  BY <1>1, <1>2, RegistryAssumption DEF IInv, TypeOK, LoopInv
<1>6. FreshInv' /\ ZeroInv' /\ ScoreInv' /\ \A k \in Slots : OwnInv(k)'
  BY <1>1 DEF IInv, FreshInv, ZeroInv, ScoreInv, OwnInv, Slots
<1> QED
  BY <1>1, <1>4, <1>5, <1>6 DEF IInv, Slots

LEMMA StartStep == ASSUME IInv, benchmark_register \/ Start \/ NoRoom PROVE IInv'
<1>1. CASE benchmark_register
  <2>1. /\ UNCHANGED << conf, pc, subtests, count, beyond >> /\ pc = "register"
        /\ b' = b + 1 /\ b <= Len(Benchmarks) /\ count = 0
    BY <1>1 DEF benchmark_register, IInv, LoopInv
  <2>2. /\ registry' \in Seq({Benchmarks[j] : j \in DOMAIN Benchmarks})
        /\ b' \in 1..Len(Benchmarks) + 1
    BY <1>1, RegistryAssumption DEF benchmark_register, IInv, TypeOK
  <2>3. TypeOK'
    BY <2>1, <2>2 DEF IInv, TypeOK
  <2> QED
    <3>1. /\ Len(registry') <= Len(Benchmarks) /\ Len(registry') < b'
      BY <1>1, <2>1, RegistryAssumption DEF benchmark_register, IInv, TypeOK, LoopInv
    <3>2. LoopInv'
      BY <2>1, <3>1 DEF IInv, LoopInv
    <3>3. FreshInv' /\ ZeroInv' /\ ScoreInv' /\ (\A k \in Slots : OwnInv(k))'
      BY <2>1 DEF IInv, FreshInv, ZeroInv, ScoreInv, OwnInv, Slots
    <3> QED
      BY <2>3, <3>2, <3>3 DEF IInv
<1>2. CASE Start
  <2>1. /\ UNCHANGED << conf, registry, count, beyond >> /\ pc' = "select" /\ b' = 1 /\ count = 0
        /\ subtests' = [k \in DOMAIN registry |-> [bench |-> None, stats |-> NoStats,
                                                  score |-> "zero", status |-> None]]
    BY <1>2 DEF Start, IInv, LoopInv
  <2>2. TypeOK'
    BY <2>1, RegistryAssumption DEF IInv, TypeOK, Subtests, Stats, NoStats
  <2>3. LoopInv' /\ FreshInv' /\ ZeroInv' /\ ScoreInv' /\ (\A k \in Slots : OwnInv(k))'
    BY <2>1, ConfigsAssumption DEF IInv, TypeOK, LoopInv, FreshInv, ZeroInv, ScoreInv, OwnInv, Slots, NoStats
  <2> QED
    BY <2>2, <2>3 DEF IInv
<1>3. CASE NoRoom
  <2>1. UNCHANGED << conf, registry, b, subtests, count, beyond >> /\ pc = "register" /\ pc' = "error"
    BY <1>3 DEF NoRoom
  <2>2. TypeOK'
    BY <2>1 DEF IInv, TypeOK
  <2> QED
    BY <2>1, <2>2 DEF IInv, LoopInv, FreshInv, ZeroInv, ScoreInv, OwnInv, Slots
<1> QED
  BY <1>1, <1>2, <1>3

LEMMA ScoreStep == ASSUME IInv, AssignScores PROVE IInv'
<1>1. /\ pc = "select" /\ pc' = "done" /\ UNCHANGED << conf, registry, b, count, beyond >>
  BY DEF AssignScores
<1>2. PICK f \in [1..count -> {"zero", "value", "garbage"}] :
        /\ \A k \in 1..count : f[k] \in Score(subtests[k].stats)
        /\ subtests' = [k \in Slots |-> IF k <= count
                          THEN [subtests[k] EXCEPT !.score = f[k]] ELSE subtests[k]]
  BY DEF AssignScores
<1>3. Slots' = Slots /\ Slots = 1..Len(registry) /\ Len(registry) \in Nat /\ count \in 0..Len(registry)
  <2>1. registry \in Seq({Benchmarks[j] : j \in DOMAIN Benchmarks}) /\ DOMAIN subtests = DOMAIN registry
    BY <1>1 DEF IInv, TypeOK
  <2> QED
    BY <2>1, <1>2 DEF Slots, IInv, TypeOK
<1>4. ASSUME NEW k \in Slots
      PROVE  /\ subtests[k] \in Subtests
             /\ subtests'[k] = IF k <= count THEN [subtests[k] EXCEPT !.score = f[k]] ELSE subtests[k]
  BY <1>1, <1>2 DEF IInv, TypeOK, Slots
<1>5. ASSUME NEW k \in Slots
      PROVE  /\ subtests'[k] \in Subtests
             /\ subtests'[k].stats = subtests[k].stats /\ subtests'[k].bench = subtests[k].bench
             /\ subtests'[k].status = subtests[k].status
             /\ subtests'[k].score = IF k <= count THEN f[k] ELSE subtests[k].score
  <2>1. k <= count => f[k] \in {"zero", "value", "garbage"}
    BY <1>2, <1>3
  <2> QED
    BY <1>4, <2>1 DEF Subtests
<1>6. TypeOK'
  <2>1. subtests' \in [DOMAIN registry -> Subtests]
    BY <1>1, <1>2, <1>5 DEF IInv, TypeOK, Slots
  <2>2. \A k \in 1..count : subtests'[k].status # None
    BY <1>3, <1>5 DEF IInv, TypeOK
  <2> QED
    BY <1>1, <2>1, <2>2 DEF IInv, TypeOK
<1>7. LoopInv' /\ FreshInv' /\ ZeroInv'
  BY <1>1, <1>3, <1>5 DEF IInv, LoopInv, FreshInv, ZeroInv
<1>8. ASSUME NEW k \in Slots, ~subtests'[k].stats.dirty, subtests'[k].stats.from = None
      PROVE  subtests'[k].score = "zero"
  <2>1. ~subtests[k].stats.dirty /\ subtests[k].stats.from = None
    BY <1>5, <1>8
  <2>2. subtests[k].score = "zero"
    BY <1>1 DEF IInv, ZeroInv
  <2>3. subtests[k].stats.iterations = 0 /\ subtests[k].stats.measured = 0
    BY <2>1 DEF IInv, FreshInv
  <2>4. Score(subtests[k].stats) = {"zero"}
    BY <2>1, <2>3 DEF Score
  <2> QED
    BY <1>2, <1>3, <1>5, <2>2, <2>4
<1>9. ASSUME NEW k \in Slots PROVE OwnInv(k)'
  BY <1>1, <1>3, <1>5 DEF IInv, OwnInv
<1> QED
  BY <1>3, <1>6, <1>7, <1>8, <1>9 DEF IInv, ScoreInv

-----------------------------------------------------------------------------
(* The order of the slots.                                                  *)

(* The selected ones of the first m benchmarks, as far as they are          *)
(* registered, and those of them up to the i-th: as many as the slot of the *)
(* i-th is from the front.                                                  *)
Chosen(m) == {i \in 1..m : i <= MaxBenchmarks /\ Selected(conf, Benchmarks[i])}
UpTo(m, i) == {j \in Chosen(m) : j <= i}

(* The first `used` slots hold the selected ones of the first m benchmarks. *)
Placed(m, used) ==
  /\ used = Cardinality(Chosen(m))
  /\ \A i \in Chosen(m) : subtests[Cardinality(UpTo(m, i))].bench = Benchmarks[i].name

(* The registry is the front of the list of constructors.                   *)
FrontInv ==
  /\ \A j \in 1..Len(registry) : registry[j] = Benchmarks[j]
  /\ Len(registry) <= MaxBenchmarks
  /\ pc = "register" =>
       Len(registry) = IF b - 1 < MaxBenchmarks THEN b - 1 ELSE MaxBenchmarks
  /\ pc # "register" =>
       Len(registry) = IF Len(Benchmarks) < MaxBenchmarks THEN Len(Benchmarks) ELSE MaxBenchmarks

OrderInv ==
  /\ FrontInv
  /\ pc = "select" => Placed(b - 1, count)
  /\ pc = "run" => Placed(b, count + 1)
  /\ pc = "cool" => Placed(b, count)
  /\ pc = "done" => Placed(Len(Benchmarks), count)

(* A benchmark that is not selected, or not registered, leaves the chosen   *)
(* ones as they are.                                                        *)
LEMMA ChosenSame ==
  ASSUME NEW m \in Nat, ~(m + 1 <= MaxBenchmarks /\ Selected(conf, Benchmarks[m + 1]))
  PROVE  Chosen(m + 1) = Chosen(m)
  BY DEF Chosen

(* One that is selected is the last of the chosen ones, and its slot is one *)
(* behind those of the others, whose slots do not change.                   *)
LEMMA ChosenOneMore ==
  ASSUME NEW m \in Nat, m + 1 <= MaxBenchmarks, Selected(conf, Benchmarks[m + 1])
  PROVE  /\ Chosen(m + 1) = Chosen(m) \cup {m + 1}
         /\ Cardinality(Chosen(m + 1)) = Cardinality(Chosen(m)) + 1
         /\ UpTo(m + 1, m + 1) = Chosen(m + 1)
         /\ \A i \in Chosen(m) : UpTo(m + 1, i) = UpTo(m, i)
<1>1. Chosen(m + 1) = Chosen(m) \cup {m + 1}
  BY DEF Chosen
<1>2. m + 1 \notin Chosen(m) /\ \A i \in Chosen(m) : i \in 1..m
  BY DEF Chosen
<1>3. IsFiniteSet(Chosen(m))
  BY FS_Interval, FS_Subset DEF Chosen
<1>4. Cardinality(Chosen(m + 1)) = Cardinality(Chosen(m)) + 1
  BY <1>1, <1>2, <1>3, FS_AddElement
<1>5. UpTo(m + 1, m + 1) = Chosen(m + 1)
  BY <1>1, <1>2 DEF UpTo
<1>6. \A i \in Chosen(m) : UpTo(m + 1, i) = UpTo(m, i)
  BY <1>1, <1>2 DEF UpTo
<1> QED
  BY <1>1, <1>4, <1>5, <1>6

(* Every slot of a chosen benchmark is one of the slots in use.             *)
LEMMA SlotOfChosen ==
  ASSUME NEW m \in Nat, NEW i \in Chosen(m)
  PROVE  Cardinality(UpTo(m, i)) \in 1..Cardinality(Chosen(m))
<1>1. IsFiniteSet(Chosen(m)) /\ Cardinality(Chosen(m)) \in Nat
  <2>1. IsFiniteSet(1..m) /\ Chosen(m) \subseteq 1..m
    BY FS_Interval DEF Chosen
  <2> QED
    BY <2>1, FS_Subset, FS_CardinalityType
<1>2. UpTo(m, i) \subseteq Chosen(m) /\ i \in UpTo(m, i)
  BY DEF UpTo, Chosen
<1>3. IsFiniteSet(UpTo(m, i)) /\ Cardinality(UpTo(m, i)) <= Cardinality(Chosen(m))
  BY <1>1, <1>2, FS_Subset
<1>4. Cardinality(UpTo(m, i)) \in Nat /\ Cardinality(UpTo(m, i)) # 0
  BY <1>2, <1>3, FS_CardinalityType, FS_EmptySet
<1> QED
  BY <1>1, <1>3, <1>4

(* Benchmarks behind the registry are never chosen.                         *)
LEMMA NoneBehind ==
  ASSUME MaxBenchmarks <= Len(Benchmarks)
  PROVE  Chosen(Len(Benchmarks)) = Chosen(MaxBenchmarks)
  BY RegistryAssumption DEF Chosen

(* What a step leaves of the slots of the chosen ones.                      *)
LEMMA PlacedKept ==
  ASSUME NEW m \in Nat, NEW used, Placed(m, used), conf' = conf,
         \A k \in 1..Cardinality(Chosen(m)) : subtests'[k].bench = subtests[k].bench
  PROVE  /\ Chosen(m)' = Chosen(m)
         /\ used = Cardinality(Chosen(m))
         /\ \A i \in Chosen(m) : subtests'[Cardinality(UpTo(m, i))].bench = Benchmarks[i].name
         /\ \A i \in Chosen(m) : UpTo(m, i)' = UpTo(m, i)
<1>1. Chosen(m)' = Chosen(m)
  BY DEF Chosen
<1>2. \A i \in Chosen(m) : UpTo(m, i)' = UpTo(m, i)
  BY <1>1 DEF UpTo
<1> QED
  BY <1>1, <1>2, SlotOfChosen DEF Placed

(* A run and the scores leave the names in the slots alone.                 *)
LEMMA BenchKept ==
  ASSUME IInv, RunSingle \/ RunParallel \/ RunFails \/ AssignScores
  PROVE  \A k \in Slots : subtests'[k].bench = subtests[k].bench
<1>1. ASSUME NEW n \in Nat, NEW m, NEW isHigh, pc = "run", Store(Slot, n, m, isHigh)
      PROVE  \A k \in Slots : subtests'[k].bench = subtests[k].bench
  <2>1. SUFFICES ASSUME NEW k \in Slots PROVE subtests'[k].bench = subtests[k].bench
    OBVIOUS
  <2>2. subtests[k] \in Subtests /\ Slot \in Slots
    BY <1>1, SlotFacts DEF IInv, TypeOK, Slots
  <2>3. CASE n < 2
    BY <1>1, <2>2, <2>3 DEF Store, Subtests, Slots
  <2>4. CASE ~(n < 2)
    <3>1. PICK st : st = [from |-> Current.name, iterations |-> n, measured |-> m,
                          high |-> isHigh, dirty |-> FALSE]
      OBVIOUS
    <3>2. subtests' = [j \in Slots |->
            CASE j = Slot -> [subtests[j] EXCEPT !.stats = st, !.status = "completed"]
              [] j \in Hit(Slot, n) -> [subtests[j] EXCEPT !.stats.dirty = TRUE]
              [] OTHER -> subtests[j]]
      BY <1>1, <2>4, <3>1, Zenon DEF Store
    <3>3. subtests'[k] = CASE k = Slot -> [subtests[k] EXCEPT !.stats = st, !.status = "completed"]
                           [] k \in Hit(Slot, n) -> [subtests[k] EXCEPT !.stats.dirty = TRUE]
                           [] OTHER -> subtests[k]
      BY <3>2, Zenon
    <3>4. CASE k = Slot
      BY <2>2, <3>3, <3>4 DEF Subtests
    <3>5. CASE k # Slot /\ k \in Hit(Slot, n)
      BY <2>2, <3>3, <3>5 DEF Subtests
    <3>6. CASE k # Slot /\ k \notin Hit(Slot, n)
      BY <3>3, <3>6
    <3> QED
      BY <3>4, <3>5, <3>6
  <2> QED
    BY <2>3, <2>4
<1>2. CASE RunSingle
  BY <1>1, <1>2, Counts DEF RunSingle, Ran, IInv, TypeOK
<1>3. CASE RunParallel
  BY <1>1, <1>3, Counts DEF RunParallel, Ran, IInv, TypeOK
<1>4. CASE RunFails
  BY <1>4, SlotFacts DEF RunFails, Ran, Failed, IInv, TypeOK, Subtests, Slots
<1>5. CASE AssignScores
  BY <1>5 DEF AssignScores, IInv, TypeOK, Subtests, Slots
<1> QED
  BY <1>2, <1>3, <1>4, <1>5

LEMMA OrderStep ==
  ASSUME IInv, OrderInv, Next PROVE OrderInv'
<1> registry \in Seq({Benchmarks[j] : j \in DOMAIN Benchmarks}) /\ Len(registry) \in Nat
    /\ b \in 1..Len(Benchmarks) + 1 /\ count \in Nat
  BY RegistryAssumption DEF IInv, TypeOK
<1>1. CASE benchmark_register
  <2>1. FrontInv'
    BY <1>1, RegistryAssumption DEF benchmark_register, OrderInv, FrontInv
  <2> QED
    BY <1>1, <2>1 DEF benchmark_register, OrderInv
<1>2. CASE Start \/ NoRoom
  <2>1. FrontInv'
    BY <1>2, RegistryAssumption DEF Start, NoRoom, OrderInv, FrontInv
  <2>2. pc' = "select" => Placed(b - 1, count)'
    <3>1. SUFFICES ASSUME pc' = "select" PROVE Placed(b - 1, count)'
      OBVIOUS
    <3>2. b' = 1 /\ count' = 0
      BY <1>2, <3>1 DEF Start, NoRoom, IInv, LoopInv
    <3>3. Chosen(b - 1)' = {}
      BY <3>2 DEF Chosen
    <3> QED
      BY <3>2, <3>3, FS_EmptySet DEF Placed
  <2> QED
    BY <1>2, <2>1, <2>2 DEF Start, NoRoom, OrderInv
<1>3. CASE Skip
  <2>1. /\ b' = b + 1 /\ pc = "select" /\ pc' = "select" /\ b <= Len(registry)
        /\ UNCHANGED << conf, registry, subtests, count, beyond >>
        /\ ~Selected(conf, registry[b])
    BY <1>3 DEF Skip, Current
  <2>2. PICK m \in Nat : m = b - 1
    OBVIOUS
  <2>3. Chosen(m + 1) = Chosen(m)
    BY <2>1, <2>2, ChosenSame DEF OrderInv, FrontInv
  <2>4. Placed(m, count)
    BY <2>1, <2>2 DEF OrderInv
  <2>5. \A i \in Chosen(m) : UpTo(m + 1, i) = UpTo(m, i)
    BY <2>3 DEF UpTo
  <2>6. Placed(m + 1, count)
    BY <2>3, <2>4, <2>5 DEF Placed
  <2>7. Placed(m + 1, count)'
    BY <2>1, <2>6 DEF Placed, UpTo, Chosen
  <2>8. Placed(b - 1, count)'
    BY <2>1, <2>2, <2>7
  <2> QED
    BY <2>1, <2>8 DEF OrderInv, FrontInv
<1>4. CASE Select
  <2>1. /\ pc = "select" /\ pc' = "run" /\ b <= Len(registry)
        /\ UNCHANGED << conf, registry, b, count, beyond >>
        /\ subtests' = [subtests EXCEPT ![count + 1].bench = registry[b].name]
        /\ Selected(conf, registry[b])
    BY <1>4 DEF Select, Slot, Current
  <2>2. PICK m \in Nat : m = b - 1
    OBVIOUS
  <2>3. registry[b] = Benchmarks[m + 1] /\ m + 1 <= MaxBenchmarks
    BY <2>1, <2>2, RegistryAssumption DEF OrderInv, FrontInv
  <2>4. /\ Chosen(m + 1) = Chosen(m) \cup {m + 1}
        /\ Cardinality(Chosen(m + 1)) = Cardinality(Chosen(m)) + 1
        /\ UpTo(m + 1, m + 1) = Chosen(m + 1)
        /\ \A i \in Chosen(m) : UpTo(m + 1, i) = UpTo(m, i)
    BY <2>1, <2>3, ChosenOneMore
  <2>5. Placed(m, count)
    BY <2>1, <2>2 DEF OrderInv
  <2>6. /\ count + 1 \in DOMAIN subtests
        /\ \A k \in DOMAIN subtests : subtests'[k].bench = IF k = count + 1 THEN registry[b].name
                                                          ELSE subtests[k].bench
        /\ 1..count \subseteq DOMAIN subtests
    <3>1. DOMAIN subtests = 1..Len(registry)
      <4>1. DOMAIN subtests = DOMAIN registry
        BY <2>1 DEF IInv, TypeOK
      <4> QED
        BY <4>1
    <3>2. count < b
      BY <2>1 DEF IInv, LoopInv
    <3> QED
      BY <3>1, <3>2, <2>1 DEF IInv, TypeOK, Subtests
  <2>7. Placed(m + 1, count + 1)'
    <3>1. Chosen(m + 1)' = Chosen(m + 1) /\ count' = count
      BY <2>1 DEF Chosen
    <3>2. \A i \in Chosen(m + 1) : UpTo(m + 1, i)' = UpTo(m + 1, i)
      BY <3>1 DEF UpTo
    <3>3. count = Cardinality(Chosen(m))
      BY <2>5 DEF Placed
    <3>4. ASSUME NEW i \in Chosen(m + 1)
          PROVE  subtests'[Cardinality(UpTo(m + 1, i))].bench = Benchmarks[i].name
      <4>1. CASE i = m + 1
        BY <2>3, <2>4, <2>6, <3>3, <4>1
      <4>2. CASE i \in Chosen(m)
        <5>1. Cardinality(UpTo(m, i)) \in 1..count
          BY <3>3, <4>2, SlotOfChosen
        <5>2. subtests[Cardinality(UpTo(m, i))].bench = Benchmarks[i].name
          BY <2>5, <4>2 DEF Placed
        <5> QED
          BY <2>4, <2>6, <4>2, <5>1, <5>2
      <4> QED
        BY <2>4, <4>1, <4>2
    <3> QED
      BY <2>4, <3>1, <3>2, <3>3, <3>4 DEF Placed
  <2>8. Placed(b, count + 1)'
    BY <2>1, <2>2, <2>7
  <2> QED
    BY <2>1, <2>8 DEF OrderInv, FrontInv
<1>5. CASE RunSingle \/ RunParallel \/ RunFails
  <2>1. pc = "run" /\ pc' = "cool" /\ count' = count + 1 /\ UNCHANGED << conf, registry, b >>
    BY <1>5 DEF RunSingle, RunParallel, RunFails, Ran
  <2>2. \A k \in Slots : subtests'[k].bench = subtests[k].bench
    BY <1>5, BenchKept
  <2>3. PICK m \in Nat : m = b
    OBVIOUS
  <2>4. Placed(m, count + 1)
    BY <2>1, <2>3 DEF OrderInv
  <2>5. \A k \in 1..Cardinality(Chosen(m)) : subtests'[k].bench = subtests[k].bench
    <3>1. 1..count + 1 \subseteq Slots
      BY <2>1 DEF IInv, TypeOK, LoopInv, Slots
    <3> QED
      BY <2>2, <2>4, <3>1 DEF Placed
  <2>6. Placed(m, count)'
    BY <2>1, <2>4, <2>5, PlacedKept DEF Placed
  <2>7. Placed(b, count)'
    BY <2>1, <2>3, <2>6
  <2> QED
    BY <2>1, <2>7 DEF OrderInv, FrontInv
<1>6. CASE Cooldown
  <2>1. /\ pc = "cool" /\ pc' = "select" /\ b' = b + 1
        /\ UNCHANGED << conf, registry, subtests, count, beyond >>
    BY <1>6 DEF Cooldown
  <2>2. PICK m \in Nat : m = b
    OBVIOUS
  <2>3. Placed(m, count)'
    BY <2>1, <2>2 DEF OrderInv, Placed, UpTo, Chosen
  <2>4. Placed(b - 1, count)'
    BY <2>1, <2>2, <2>3
  <2> QED
    BY <2>1, <2>4 DEF OrderInv, FrontInv
<1>7. CASE AssignScores
  <2>1. pc = "select" /\ pc' = "done" /\ b > Len(registry) /\ UNCHANGED << conf, registry, b, count >>
    BY <1>7 DEF AssignScores
  <2>2. \A k \in Slots : subtests'[k].bench = subtests[k].bench
    BY <1>7, BenchKept
  <2>3. PICK m \in Nat : m = b - 1
    OBVIOUS
  <2>4. Placed(m, count) /\ m = Len(registry)
    BY <2>1, <2>3 DEF OrderInv, IInv, LoopInv
  <2>5. Chosen(Len(Benchmarks)) = Chosen(m)
    <3>1. MaxBenchmarks \in Nat /\ Len(Benchmarks) \in Nat
      BY RegistryAssumption
    <3>2. CASE Len(Benchmarks) < MaxBenchmarks
      BY <2>1, <2>4, <3>2 DEF OrderInv, FrontInv
    <3>3. CASE ~(Len(Benchmarks) < MaxBenchmarks)
      <4>1. m = MaxBenchmarks
        BY <2>1, <2>4, <3>3 DEF OrderInv, FrontInv
      <4>2. MaxBenchmarks <= Len(Benchmarks)
        BY <3>1, <3>3
      <4> QED
        BY <4>1, <4>2, NoneBehind
    <3> QED
      BY <3>2, <3>3
  <2>6. Placed(Len(Benchmarks), count)
    BY <2>4, <2>5 DEF Placed, UpTo
  <2>7. \A k \in 1..Cardinality(Chosen(Len(Benchmarks))) : subtests'[k].bench = subtests[k].bench
    <3>1. 1..count \subseteq Slots
      BY <2>1 DEF IInv, TypeOK, LoopInv, Slots
    <3> QED
      BY <2>2, <2>6, <3>1 DEF Placed
  <2>8. Placed(Len(Benchmarks), count)'
    BY <2>1, <2>6, <2>7, PlacedKept, RegistryAssumption DEF Placed
  <2> QED
    BY <2>1, <2>8 DEF OrderInv, FrontInv
<1>8. CASE Done
  BY <1>8 DEF Done, vars, OrderInv, FrontInv, Placed, UpTo, Chosen
<1> QED
  BY <1>1, <1>2, <1>3, <1>4, <1>5, <1>6, <1>7, <1>8 DEF Next

-----------------------------------------------------------------------------
THEOREM Inductive == Spec => []IInv
<1>1. ASSUME IInv, [Next]_vars PROVE IInv'
  <2>1. CASE UNCHANGED vars
    BY <1>1, <2>1 DEF vars, IInv, TypeOK, LoopInv, FreshInv, ZeroInv, ScoreInv, OwnInv, Slots, Current
  <2>2. CASE Next
    BY <1>1, <2>1, <2>2, StartStep, LoopStep, SelectStep, RunStep, FailStep, ScoreStep DEF Next, Done
  <2> QED
    BY <1>1, <2>1, <2>2
<1> QED
  BY <1>1, InitInv, PTL DEF Spec

(* The slots in use hold the selected benchmarks, all that fit into the     *)
(* registry, once each and in the order of registration                     *)
(* (benchmark.c:12-15, harness.c:711-738), for any registry and any         *)
(* configurations.                                                          *)
THEOREM SelectedInOrder == Spec => []SelectionInOrder
<1>1. Init => OrderInv
  BY RegistryAssumption DEF Init, OrderInv, FrontInv
<1>2. IInv /\ OrderInv /\ [Next]_vars => OrderInv'
  <2>1. ASSUME OrderInv, UNCHANGED vars PROVE OrderInv'
    BY <2>1 DEF vars, OrderInv, FrontInv, Placed, UpTo, Chosen
  <2> QED
    BY <2>1, OrderStep
<1>3. IInv /\ OrderInv => SelectionInOrder
  <2>1. SUFFICES ASSUME IInv, OrderInv PROVE SelectionInOrder
    OBVIOUS
  <2>2. CASE pc \in {"register", "error"}
    <3>1. count = 0 /\ {i \in 1..0 : i <= MaxBenchmarks /\ Selected(conf, Benchmarks[i])} = {}
      BY <2>1, <2>2 DEF IInv, LoopInv
    <3> QED
      BY <2>2, <3>1, FS_EmptySet DEF SelectionInOrder
  <2>3. CASE pc \in {"select", "run", "cool", "done"}
    BY <2>1, <2>3 DEF OrderInv, SelectionInOrder, Placed, UpTo, Chosen
  <2> QED
    BY <2>1, <2>2, <2>3 DEF IInv, TypeOK
<1> QED
  BY <1>1, <1>2, <1>3, Inductive, PTL DEF Spec

(* What the loop and its runners leave in the array has the type of the     *)
(* array (harness.h:8-51), for any registry and any configurations.         *)
THEOREM TypeCorrect == Spec => []TypeOK
<1>1. IInv => TypeOK
  BY DEF IInv
<1> QED
  BY <1>1, Inductive, PTL

(* The statistics of a slot are those of its benchmark, in the three cases  *)
(* harness.c:144, harness.c:149 and stats.c:65 leave, however many          *)
(* benchmarks there are and whatever their sample counts.                   *)
THEOREM StatsOwn == Spec => []StatsOfOwnRun
<1>1. IInv => StatsOfOwnRun
  <2>1. SUFFICES ASSUME IInv, NEW k \in Slots
        PROVE  /\ OwnInv(k)
               /\ pc = "done" /\ ~subtests[k].stats.dirty
                  /\ (subtests[k].status = "failed" \/ subtests[k].stats.from = None) =>
                    subtests[k].score = "zero"
    BY DEF StatsOfOwnRun, OwnInv
  <2>2. subtests[k].status = "failed" => subtests[k].stats.from = None
    BY <2>1 DEF IInv, FreshInv
  <2> QED
    BY <2>1, <2>2 DEF IInv, ScoreInv
<1> QED
  BY <1>1, Inductive, PTL
================================================================================
