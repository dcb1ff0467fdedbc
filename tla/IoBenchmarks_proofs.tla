-------------------------- MODULE IoBenchmarks_proofs --------------------------
(***************************************************************************)
(* That every benchmark of IoBenchmarks reports what it moved and leaves    *)
(* nothing behind, for any number of messages, connections, datagrams,      *)
(* blocks, passes and instances, any capacity of a pipe or a backlog and    *)
(* any number of failures.  Each kind of benchmark has its invariant.       *)
(*                                                                          *)
(* First FixtureInv, of the benchmarks that share the files of a fixture    *)
(* under /tmp: what an instance has left to do (Scripted), who is left to   *)
(* remove each file (Owed) and to close each descriptor (OpenToClose), what *)
(* has been counted (Counters, Amounts), and, as long as nothing fails and  *)
(* nobody cleans up, which files are there (Made), open (Opened) and whole  *)
(* (Filled), so that an undisturbed measure has moved all it should at      *)
(* every point of it (WholeSoFar).  Then ConnInv, StreamInv and IpcInv.     *)
(***************************************************************************)
EXTENDS IoBenchmarks, FiniteSetTheorems, SequenceTheorems, TLAPS

-----------------------------------------------------------------------------
(* The benchmark, its callbacks as tables, and the parts of the invariant.  *)

FKind == IF bench \in FixtureKinds THEN bench ELSE "fs-copy"

Set(me) == instPhase[me] \in {"warmup", "measure"}

Active(me) == instPhase[me] \in {"init", "warmup", "measure", "cleanup"}

Togo(me) == Len(todo[me])

(* The step of a callback when t steps of it are left, and how long it is.  *)
OpAt(p, t) ==
  CASE p = "init" /\ FKind = "fs-meta" ->
         IF t = 5 THEN "mkdir" ELSE IF t \in {2, 4} THEN "creat" ELSE "close"
    [] p = "init" /\ FKind # "fs-meta" ->
         CASE t = 1 -> "close"
           [] t = 2 -> "fill"
           [] t = 3 /\ FKind \in {"fs-copy", "script-python", "script-shell"} -> "need"
           [] OTHER -> "creat"
    [] p = "cleanup" -> IF FKind = "fs-meta" /\ t = 1 THEN "rmdir" ELSE "unlink"
    [] p \in {"warmup", "measure"} /\ FKind = "fs-copy" ->
         CASE t % 5 = 0 -> "open" [] t % 5 = 4 -> "creat" [] t % 5 = 3 -> "copy" [] OTHER -> "close"
    [] p \in {"warmup", "measure"} /\ FKind = "fs-fsync" ->
         CASE t = 1 -> "close" [] t = 2 -> "rewrite"
           [] t = 3 /\ p = "measure" -> "need" [] OTHER -> "creat"
    [] p = "warmup" /\ FKind \in {"fs-rand-rw", "fs-uring", "fs-seq-rw"} ->
         IF t = 1 THEN "close" ELSE "open"
    [] p = "measure" /\ FKind \in {"fs-rand-rw", "fs-uring"} ->
         CASE t = 1 -> "close" [] t = 2 -> "pread" [] t = 3 -> "need" [] OTHER -> "open"
    [] p = "measure" /\ FKind = "fs-seq-rw" ->
         CASE t = 1 -> "close" [] t = 2 -> "read" [] OTHER -> "open"
    [] p = "measure" /\ FKind = "fs-meta" -> "stat"
    [] OTHER -> "spawn"

FileAt(p, t) ==
  IF \/ FKind = "fs-meta" /\ p = "init" /\ t \in {1, 2}
     \/ FKind = "fs-meta" /\ p = "measure" /\ t = 1
     \/ FKind = "fs-meta" /\ p = "cleanup" /\ t = 2
     \/ FKind = "fs-copy" /\ p = "cleanup" /\ t = 1
     \/ FKind = "fs-copy" /\ p \in {"warmup", "measure"} /\ t % 5 \in {1, 3, 4}
  THEN "dst" ELSE "src"

Longest(p) ==
  CASE p = "init" -> (CASE FKind = "fs-meta" -> 5 [] FKind = "fs-fsync" -> 0
                        [] FKind \in {"fs-copy", "script-python", "script-shell"} -> 4 [] OTHER -> 3)
    [] p = "warmup" -> (CASE FKind = "fs-copy" -> 5 [] FKind = "fs-fsync" -> 3 [] FKind = "fs-meta" -> 0
                          [] FKind \in {"script-python", "script-shell"} -> 1 [] OTHER -> 2)
    [] p = "measure" -> (CASE FKind = "fs-copy" -> 5 * Passes [] FKind = "fs-meta" -> 2
                           [] FKind = "fs-seq-rw" -> 3
                           [] FKind \in {"script-python", "script-shell"} -> 1 [] OTHER -> 4)
    [] OTHER -> (CASE FKind = "fs-copy" -> 2 [] FKind = "fs-meta" -> 3 [] OTHER -> 1)

Scripted ==
  \A me \in Instances :
    /\ ~Active(me) => todo[me] = << >> /\ instRet[me] = 0
    /\ instRet[me] # 0 => todo[me] = << >> /\ instPhase[me] \in {"init", "measure"}
    /\ todo[me] # << >> => Togo(me) <= Longest(instPhase[me])
    /\ \A j \in 1..Togo(me) :
         todo[me][j] = << OpAt(instPhase[me], Togo(me) - j + 1), FileAt(instPhase[me], Togo(me) - j + 1) >>

Pending(me, op, f) ==
  \E t \in 1..Togo(me) : OpAt(instPhase[me], t) = op /\ FileAt(instPhase[me], t) = f

(* Whoever may have made a file has yet to unlink it.                       *)
Owes(me, f) ==
  \/ Set(me)
  \/ /\ instPhase[me] = "init" /\ instRet[me] = 0
     /\ Pending(me, "need", "src") => fd[me]["src"] # Fixture!None
  \/ instPhase[me] = "cleanup" /\ Pending(me, "unlink", f)

OwesDir(me) ==
  \/ Set(me)
  \/ instPhase[me] = "init" /\ instRet[me] = 0
  \/ instPhase[me] = "cleanup" /\ Pending(me, "rmdir", "src")

Owed ==
  /\ \A f \in Fixture!Files : entry[f] # Fixture!None =>
       /\ f = "src" \/ FKind \in {"fs-copy", "fs-meta"}
       /\ \E me \in Instances : Owes(me, f)
  /\ dir => FKind = "fs-meta" /\ \E me \in Instances : OwesDir(me)

(* Whatever is open will be closed.                                         *)
OpenToClose ==
  \A me \in Instances, f \in Fixture!Files :
    fd[me][f] # Fixture!None => Pending(me, "close", f)

(* A loop counter is of the loop an instance is in.                         *)
Loops == Fixture!Transfers \cup {"spawn"}

Counters ==
  \A me \in Instances :
    /\ off[me] <= n[me]
    /\ Fixture!At(me, "read") => off[me] = n[me]
    /\ (\A op \in Loops : ~Fixture!At(me, op)) => n[me] = 0 /\ off[me] = 0

(* No call moves more than its loops: one of each pass of fs_copy.measure,  *)
(* which has done q of them and r steps of the next; at most one of any     *)
(* other callback.                                                          *)
Copies(me) == FKind = "fs-copy" /\ instPhase[me] = "measure"

InPass(me, q, r) == Togo(me) = 5 * (Passes - q) - r

Amounts ==
  \A me \in Instances :
    /\ moved[me] \in Nat
    /\ Copies(me) =>
         \E q \in 0..Passes, r \in 0..4 :
           /\ InPass(me, q, r)
           /\ r < 2 => moved[me] <= q * Blocks
           /\ r = 2 => moved[me] <= q * Blocks + n[me]
           /\ r > 2 => moved[me] <= q * Blocks + Blocks
    /\ FKind = "fs-meta" =>
         /\ instPhase[me] = "measure" => moved[me] + Togo(me) <= 2
         /\ instPhase[me] # "measure" => moved[me] = 0
    /\ FKind # "fs-meta" /\ ~Copies(me) =>
         /\ moved[me] <= Blocks
         /\ \A t \in 1..Togo(me) : OpAt(instPhase[me], t) \in Loops =>
              moved[me] <= IF t = Togo(me) THEN n[me] ELSE 0

(* No call has failed and nobody cleans up, so nobody ever has.             *)
Calm == faults = 0 /\ \A q \in Instances : instPhase[q] \notin {"cleanup", "over"}

(* What a descriptor or a count of set-up instances says.                   *)
Opened ==
  Calm => \A me \in Instances, f \in Fixture!Files :
            fd[me][f] # Fixture!None => fd[me][f] = entry[f]

EntriesApart == entry["src"] # Fixture!None => entry["src"] # entry["dst"]

SinceSet ==
  \A me \in Instances, q \in Instances : q \in since[me] => instPhase[q] \notin {"new", "init"}

(* The files that init makes are there once it has, whoever has.            *)
MadeBy(f) == FKind = "fs-meta" \/ (FKind # "fs-fsync" /\ f = "src")

Made ==
  Calm => \A me \in Instances :
    /\ instPhase[me] = "init" => instRet[me] = 0
    /\ FKind = "fs-meta" =>
         /\ Set(me) => dir
         /\ instPhase[me] = "init" /\ ~Pending(me, "mkdir", "src") => dir
    /\ \A f \in Fixture!Files : MadeBy(f) =>
         /\ Set(me) => entry[f] # Fixture!None
         /\ instPhase[me] = "init" /\ ~Pending(me, "creat", f) =>
              /\ entry[f] # Fixture!None
              /\ Pending(me, "close", f) => fd[me][f] # Fixture!None

(* A file is whole unless somebody is on the way to make it so.             *)
Filling(me) ==
  /\ instPhase[me] = "init" /\ ~Pending(me, "creat", "src") /\ Pending(me, "fill", "src")
  /\ Fixture!At(me, "fill") => off[me] = n[me] /\ off[me] <= size[entry["src"]]

Filled ==
  Calm /\ FKind \notin {"fs-fsync", "fs-meta"} /\ entry["src"] # Fixture!None =>
    size[entry["src"]] = Blocks \/ \E me \in Instances : Filling(me)

(* A measure that nobody disturbs has moved all it should at every point.   *)
Undisturbed(me) ==
  /\ instPhase[me] = "measure" /\ faults = 0
  /\ \A q \in Instances \ {me} : instPhase[q] = "new" \/ (q \in since[me] /\ Set(q))

Holds(me, f) == fd[me][f] # Fixture!None

InLoop(me) == moved[me] = n[me] /\ Holds(me, "src")

SoFar(me) ==
  /\ FKind \in {"fs-fsync", "fs-rand-rw", "fs-uring"} =>
       /\ Togo(me) > 2 => moved[me] = 0
       /\ Togo(me) = 3 => Holds(me, "src")
       /\ Togo(me) = 2 => InLoop(me)
       /\ Togo(me) < 2 => moved[me] = Blocks
  /\ FKind = "fs-seq-rw" =>
       /\ Togo(me) > 2 => moved[me] = 0
       /\ Togo(me) = 2 => InLoop(me)
       /\ Togo(me) < 2 => moved[me] = Blocks
  /\ FKind = "fs-meta" => moved[me] = 2 - Togo(me)
  /\ FKind \in {"script-python", "script-shell"} =>
       moved[me] = IF Togo(me) = 1 THEN n[me] ELSE Blocks
  /\ FKind = "fs-copy" =>
       \E q \in 0..Passes, r \in 0..4 :
         /\ InPass(me, q, r)
         /\ r < 2 => moved[me] = q * Blocks
         /\ r = 2 => moved[me] = q * Blocks + n[me] /\ Holds(me, "dst")
         /\ r > 2 => moved[me] = q * Blocks + Blocks
         /\ r \in {1, 2} => Holds(me, "src")

WholeSoFar == \A me \in Instances : Undisturbed(me) => instRet[me] = 0 /\ SoFar(me)

(* What the constants of the fixtures are.                                  *)
LEMMA FixtureSizes ==
  /\ IsFiniteSet(Instances) /\ Blocks \in Nat \ {0} /\ Passes \in Nat \ {0}
  /\ FixtureCalls \in Nat \ {0} /\ MaxFaults \in Nat
  BY FixtureAssumption DEF Fixture!FixtureAssumption, Fixture!IsFiniteSet, IsFiniteSet

(* The step of a pass is the remainder of what is left to do by five.       *)
LEMMA Fives == \A a \in Int, b \in 0..4 : (5 * a + b) % 5 = b
  OBVIOUS

(* A fixture that does not run counts as fs_copy.                           *)
LEMMA FixtureKind == FKind \in FixtureKinds
  BY DEF FKind, FixtureKinds

FixtureScript(s, p) ==
  /\ s \in Seq(Fixture!Ops \X Fixture!Files)
  /\ Len(s) = Longest(p)
  /\ \A j \in 1..Longest(p) : s[j] = << OpAt(p, Longest(p) - j + 1), FileAt(p, Longest(p) - j + 1) >>

(* fs_copy.measure is COPY_PASSES times the five calls of one copy          *)
(* (fs_copy.c:56-82).                                                       *)
LEMMA CopyPasses ==
  ASSUME FKind = "fs-copy"
  PROVE  FixtureScript(Fixture!fs_copy.measure, "measure")
<1> DEFINE c == << << "open", "src" >>, << "creat", "dst" >>, << "copy", "dst" >>,
                   << "close", "src" >>, << "close", "dst" >> >>
           s == [j \in 1..5 * Passes |-> c[((j - 1) % 5) + 1]]
<1>1. Fixture!fs_copy.measure = s
  BY DEF Fixture!fs_copy
<1>2. /\ c[1] = << "open", "src" >> /\ c[2] = << "creat", "dst" >> /\ c[3] = << "copy", "dst" >>
      /\ c[4] = << "close", "src" >> /\ c[5] = << "close", "dst" >>
  OBVIOUS
<1>3. \A k \in 1..5 : c[k] \in Fixture!Ops \X Fixture!Files
  BY <1>2 DEF Fixture!Ops, Fixture!Files
<1> HIDE DEF c
<1>4. 5 * Passes \in Nat /\ Longest("measure") = 5 * Passes
  BY FixtureSizes DEF Longest
<1>5. \A j \in 1..5 * Passes : ((j - 1) % 5) + 1 \in 1..5
  BY <1>4
<1>6. s \in Seq(Fixture!Ops \X Fixture!Files) /\ Len(s) = 5 * Passes
  BY <1>3, <1>4, <1>5
<1>7. ASSUME NEW j \in 1..5 * Passes
      PROVE  s[j] = << OpAt("measure", 5 * Passes - j + 1), FileAt("measure", 5 * Passes - j + 1) >>
  <2> DEFINE t == 5 * Passes - j + 1
  <2>1. s[j] = c[((j - 1) % 5) + 1]
    OBVIOUS
  <2>2. \/ (j - 1) % 5 = 0 /\ t % 5 = 0
        \/ (j - 1) % 5 = 1 /\ t % 5 = 4
        \/ (j - 1) % 5 = 2 /\ t % 5 = 3
        \/ (j - 1) % 5 = 3 /\ t % 5 = 2
        \/ (j - 1) % 5 = 4 /\ t % 5 = 1
    <3> DEFINE a == (j - 1) \div 5
               b == (j - 1) % 5
    <3>1. j = 5 * a + b + 1 /\ a \in Nat /\ b \in 0..4
      BY FixtureSizes
    <3> HIDE DEF a, b
    <3>2. t = 5 * (Passes - a) + (0 - b) /\ t = 5 * (Passes - a - 1) + (5 - b)
      BY <3>1, FixtureSizes
    <3>3. b = 0 => t % 5 = 0
      BY <3>1, <3>2, FixtureSizes, Fives
    <3>4. b \in 1..4 => t % 5 = 5 - b
      BY <3>1, <3>2, FixtureSizes, Fives
    <3>5. (b = 0 /\ t % 5 = 0) \/ (b = 1 /\ t % 5 = 4) \/ (b = 2 /\ t % 5 = 3)
          \/ (b = 3 /\ t % 5 = 2) \/ (b = 4 /\ t % 5 = 1)
      BY <3>1, <3>3, <3>4
    <3> QED
      BY <3>5 DEF b
  <2> HIDE DEF t, s
  <2>3. s[j] = << OpAt("measure", t), FileAt("measure", t) >>
    BY <1>2, <2>1, <2>2 DEF OpAt, FileAt
  <2> QED
    BY <2>3 DEF t
<1> HIDE DEF s
<1> QED
  BY <1>1, <1>4, <1>6, <1>7 DEF FixtureScript

(* A callback is what the tables say of it.                                 *)
LEMMA CallbackScripts ==
  ASSUME NEW p \in {"init", "warmup", "measure", "cleanup"}
  PROVE  FixtureScript(Fixture!Callbacks[FKind][p], p)
<1>1. FKind \in {"fs-copy", "fs-fsync", "fs-meta", "fs-rand-rw", "fs-seq-rw", "fs-uring",
                "script-python", "script-shell"}
  BY FixtureKind DEF FixtureKinds
<1>2. PICK s : s = Fixture!Callbacks[FKind][p]
  OBVIOUS
<1>3. SUFFICES FixtureScript(s, p)
  BY <1>2
<1>4. CASE FKind = "fs-copy" /\ p = "measure"
  <2>1. s = Fixture!fs_copy.measure
    BY <1>1, <1>2, <1>4 DEF Fixture!Callbacks
  <2> QED
    BY <1>4, <2>1, CopyPasses
<1>5. CASE \/ FKind = "fs-copy" /\ p = "init"
           \/ FKind \in {"script-python", "script-shell"} /\ p = "init"
  <2>1. s = << << "creat", "src" >>, << "need", "src" >>, << "fill", "src" >>, << "close", "src" >> >>
    BY <1>1, <1>2, <1>5 DEF Fixture!Callbacks, Fixture!fs_copy, Fixture!script_python,
         Fixture!script_shell, Fixture!Gone
  <2>2. Len(s) = 4 /\ Longest(p) = 4
    BY <1>5, <2>1 DEF Longest
  <2>3. s \in Seq(Fixture!Ops \X Fixture!Files)
    BY <2>1 DEF Fixture!Ops, Fixture!Files
  <2>4. \A j \in 1..4 : s[j] = << OpAt(p, 4 - j + 1), FileAt(p, 4 - j + 1) >>
    BY SMTT(30), <1>5, <2>1 DEF OpAt, FileAt
  <2> QED
    BY <2>2, <2>3, <2>4 DEF FixtureScript
<1>6. CASE FKind = "fs-copy" /\ p = "warmup"
  <2>1. s = << << "open", "src" >>, << "creat", "dst" >>, << "copy", "dst" >>, << "close", "src" >>, << "close", "dst" >> >>
    BY <1>1, <1>2, <1>6 DEF Fixture!Callbacks, Fixture!fs_copy
  <2>2. Len(s) = 5 /\ Longest(p) = 5
    BY <1>6, <2>1 DEF Longest
  <2>3. s \in Seq(Fixture!Ops \X Fixture!Files)
    BY <2>1 DEF Fixture!Ops, Fixture!Files
  <2>4. \A j \in 1..5 : s[j] = << OpAt(p, 5 - j + 1), FileAt(p, 5 - j + 1) >>
    BY SMTT(30), <1>6, <2>1 DEF OpAt, FileAt
  <2> QED
    BY <2>2, <2>3, <2>4 DEF FixtureScript
<1>7. CASE FKind = "fs-copy" /\ p = "cleanup"
  <2>1. s = << << "unlink", "src" >>, << "unlink", "dst" >> >>
    BY <1>1, <1>2, <1>7 DEF Fixture!Callbacks, Fixture!fs_copy
  <2>2. Len(s) = 2 /\ Longest(p) = 2
    BY <1>7, <2>1 DEF Longest
  <2>3. s \in Seq(Fixture!Ops \X Fixture!Files)
    BY <2>1 DEF Fixture!Ops, Fixture!Files
  <2>4. \A j \in 1..2 : s[j] = << OpAt(p, 2 - j + 1), FileAt(p, 2 - j + 1) >>
    BY SMTT(30), <1>7, <2>1 DEF OpAt, FileAt
  <2> QED
    BY <2>2, <2>3, <2>4 DEF FixtureScript
<1>8. CASE FKind = "fs-fsync" /\ p = "init"
  <2>1. s = << >>
    BY <1>1, <1>2, <1>8 DEF Fixture!Callbacks, Fixture!fs_fsync, Fixture!Gone
  <2>2. Len(s) = 0 /\ Longest(p) = 0
    BY <1>8, <2>1 DEF Longest
  <2>3. s \in Seq(Fixture!Ops \X Fixture!Files)
    BY <2>1 DEF Fixture!Ops, Fixture!Files
  <2> QED
    BY <2>2, <2>3 DEF FixtureScript
<1>9. CASE FKind = "fs-fsync" /\ p = "warmup"
  <2>1. s = << << "creat", "src" >>, << "rewrite", "src" >>, << "close", "src" >> >>
    BY <1>1, <1>2, <1>9 DEF Fixture!Callbacks, Fixture!fs_fsync, Fixture!Gone
  <2>2. Len(s) = 3 /\ Longest(p) = 3
    BY <1>9, <2>1 DEF Longest
  <2>3. s \in Seq(Fixture!Ops \X Fixture!Files)
    BY <2>1 DEF Fixture!Ops, Fixture!Files
  <2>4. \A j \in 1..3 : s[j] = << OpAt(p, 3 - j + 1), FileAt(p, 3 - j + 1) >>
    BY SMTT(30), <1>9, <2>1 DEF OpAt, FileAt
  <2> QED
    BY <2>2, <2>3, <2>4 DEF FixtureScript
<1>10. CASE FKind = "fs-fsync" /\ p = "measure"
  <2>1. s = << << "creat", "src" >>, << "need", "src" >>, << "rewrite", "src" >>, << "close", "src" >> >>
    BY <1>1, <1>2, <1>10 DEF Fixture!Callbacks, Fixture!fs_fsync, Fixture!Gone
  <2>2. Len(s) = 4 /\ Longest(p) = 4
    BY <1>10, <2>1 DEF Longest
  <2>3. s \in Seq(Fixture!Ops \X Fixture!Files)
    BY <2>1 DEF Fixture!Ops, Fixture!Files
  <2>4. \A j \in 1..4 : s[j] = << OpAt(p, 4 - j + 1), FileAt(p, 4 - j + 1) >>
    BY SMTT(30), <1>10, <2>1 DEF OpAt, FileAt
  <2> QED
    BY <2>2, <2>3, <2>4 DEF FixtureScript
<1>11. CASE \/ FKind = "fs-fsync" /\ p = "cleanup"
            \/ FKind \in {"fs-rand-rw", "fs-uring"} /\ p = "cleanup"
            \/ FKind = "fs-seq-rw" /\ p = "cleanup"
            \/ FKind \in {"script-python", "script-shell"} /\ p = "cleanup"
  <2>1. s = << << "unlink", "src" >> >>
    BY <1>1, <1>2, <1>11 DEF Fixture!Callbacks, Fixture!fs_fsync, Fixture!Gone, Fixture!fs_rand_rw,
         Fixture!fs_uring, Fixture!Made, Fixture!Peek, Fixture!Preads, Fixture!fs_seq_rw,
         Fixture!script_python, Fixture!script_shell
  <2>2. Len(s) = 1 /\ Longest(p) = 1
    BY <1>11, <2>1 DEF Longest
  <2>3. s \in Seq(Fixture!Ops \X Fixture!Files)
    BY <2>1 DEF Fixture!Ops, Fixture!Files
  <2>4. \A j \in 1..1 : s[j] = << OpAt(p, 1 - j + 1), FileAt(p, 1 - j + 1) >>
    BY SMTT(30), <1>11, <2>1 DEF OpAt, FileAt
  <2> QED
    BY <2>2, <2>3, <2>4 DEF FixtureScript
<1>12. CASE FKind = "fs-meta" /\ p = "init"
  <2>1. s = << << "mkdir", "src" >>, << "creat", "src" >>, << "close", "src" >>, << "creat", "dst" >>, << "close", "dst" >> >>
    BY <1>1, <1>2, <1>12 DEF Fixture!Callbacks, Fixture!fs_meta
  <2>2. Len(s) = 5 /\ Longest(p) = 5
    BY <1>12, <2>1 DEF Longest
  <2>3. s \in Seq(Fixture!Ops \X Fixture!Files)
    BY <2>1 DEF Fixture!Ops, Fixture!Files
  <2>4. \A j \in 1..5 : s[j] = << OpAt(p, 5 - j + 1), FileAt(p, 5 - j + 1) >>
    BY SMTT(30), <1>12, <2>1 DEF OpAt, FileAt
  <2> QED
    BY <2>2, <2>3, <2>4 DEF FixtureScript
<1>13. CASE FKind = "fs-meta" /\ p = "warmup"
  <2>1. s = << >>
    BY <1>1, <1>2, <1>13 DEF Fixture!Callbacks, Fixture!fs_meta
  <2>2. Len(s) = 0 /\ Longest(p) = 0
    BY <1>13, <2>1 DEF Longest
  <2>3. s \in Seq(Fixture!Ops \X Fixture!Files)
    BY <2>1 DEF Fixture!Ops, Fixture!Files
  <2> QED
    BY <2>2, <2>3 DEF FixtureScript
<1>14. CASE FKind = "fs-meta" /\ p = "measure"
  <2>1. s = << << "stat", "src" >>, << "stat", "dst" >> >>
    BY <1>1, <1>2, <1>14 DEF Fixture!Callbacks, Fixture!fs_meta
  <2>2. Len(s) = 2 /\ Longest(p) = 2
    BY <1>14, <2>1 DEF Longest
  <2>3. s \in Seq(Fixture!Ops \X Fixture!Files)
    BY <2>1 DEF Fixture!Ops, Fixture!Files
  <2>4. \A j \in 1..2 : s[j] = << OpAt(p, 2 - j + 1), FileAt(p, 2 - j + 1) >>
    BY SMTT(30), <1>14, <2>1 DEF OpAt, FileAt
  <2> QED
    BY <2>2, <2>3, <2>4 DEF FixtureScript
<1>15. CASE FKind = "fs-meta" /\ p = "cleanup"
  <2>1. s = << << "unlink", "src" >>, << "unlink", "dst" >>, << "rmdir", "src" >> >>
    BY <1>1, <1>2, <1>15 DEF Fixture!Callbacks, Fixture!fs_meta
  <2>2. Len(s) = 3 /\ Longest(p) = 3
    BY <1>15, <2>1 DEF Longest
  <2>3. s \in Seq(Fixture!Ops \X Fixture!Files)
    BY <2>1 DEF Fixture!Ops, Fixture!Files
  <2>4. \A j \in 1..3 : s[j] = << OpAt(p, 3 - j + 1), FileAt(p, 3 - j + 1) >>
    BY SMTT(30), <1>15, <2>1 DEF OpAt, FileAt
  <2> QED
    BY <2>2, <2>3, <2>4 DEF FixtureScript
<1>16. CASE \/ FKind \in {"fs-rand-rw", "fs-uring"} /\ p = "init"
            \/ FKind = "fs-seq-rw" /\ p = "init"
  <2>1. s = << << "creat", "src" >>, << "fill", "src" >>, << "close", "src" >> >>
    BY <1>1, <1>2, <1>16 DEF Fixture!Callbacks, Fixture!fs_rand_rw, Fixture!fs_uring, Fixture!Made,
         Fixture!Peek, Fixture!Preads, Fixture!Gone, Fixture!fs_seq_rw
  <2>2. Len(s) = 3 /\ Longest(p) = 3
    BY <1>16, <2>1 DEF Longest
  <2>3. s \in Seq(Fixture!Ops \X Fixture!Files)
    BY <2>1 DEF Fixture!Ops, Fixture!Files
  <2>4. \A j \in 1..3 : s[j] = << OpAt(p, 3 - j + 1), FileAt(p, 3 - j + 1) >>
    BY SMTT(30), <1>16, <2>1 DEF OpAt, FileAt
  <2> QED
    BY <2>2, <2>3, <2>4 DEF FixtureScript
<1>17. CASE p = "warmup" /\ FKind \in {"fs-rand-rw", "fs-uring", "fs-seq-rw"}
  <2>1. s = << << "open", "src" >>, << "close", "src" >> >>
    BY <1>1, <1>2, <1>17 DEF Fixture!Callbacks, Fixture!fs_rand_rw, Fixture!fs_uring, Fixture!Made,
         Fixture!Peek, Fixture!Preads, Fixture!Gone, Fixture!fs_seq_rw
  <2>2. Len(s) = 2 /\ Longest(p) = 2
    BY <1>17, <2>1 DEF Longest
  <2>3. s \in Seq(Fixture!Ops \X Fixture!Files)
    BY <2>1 DEF Fixture!Ops, Fixture!Files
  <2>4. OpAt(p, 1) = "close" /\ OpAt(p, 2) = "open"
    BY <1>17 DEF OpAt
  <2>5. FileAt(p, 1) = "src" /\ FileAt(p, 2) = "src"
    BY <1>17 DEF FileAt
  <2>6. s[1] = << OpAt(p, 2), FileAt(p, 2) >> /\ s[2] = << OpAt(p, 1), FileAt(p, 1) >>
    BY <2>1, <2>4, <2>5
  <2>7. ASSUME NEW j \in 1..2 PROVE s[j] = << OpAt(p, 2 - j + 1), FileAt(p, 2 - j + 1) >>
    <3>1. CASE j = 1
      BY <2>6, <3>1
    <3>2. CASE j = 2
      BY <2>6, <3>2
    <3> QED
      BY <3>1, <3>2
  <2> QED
    BY <2>2, <2>3, <2>7 DEF FixtureScript
<1>18. CASE FKind \in {"fs-rand-rw", "fs-uring"} /\ p = "measure"
  <2>1. s = << << "open", "src" >>, << "need", "src" >>, << "pread", "src" >>, << "close", "src" >> >>
    BY <1>1, <1>2, <1>18 DEF Fixture!Callbacks, Fixture!fs_rand_rw, Fixture!fs_uring, Fixture!Made,
         Fixture!Peek, Fixture!Preads, Fixture!Gone
  <2>2. Len(s) = 4 /\ Longest(p) = 4
    BY <1>18, <2>1 DEF Longest
  <2>3. s \in Seq(Fixture!Ops \X Fixture!Files)
    BY <2>1 DEF Fixture!Ops, Fixture!Files
  <2>4. \A j \in 1..4 : s[j] = << OpAt(p, 4 - j + 1), FileAt(p, 4 - j + 1) >>
    BY SMTT(30), <1>18, <2>1 DEF OpAt, FileAt
  <2> QED
    BY <2>2, <2>3, <2>4 DEF FixtureScript
<1>19. CASE FKind = "fs-seq-rw" /\ p = "measure"
  <2>1. s = << << "open", "src" >>, << "read", "src" >>, << "close", "src" >> >>
    BY <1>1, <1>2, <1>19 DEF Fixture!Callbacks, Fixture!fs_seq_rw, Fixture!Made, Fixture!Peek,
         Fixture!Gone
  <2>2. Len(s) = 3 /\ Longest(p) = 3
    BY <1>19, <2>1 DEF Longest
  <2>3. s \in Seq(Fixture!Ops \X Fixture!Files)
    BY <2>1 DEF Fixture!Ops, Fixture!Files
  <2>4. \A j \in 1..3 : s[j] = << OpAt(p, 3 - j + 1), FileAt(p, 3 - j + 1) >>
    BY SMTT(30), <1>19, <2>1 DEF OpAt, FileAt
  <2> QED
    BY <2>2, <2>3, <2>4 DEF FixtureScript
<1>20. CASE FKind \in {"script-python", "script-shell"} /\ p = "warmup"
  <2>1. s = << << "spawn", "src" >> >>
    BY <1>1, <1>2, <1>20 DEF Fixture!Callbacks, Fixture!script_python, Fixture!script_shell,
         Fixture!Gone
  <2>2. Len(s) = 1 /\ Longest(p) = 1
    BY <1>20, <2>1 DEF Longest
  <2>3. s \in Seq(Fixture!Ops \X Fixture!Files)
    BY <2>1 DEF Fixture!Ops, Fixture!Files
  <2>4. \A j \in 1..1 : s[j] = << OpAt(p, 1 - j + 1), FileAt(p, 1 - j + 1) >>
    BY SMTT(30), <1>20, <2>1 DEF OpAt, FileAt
  <2> QED
    BY <2>2, <2>3, <2>4 DEF FixtureScript
<1>21. CASE FKind \in {"script-python", "script-shell"} /\ p = "measure"
  <2>1. s = << << "spawn", "src" >> >>
    BY <1>1, <1>2, <1>21 DEF Fixture!Callbacks, Fixture!script_python, Fixture!script_shell,
         Fixture!Gone
  <2>2. Len(s) = 1 /\ Longest(p) = 1
    BY <1>21, <2>1 DEF Longest
  <2>3. s \in Seq(Fixture!Ops \X Fixture!Files)
    BY <2>1 DEF Fixture!Ops, Fixture!Files
  <2>4. \A j \in 1..1 : s[j] = << OpAt(p, 1 - j + 1), FileAt(p, 1 - j + 1) >>
    BY SMTT(30), <1>21, <2>1 DEF OpAt, FileAt
  <2> QED
    BY <2>2, <2>3, <2>4 DEF FixtureScript
<1>22. CASE p = "init"
  BY <1>1, <1>5, <1>8, <1>12, <1>16, <1>22
<1>23. CASE p = "warmup"
  BY <1>1, <1>6, <1>9, <1>13, <1>17, <1>20, <1>23
<1>24. CASE p = "measure"
  BY <1>1, <1>4, <1>10, <1>14, <1>18, <1>19, <1>21, <1>24
<1>25. CASE p = "cleanup"
  BY <1>1, <1>7, <1>11, <1>15, <1>25
<1> QED
  BY <1>22, <1>23, <1>24, <1>25

-----------------------------------------------------------------------------
(* The benchmark stays the same, and so do its tables.                      *)
LEMMA TablesStay ==
  ASSUME bench' = bench, NEW p, NEW t
  PROVE  OpAt(p, t)' = OpAt(p, t) /\ FileAt(p, t)' = FileAt(p, t) /\ Longest(p)' = Longest(p)
  BY DEF OpAt, FileAt, Longest, FKind

(* An instance that has something to do is at the step its table says.      *)
LEMMA AtStep ==
  ASSUME Fixture!TypeOK, Scripted, NEW me \in Instances, todo[me] # << >>
  PROVE  /\ Togo(me) \in 1..Longest(instPhase[me]) /\ Active(me) /\ instRet[me] = 0
         /\ \A op : Fixture!At(me, op) <=> OpAt(instPhase[me], Togo(me)) = op
         /\ Fixture!File(me) = FileAt(instPhase[me], Togo(me))
<1>1. todo[me] \in Seq(Fixture!Ops \X Fixture!Files)
  BY DEF Fixture!TypeOK
<1>2. Togo(me) \in Nat /\ Togo(me) > 0 /\ Head(todo[me]) = todo[me][1]
  BY <1>1 DEF Togo
<1>3. todo[me][1] = << OpAt(instPhase[me], Togo(me)), FileAt(instPhase[me], Togo(me)) >>
  <2>1. Togo(me) - 1 + 1 = Togo(me) /\ 1 \in 1..Togo(me)
    BY <1>2
  <2> QED
    BY <2>1 DEF Scripted
<1>4. Togo(me) <= Longest(instPhase[me]) /\ Active(me) /\ instRet[me] = 0
  BY DEF Scripted
<1>5. Longest(instPhase[me]) \in Nat
  BY FixtureSizes DEF Longest
<1> QED
  BY <1>2, <1>3, <1>4, <1>5 DEF Fixture!At, Fixture!File

Advances(me) ==
  /\ todo' = [todo EXCEPT ![me] = Tail(@)]
  /\ n' = [n EXCEPT ![me] = 0] /\ off' = [off EXCEPT ![me] = 0]

Gives(me) == todo' = [todo EXCEPT ![me] = << >>] /\ instRet' = [instRet EXCEPT ![me] = -1]
             /\ UNCHANGED << n, off >>

(* A step but a call goes on in the callback, stays in a loop of it, or     *)
(* gives up.                                                                *)
LEMMA StepKinds ==
  ASSUME Fixture!TypeOK, NEW me \in Instances, Fixture!Step(me), ~Fixture!Call(me)
  PROVE  /\ todo[me] # << >> /\ UNCHANGED << instPhase, instCalls, since >>
         /\ \/ Advances(me) /\ instRet' = instRet
            \/ todo' = todo /\ instRet' = instRet /\ \E op \in Fixture!Transfers \cup {"spawn"} : Fixture!At(me, op)
            \/ Gives(me) /\ Fixture!At(me, "need") /\ fd[me][Fixture!File(me)] = Fixture!None
               /\ UNCHANGED << fd, moved, entry, size, dir, faults >>
<1> USE DEF Advances, Gives, Fixture!Advance, Fixture!Continue
<1>1. CASE Fixture!Creat(me) \/ Fixture!Open(me) \/ Fixture!OpenFails(me)
  BY <1>1 DEF Fixture!Creat, Fixture!Open, Fixture!OpenFails, Fixture!At
<1>2. CASE Fixture!Need(me)
  BY <1>2 DEF Fixture!Need, Fixture!At, Fixture!Handle, Fixture!diskVars
<1>3. CASE Fixture!Skip(me) \/ Fixture!Close(me) \/ Fixture!Stat(me)
  BY <1>3 DEF Fixture!Skip, Fixture!Close, Fixture!Stat, Fixture!At
<1>4. CASE Fixture!Unlink(me) \/ Fixture!Mkdir(me) \/ Fixture!Rmdir(me)
  BY <1>4 DEF Fixture!Unlink, Fixture!Mkdir, Fixture!Rmdir, Fixture!At
<1>5. CASE Fixture!Fill(me) \/ Fixture!Rewrite(me) \/ Fixture!Read(me)
  BY <1>5 DEF Fixture!Fill, Fixture!Rewrite, Fixture!Read, Fixture!At, Fixture!Transfers
<1>6. CASE Fixture!Pread(me) \/ Fixture!Copy(me) \/ Fixture!Spawn(me)
  BY <1>6 DEF Fixture!Pread, Fixture!Copy, Fixture!Spawn, Fixture!At, Fixture!Transfers
<1> QED
  BY <1>1, <1>2, <1>3, <1>4, <1>5, <1>6 DEF Fixture!Step

(* A step is of one instance.                                               *)
LEMMA OthersStay ==
  ASSUME Fixture!TypeOK, NEW me \in Instances, Fixture!Step(me), NEW q \in Instances, q # me
  PROVE  /\ instPhase'[q] = instPhase[q] /\ todo'[q] = todo[q] /\ fd'[q] = fd[q]
         /\ n'[q] = n[q] /\ off'[q] = off[q] /\ moved'[q] = moved[q] /\ instRet'[q] = instRet[q]
         /\ instCalls'[q] = instCalls[q] /\ since'[q] = since[q]
<1> USE DEF Fixture!TypeOK, Fixture!Advance, Fixture!Continue, Fixture!Move
<1>1. CASE Fixture!Creat(me)
  BY <1>1 DEF Fixture!Creat
<1>2. CASE Fixture!Open(me) \/ Fixture!OpenFails(me)
  BY <1>2 DEF Fixture!Open, Fixture!OpenFails
<1>3. CASE Fixture!Need(me) \/ Fixture!Skip(me)
  BY <1>3 DEF Fixture!Need, Fixture!Skip
<1>4. CASE Fixture!Close(me) \/ Fixture!Stat(me)
  BY <1>4 DEF Fixture!Close, Fixture!Stat
<1>5. CASE Fixture!Unlink(me) \/ Fixture!Mkdir(me) \/ Fixture!Rmdir(me)
  BY <1>5 DEF Fixture!Unlink, Fixture!Mkdir, Fixture!Rmdir
<1>6. CASE Fixture!Fill(me)
  BY <1>6 DEF Fixture!Fill
<1>7. CASE Fixture!Rewrite(me)
  BY <1>7 DEF Fixture!Rewrite
<1>8. CASE Fixture!Read(me)
  BY <1>8 DEF Fixture!Read
<1>9. CASE Fixture!Pread(me)
  BY <1>9 DEF Fixture!Pread
<1>10. CASE Fixture!Copy(me)
  BY <1>10 DEF Fixture!Copy
<1>11. CASE Fixture!Spawn(me)
  BY <1>11 DEF Fixture!Spawn
<1>12. CASE Fixture!Call(me)
  BY <1>12 DEF Fixture!Call
<1> QED
  BY <1>1, <1>2, <1>3, <1>4, <1>5, <1>6, <1>7, <1>8, <1>9, <1>10, <1>11, <1>12 DEF Fixture!Step

(* The callbacks of an instance in their order.                             *)
LEMMA CallFacts ==
  ASSUME Fixture!TypeOK, Scripted, bench' = bench, NEW me \in Instances, Fixture!Call(me)
  PROVE  /\ todo[me] = << >> /\ instRet'[me] = 0 /\ moved' = [moved EXCEPT ![me] = 0]
         /\ UNCHANGED << fd, n, off, entry, size, dir, faults >>
         /\ instPhase' = [instPhase EXCEPT ![me] = instPhase'[me]]
         /\ \/ instPhase[me] = "new" /\ instPhase'[me] = "init"
            \/ instPhase[me] = "init" /\ instRet[me] = 0 /\ instPhase'[me] = "warmup"
            \/ instPhase[me] = "init" /\ instRet[me] # 0 /\ instPhase'[me] = "over"
            \/ instPhase[me] = "warmup" /\ instPhase'[me] = "measure"
            \/ instPhase[me] = "measure" /\ instRet[me] = 0 /\ instPhase'[me] = "measure"
            \/ instPhase[me] = "measure" /\ instPhase'[me] = "cleanup"
            \/ instPhase[me] = "cleanup" /\ instPhase'[me] = "over"
         /\ instPhase'[me] = "over" => todo'[me] = << >>
         /\ instPhase'[me] # "over" => FixtureScript(todo'[me], instPhase'[me])
         /\ instPhase'[me] = "measure" =>
              /\ instCalls[me] < FixtureCalls /\ instCalls' = [instCalls EXCEPT ![me] = @ + 1]
              /\ since' = [since EXCEPT ![me] = {q \in Instances : Set(q)}]
         /\ instPhase'[me] # "measure" => UNCHANGED << instCalls, since >>
<1>1. PICK p \in Fixture!Following(me) :
        /\ instPhase' = [instPhase EXCEPT ![me] = p]
        /\ todo' = [todo EXCEPT ![me] = IF p = "over" THEN << >> ELSE Fixture!Callbacks[FKind][p]]
        /\ IF p = "measure"
           THEN /\ instCalls[me] < FixtureCalls /\ instCalls' = [instCalls EXCEPT ![me] = @ + 1]
                /\ since' = [since EXCEPT ![me] = {q \in Instances : Fixture!Ready(q)}]
           ELSE UNCHANGED << instCalls, since >>
  BY DEF Fixture!Call, FKind
<1>2. /\ instPhase'[me] = p
      /\ todo'[me] = IF p = "over" THEN << >> ELSE Fixture!Callbacks[FKind][p]
  BY <1>1 DEF Fixture!TypeOK
<1>3. /\ todo[me] = << >> /\ instRet'[me] = 0 /\ moved' = [moved EXCEPT ![me] = 0]
      /\ UNCHANGED << fd, n, off, entry, size, dir, faults >>
  BY DEF Fixture!Call, Fixture!TypeOK, Fixture!diskVars
<1>4. /\ p \in {"init", "warmup", "measure", "cleanup", "over"}
      /\ \/ instPhase[me] = "new" /\ p = "init"
         \/ instPhase[me] = "init" /\ instRet[me] = 0 /\ p = "warmup"
         \/ instPhase[me] = "init" /\ instRet[me] # 0 /\ p = "over"
         \/ instPhase[me] = "warmup" /\ p = "measure"
         \/ instPhase[me] = "measure" /\ instRet[me] = 0 /\ p = "measure"
         \/ instPhase[me] = "measure" /\ p = "cleanup"
         \/ instPhase[me] = "cleanup" /\ p = "over"
  BY <1>1 DEF Fixture!Following
<1>5. p # "over" => FixtureScript(todo'[me], p)
  BY <1>2, <1>4, CallbackScripts
<1> QED
  BY <1>1, <1>2, <1>3, <1>4, <1>5 DEF Fixture!Ready, Set

(* What is left to do, and what is left after the next step.                *)
LEMMA Lengths ==
  ASSUME Fixture!TypeOK, NEW me \in Instances
  PROVE  /\ Togo(me) \in Nat /\ (todo[me] = << >> <=> Togo(me) = 0)
         /\ todo[me] # << >> =>
              /\ Len(Tail(todo[me])) = Togo(me) - 1
              /\ \A j \in 1..(Togo(me) - 1) : Tail(todo[me])[j] = todo[me][j + 1]
         /\ Len(<< >>) = 0
  BY DEF Fixture!TypeOK, Togo

(* No callback is endless.                                                  *)
LEMMA LongestIsNat == ASSUME NEW p PROVE Longest(p) \in Nat
  BY FixtureSizes DEF Longest

(* Every step keeps every instance at some step of a callback of its        *)
(* benchmark.                                                               *)
LEMMA ScriptedStep ==
  ASSUME Fixture!TypeOK, Scripted, bench' = bench, NEW me \in Instances, Fixture!Step(me)
  PROVE  Scripted'
<1>1. SUFFICES ASSUME NEW q \in Instances
               PROVE  /\ ~Active(q)' => todo'[q] = << >> /\ instRet'[q] = 0
                      /\ instRet'[q] # 0 => todo'[q] = << >> /\ instPhase'[q] \in {"init", "measure"}
                      /\ todo'[q] # << >> => Len(todo'[q]) <= Longest(instPhase'[q])
                      /\ \A j \in 1..Len(todo'[q]) :
                           todo'[q][j] = << OpAt(instPhase'[q], Len(todo'[q]) - j + 1),
                                            FileAt(instPhase'[q], Len(todo'[q]) - j + 1) >>
  BY TablesStay DEF Scripted, Togo
<1>2. CASE q # me
  <2>1. instPhase'[q] = instPhase[q] /\ todo'[q] = todo[q] /\ instRet'[q] = instRet[q]
    BY <1>2, OthersStay
  <2> QED
    BY <2>1 DEF Scripted, Togo, Active
<1>3. CASE q = me /\ Fixture!Call(me)
  <2>1. /\ instRet'[me] = 0 /\ instPhase'[me] \in {"init", "warmup", "measure", "cleanup", "over"}
        /\ instPhase'[me] = "over" => todo'[me] = << >>
        /\ instPhase'[me] # "over" => FixtureScript(todo'[me], instPhase'[me])
    BY <1>3, CallFacts
  <2>2. CASE instPhase'[me] = "over"
    BY <1>3, <2>1, <2>2 DEF Active
  <2>3. CASE instPhase'[me] # "over"
    <3>1. PICK p : p = instPhase'[me]
      OBVIOUS
    <3>2. PICK l : l = Longest(p)
      OBVIOUS
    <3>3. /\ Len(todo'[me]) = l
          /\ \A j \in 1..l : todo'[me][j] = << OpAt(p, l - j + 1), FileAt(p, l - j + 1) >>
      BY <2>1, <2>3, <3>1, <3>2 DEF FixtureScript
    <3>4. l <= l
      BY <3>2, LongestIsNat
    <3>5. Active(me)'
      BY <2>1, <2>3, <3>1 DEF Active
    <3> QED
      BY <1>3, <2>1, <3>1, <3>2, <3>3, <3>4, <3>5
  <2> QED
    BY <2>2, <2>3
<1>4. CASE q = me /\ ~Fixture!Call(me)
  <2>1. /\ todo[me] # << >> /\ UNCHANGED instPhase
        /\ \/ Advances(me) /\ instRet' = instRet
           \/ todo' = todo /\ instRet' = instRet
           \/ Gives(me) /\ Fixture!At(me, "need")
    BY <1>4, StepKinds
  <2>2. /\ Togo(me) \in 1..Longest(instPhase[me]) /\ Active(me) /\ instRet[me] = 0
        /\ Fixture!At(me, "need") => OpAt(instPhase[me], Togo(me)) = "need"
    BY <2>1, AtStep
  <2>3. CASE Advances(me) /\ instRet' = instRet
    <3>1. todo'[me] = Tail(todo[me])
      BY <2>3 DEF Advances, Fixture!TypeOK
    <3>2. Len(todo'[me]) = Togo(me) - 1 /\ \A j \in 1..(Togo(me) - 1) : todo'[me][j] = todo[me][j + 1]
      BY <2>1, <3>1, Lengths
    <3>3. ASSUME NEW j \in 1..Len(todo'[me])
          PROVE  todo'[me][j] = << OpAt(instPhase[me], Len(todo'[me]) - j + 1),
                                   FileAt(instPhase[me], Len(todo'[me]) - j + 1) >>
      <4>1. j + 1 \in 1..Togo(me) /\ Togo(me) - (j + 1) + 1 = Len(todo'[me]) - j + 1
        BY <2>2, <3>2
      <4>2. todo[me][j + 1] = << OpAt(instPhase[me], Togo(me) - (j + 1) + 1),
                                 FileAt(instPhase[me], Togo(me) - (j + 1) + 1) >>
        BY <4>1 DEF Scripted
      <4> QED
        BY <3>2, <4>1, <4>2
    <3>4. Len(todo'[me]) <= Longest(instPhase[me])
      BY <2>2, <3>2, LongestIsNat
    <3> QED
      BY <1>4, <2>1, <2>2, <2>3, <3>3, <3>4 DEF Active
  <2>4. CASE todo' = todo /\ instRet' = instRet
    BY <1>4, <2>1, <2>2, <2>4 DEF Active, Scripted, Togo
  <2>5. CASE Gives(me) /\ Fixture!At(me, "need")
    <3>1. todo'[me] = << >> /\ instRet'[me] = -1
      BY <2>5 DEF Gives, Fixture!TypeOK
    <3>2. instPhase[me] \in {"init", "measure"}
      BY <2>2, <2>5 DEF OpAt, Active
    <3> QED
      BY <1>4, <2>1, <2>2, <3>1, <3>2 DEF Active
  <2> QED
    BY <2>1, <2>3, <2>4, <2>5
<1> QED
  BY <1>2, <1>3, <1>4

(* What is left to do changes by the step done.                             *)
LEMMA PendingMoves ==
  ASSUME Fixture!TypeOK, Scripted, bench' = bench, NEW me \in Instances, todo[me] # << >>,
         instPhase' = instPhase, Advances(me), NEW op, NEW f
  PROVE  /\ Pending(me, op, f)' => Pending(me, op, f)
         /\ Pending(me, op, f) => Pending(me, op, f)' \/ (Fixture!At(me, op) /\ Fixture!File(me) = f)
<1>1. Len(todo'[me]) = Togo(me) - 1 /\ Togo(me) \in Nat
  BY Lengths DEF Advances, Fixture!TypeOK
<1>2. Pending(me, op, f)' <=> \E t \in 1..(Togo(me) - 1) : OpAt(instPhase[me], t) = op /\ FileAt(instPhase[me], t) = f
  BY <1>1, TablesStay DEF Pending, Togo
<1>3. ASSUME OpAt(instPhase[me], Togo(me)) = op, FileAt(instPhase[me], Togo(me)) = f
      PROVE  Fixture!At(me, op) /\ Fixture!File(me) = f
  BY <1>3, AtStep
<1> QED
  BY <1>1, <1>2, <1>3 DEF Pending

(* What an instance that does not move has left to do.                      *)
LEMMA PendingStays ==
  ASSUME bench' = bench, NEW q, instPhase'[q] = instPhase[q], todo'[q] = todo[q], NEW op, NEW f
  PROVE  Pending(q, op, f)' <=> Pending(q, op, f)
  BY TablesStay DEF Pending, Togo

(* There are more inodes than entries and descriptors: one is free when a   *)
(* name has none.                                                           *)
LEMMA FreeInodeIsFree ==
  ASSUME Fixture!TypeOK, NEW f \in Fixture!Files, entry[f] = Fixture!None
  PROVE  /\ Fixture!FreeInode \in Fixture!Inodes
         /\ \A g \in Fixture!Files : entry[g] # Fixture!FreeInode
         /\ \A q \in Instances, g \in Fixture!Files : fd[q][g] # Fixture!FreeInode
<1> DEFINE Free(x) == \A g \in Fixture!Files : entry[g] # x /\ \A q \in Instances : fd[q][g] # x
           Uses == Instances \X Fixture!Files
<1>1. /\ IsFiniteSet(Instances) /\ Cardinality(Instances) \in Nat
      /\ Fixture!Inodes = 1..2 * (Cardinality(Instances) + 1)
  BY FixtureSizes, FS_CardinalityType DEF Fixture!Inodes, Fixture!Cardinality, Cardinality
<1>2. IsFiniteSet(Fixture!Files) /\ Cardinality(Fixture!Files) = 2
  <2>1. IsFiniteSet({"src"}) /\ Cardinality({"src"}) = 1
    BY FS_Singleton
  <2>2. Fixture!Files = {"src"} \cup {"dst"} /\ "dst" \notin {"src"}
    BY DEF Fixture!Files
  <2> QED
    BY <2>1, <2>2, FS_AddElement
<1>3. IsFiniteSet(Uses) /\ Cardinality(Uses) = 2 * Cardinality(Instances)
  BY <1>1, <1>2, FS_Product
<1>4. PICK e : \A g \in Fixture!Files \ {f} : entry[g] = e
  BY DEF Fixture!Files
<1> DEFINE Rest == Fixture!Inodes \ {e}
<1>5. IsFiniteSet(Rest) /\ Cardinality(Rest) >= 2 * Cardinality(Instances) + 1
  <2>1. /\ IsFiniteSet(Fixture!Inodes)
        /\ Cardinality(Fixture!Inodes) = 2 * (Cardinality(Instances) + 1)
    BY <1>1, FS_Interval
  <2>2. IsFiniteSet(Rest) /\ Cardinality(Rest) >= Cardinality(Fixture!Inodes) - 1
    <3>1. Cardinality(Fixture!Inodes) \in Nat
      BY <1>1, <2>1
    <3> QED
      BY <2>1, <3>1, FS_RemoveElement
  <2> HIDE DEF Rest
  <2>3. Cardinality(Rest) \in Nat
    BY <2>2, FS_CardinalityType
  <2> QED
    BY <1>1, <2>1, <2>2, <2>3
<1>6. ASSUME ~ \E x \in Fixture!Inodes : Free(x)
      PROVE  FALSE
  <2>1. ASSUME NEW x \in Rest
        PROVE  \E u \in Uses : fd[u[1]][u[2]] = x
    <3>1. x # Fixture!None /\ x # e
      BY <1>1 DEF Fixture!None
    <3>2. PICK g \in Fixture!Files : entry[g] = x \/ \E q \in Instances : fd[q][g] = x
      BY <1>6
    <3>3. PICK q \in Instances : fd[q][g] = x
      BY <1>4, <3>1, <3>2
    <3>4. << q, g >> \in Uses /\ << q, g >>[1] = q /\ << q, g >>[2] = g
      OBVIOUS
    <3> QED
      BY <3>3, <3>4
  <2> DEFINE user == [x \in Rest |-> CHOOSE u \in Uses : fd[u[1]][u[2]] = x]
  <2>2. user \in [Rest -> Uses] /\ \A x \in Rest : fd[user[x][1]][user[x][2]] = x
    BY <2>1
  <2> HIDE DEF user
  <2>3. Cardinality(Uses) < Cardinality(Rest)
    <3>1. Cardinality(Rest) \in Nat
      BY <1>5, FS_CardinalityType
    <3> QED
      BY <1>1, <1>3, <1>5, <3>1
  <2> HIDE DEF Uses, Rest
  <2>4. \E x, y \in Rest : x # y /\ user[x] = user[y]
    BY <1>3, <1>5, <2>2, <2>3, FS_PigeonHole
  <2> QED
    BY <2>2, <2>4
<1>7. Fixture!FreeInode = CHOOSE x \in Fixture!Inodes : Free(x)
  BY DEF Fixture!FreeInode
<1>8. Fixture!FreeInode \in Fixture!Inodes /\ Free(Fixture!FreeInode)
  BY <1>6, <1>7
<1> QED
  BY <1>8

(* Facts of the tables.                                                     *)
LEMMA ClosesAfter ==
  ASSUME NEW p, NEW t \in 1..Longest(p), OpAt(p, t) \in {"creat", "open"}
  PROVE  \E u \in 1..t - 1 : OpAt(p, u) = "close" /\ FileAt(p, u) = FileAt(p, t)
<1>0. FKind \in FixtureKinds /\ Longest(p) \in Nat /\ t \in Nat
  BY FixtureKind, LongestIsNat
<1>1. CASE FKind = "fs-meta"
  <2>1. p = "init" /\ t \in {2, 4} /\ t - 1 \in 1..t - 1
    BY <1>0, <1>1 DEF OpAt, Longest
  <2>2. OpAt(p, t - 1) = "close" /\ FileAt(p, t - 1) = FileAt(p, t)
    BY <1>1, <2>1 DEF OpAt, FileAt
  <2> QED
    BY <2>1, <2>2
<1>2. CASE FKind = "fs-copy" /\ p # "init"
  <2>1. p \in {"warmup", "measure"} /\ t % 5 \in {0, 4} /\ t > 3
    BY <1>0, <1>2 DEF OpAt, Longest
  <2>2. t - 3 \in 1..t - 1 /\ (t % 5 = 0 => (t - 3) % 5 = 2) /\ (t % 5 = 4 => (t - 3) % 5 = 1)
    BY <1>0, <2>1
  <2>3. OpAt(p, t - 3) = "close" /\ FileAt(p, t - 3) = FileAt(p, t)
    BY <1>2, <2>1, <2>2 DEF OpAt, FileAt
  <2> QED
    BY <2>2, <2>3
<1>3. CASE FKind # "fs-meta" /\ ~(FKind = "fs-copy" /\ p # "init")
  <2>1. p \in {"init", "warmup", "measure"} /\ t > 1
    BY <1>0, <1>3 DEF OpAt, Longest, FixtureKinds
  <2>2. OpAt(p, 1) = "close" /\ FileAt(p, 1) = "src" /\ FileAt(p, t) = "src"
    BY <1>0, <1>3, <2>1 DEF OpAt, FileAt, FixtureKinds, Longest
  <2> QED
    BY <1>0, <2>1, <2>2
<1> QED
  BY <1>1, <1>2, <1>3

(* The callbacks that return -1 without a descriptor are init and measure,  *)
(* of one file or of the source.                                            *)
LEMMA NeedsOneFile ==
  ASSUME NEW p, NEW t \in 1..Longest(p), OpAt(p, t) = "need"
  PROVE  p \in {"init", "measure"} /\ FKind # "fs-meta" /\ \A u : FileAt(p, u) = "src"
  BY FixtureKind DEF OpAt, FileAt, FixtureKinds

(* init closes nothing before it has looked at its descriptor.              *)
LEMMA InitNeeds ==
  ASSUME NEW t \in 1..Longest("init"), NEW u \in 1..Longest("init"),
         OpAt("init", t) \in {"close", "open"}, OpAt("init", u) = "need"
  PROVE  t < u
  BY FixtureKind, LongestIsNat DEF OpAt, FixtureKinds, Longest

(* cleanup creates nothing, and only fs_copy and fs_meta have a second      *)
(* file.                                                                    *)
LEMMA Creates ==
  ASSUME NEW p \in {"init", "warmup", "measure", "cleanup"}, NEW t \in 1..Longest(p), OpAt(p, t) = "creat"
  PROVE  /\ p # "cleanup"
         /\ FileAt(p, t) = "src" \/ FKind \in {"fs-copy", "fs-meta"}
         /\ p = "init" /\ FileAt(p, t) = "dst" => \A u \in 1..Longest(p) : OpAt(p, u) # "need"
  BY FixtureKind DEF OpAt, FileAt, FixtureKinds, Longest

(* cleanup unlinks each file of its benchmark.                              *)
LEMMA Unlinks ==
  ASSUME NEW f \in Fixture!Files, f = "src" \/ FKind \in {"fs-copy", "fs-meta"}
  PROVE  \E t \in 1..Longest("cleanup") : OpAt("cleanup", t) = "unlink" /\ FileAt("cleanup", t) = f
<1>0. FKind \in FixtureKinds
  BY FixtureKind
<1>1. CASE FKind = "fs-meta"
  <2>1. \A t \in 2..3 : t \in 1..Longest("cleanup") /\ OpAt("cleanup", t) = "unlink"
    BY <1>1 DEF OpAt, Longest
  <2>2. FileAt("cleanup", 3) = "src" /\ FileAt("cleanup", 2) = "dst"
    BY <1>1 DEF FileAt
  <2> QED
    BY <2>1, <2>2 DEF Fixture!Files
<1>2. CASE FKind = "fs-copy"
  <2>1. \A t \in 1..2 : t \in 1..Longest("cleanup") /\ OpAt("cleanup", t) = "unlink"
    BY <1>2 DEF OpAt, Longest
  <2>2. FileAt("cleanup", 2) = "src" /\ FileAt("cleanup", 1) = "dst"
    BY <1>2 DEF FileAt
  <2> QED
    BY <2>1, <2>2 DEF Fixture!Files
<1>3. CASE FKind \notin {"fs-meta", "fs-copy"}
  BY <1>0, <1>3 DEF OpAt, FileAt, Longest, FixtureKinds
<1> QED
  BY <1>1, <1>2, <1>3

(* cleanup of fs_meta removes the directory last (fs_meta.c:70-78).         *)
LEMMA Removes ==
  ASSUME FKind = "fs-meta"
  PROVE  /\ Longest("cleanup") = 3 /\ OpAt("cleanup", 1) = "rmdir" /\ FileAt("cleanup", 1) = "src"
         /\ \A t : t # 1 => OpAt("cleanup", t) = "unlink"
  BY DEF OpAt, FileAt, Longest

(* What each step does to the descriptors, the entries and the directory.   *)
LEMMA Handles ==
  ASSUME Fixture!TypeOK, NEW me \in Instances, Fixture!Step(me), NEW f \in Fixture!Files,
         fd'[me][f] # Fixture!None
  PROVE  \/ /\ fd'[me][f] = fd[me][f]
            /\ ~(Fixture!At(me, "close") /\ Fixture!File(me) = f)
         \/ /\ Fixture!At(me, "creat") \/ Fixture!At(me, "open")
            /\ Fixture!File(me) = f /\ Advances(me) /\ ~Fixture!Call(me)
<1> USE DEF Fixture!TypeOK, Fixture!At, Fixture!diskVars
<1>1. CASE Fixture!Creat(me) \/ Fixture!Open(me)
  BY <1>1 DEF Fixture!Creat, Fixture!Open, Fixture!Advance, Advances, Fixture!Call
<1>2. CASE Fixture!OpenFails(me) \/ Fixture!Need(me) \/ Fixture!Skip(me)
  BY <1>2 DEF Fixture!OpenFails, Fixture!Need, Fixture!Skip, Fixture!Transfers
<1>3. CASE Fixture!Close(me)
  BY <1>3 DEF Fixture!Close
<1>4. CASE Fixture!Stat(me) \/ Fixture!Unlink(me) \/ Fixture!Mkdir(me) \/ Fixture!Rmdir(me)
  BY <1>4 DEF Fixture!Stat, Fixture!Unlink, Fixture!Mkdir, Fixture!Rmdir
<1>5. CASE Fixture!Fill(me) \/ Fixture!Rewrite(me) \/ Fixture!Read(me)
  BY <1>5 DEF Fixture!Fill, Fixture!Rewrite, Fixture!Read
<1>6. CASE Fixture!Pread(me) \/ Fixture!Copy(me) \/ Fixture!Spawn(me)
  BY <1>6 DEF Fixture!Pread, Fixture!Copy, Fixture!Spawn
<1>7. CASE Fixture!Call(me)
  BY <1>7 DEF Fixture!Call
<1> QED
  BY <1>1, <1>2, <1>3, <1>4, <1>5, <1>6, <1>7 DEF Fixture!Step

(* A name that is there was there, or this step created it.                 *)
LEMMA Entries ==
  ASSUME Fixture!TypeOK, NEW me \in Instances, Fixture!Step(me), NEW f \in Fixture!Files,
         entry'[f] # Fixture!None
  PROVE  \/ /\ entry'[f] = entry[f]
            /\ ~(Fixture!At(me, "unlink") /\ Fixture!File(me) = f)
         \/ /\ Fixture!At(me, "creat") /\ Fixture!File(me) = f /\ entry[f] = Fixture!None
            /\ Fixture!Creat(me) /\ fd'[me][f] = entry'[f]
<1> USE DEF Fixture!TypeOK, Fixture!At, Fixture!diskVars
<1>1. CASE Fixture!Creat(me)
  BY <1>1 DEF Fixture!Creat
<1>2. CASE Fixture!OpenFails(me) \/ Fixture!Open(me) \/ Fixture!Need(me) \/ Fixture!Skip(me)
  BY <1>2 DEF Fixture!OpenFails, Fixture!Open, Fixture!Need, Fixture!Skip, Fixture!Transfers
<1>3. CASE Fixture!Close(me) \/ Fixture!Unlink(me)
  BY <1>3 DEF Fixture!Close, Fixture!Unlink
<1>4. CASE Fixture!Stat(me) \/ Fixture!Mkdir(me) \/ Fixture!Rmdir(me)
  BY <1>4 DEF Fixture!Stat, Fixture!Mkdir, Fixture!Rmdir
<1>5. CASE Fixture!Fill(me) \/ Fixture!Rewrite(me) \/ Fixture!Read(me)
  BY <1>5 DEF Fixture!Fill, Fixture!Rewrite, Fixture!Read
<1>6. CASE Fixture!Pread(me) \/ Fixture!Copy(me) \/ Fixture!Spawn(me)
  BY <1>6 DEF Fixture!Pread, Fixture!Copy, Fixture!Spawn
<1>7. CASE Fixture!Call(me)
  <2>1. entry' = entry /\ todo[me] = << >>
    BY <1>7 DEF Fixture!Call
  <2> QED
    BY <2>1
<1> QED
  BY <1>1, <1>2, <1>3, <1>4, <1>5, <1>6, <1>7 DEF Fixture!Step

(* A directory that is there was there, or this step made it.               *)
LEMMA Directory ==
  ASSUME Fixture!TypeOK, NEW me \in Instances, Fixture!Step(me), dir'
  PROVE  \/ Fixture!At(me, "mkdir") /\ Fixture!Mkdir(me)
         \/ dir /\ (Fixture!At(me, "rmdir") => \E f \in Fixture!Files : entry[f] # Fixture!None)
<1> USE DEF Fixture!TypeOK, Fixture!At, Fixture!diskVars
<1>1. CASE Fixture!Creat(me) \/ Fixture!OpenFails(me) \/ Fixture!Open(me)
  BY <1>1 DEF Fixture!Creat, Fixture!OpenFails, Fixture!Open
<1>2. CASE Fixture!Need(me) \/ Fixture!Skip(me)
  BY <1>2 DEF Fixture!Need, Fixture!Skip, Fixture!Transfers
<1>3. CASE Fixture!Close(me) \/ Fixture!Unlink(me)
  BY <1>3 DEF Fixture!Close, Fixture!Unlink
<1>4. CASE Fixture!Stat(me) \/ Fixture!Mkdir(me) \/ Fixture!Rmdir(me)
  BY <1>4 DEF Fixture!Stat, Fixture!Mkdir, Fixture!Rmdir
<1>5. CASE Fixture!Fill(me) \/ Fixture!Rewrite(me) \/ Fixture!Read(me)
  BY <1>5 DEF Fixture!Fill, Fixture!Rewrite, Fixture!Read
<1>6. CASE Fixture!Pread(me) \/ Fixture!Copy(me) \/ Fixture!Spawn(me)
  BY <1>6 DEF Fixture!Pread, Fixture!Copy, Fixture!Spawn
<1>7. CASE Fixture!Call(me)
  <2>1. dir' = dir /\ todo[me] = << >>
    BY <1>7 DEF Fixture!Call
  <2> QED
    BY <2>1
<1> QED
  BY <1>1, <1>2, <1>3, <1>4, <1>5, <1>6, <1>7 DEF Fixture!Step

(* A descriptor is lost when it is closed, or overwritten by an open that   *)
(* finds no file.                                                           *)
LEMMA Kept ==
  ASSUME Fixture!TypeOK, NEW me \in Instances, Fixture!Step(me), NEW f \in Fixture!Files,
         fd[me][f] # Fixture!None, ~Fixture!At(me, "close"), ~Fixture!At(me, "open")
  PROVE  fd'[me][f] # Fixture!None
<1> USE DEF Fixture!TypeOK, Fixture!diskVars
<1>1. CASE Fixture!Creat(me)
  <2>1. PICK x : /\ fd' = [fd EXCEPT ![me][Fixture!File(me)] = x]
                 /\ x = IF entry[Fixture!File(me)] = Fixture!None THEN Fixture!FreeInode
                        ELSE entry[Fixture!File(me)]
    BY <1>1 DEF Fixture!Creat
  <2>2. CASE Fixture!File(me) = f
    <3>1. x # Fixture!None
      BY <2>1, <2>2, FreeInodeIsFree DEF Fixture!Inodes, Fixture!None
    <3> QED
      BY <2>1, <2>2, <3>1
  <2>3. CASE Fixture!File(me) # f
    BY <2>1, <2>3
  <2> QED
    BY <2>2, <2>3
<1>2. CASE Fixture!OpenFails(me) \/ Fixture!Need(me) \/ Fixture!Skip(me)
  BY <1>2 DEF Fixture!OpenFails, Fixture!Need, Fixture!Skip
<1>3. CASE Fixture!Close(me) \/ Fixture!Open(me)
  BY <1>3 DEF Fixture!Close, Fixture!Open
<1>4. CASE Fixture!Stat(me) \/ Fixture!Unlink(me) \/ Fixture!Mkdir(me) \/ Fixture!Rmdir(me)
  BY <1>4 DEF Fixture!Stat, Fixture!Unlink, Fixture!Mkdir, Fixture!Rmdir
<1>5. CASE Fixture!Fill(me) \/ Fixture!Rewrite(me) \/ Fixture!Read(me)
  BY <1>5 DEF Fixture!Fill, Fixture!Rewrite, Fixture!Read
<1>6. CASE Fixture!Pread(me) \/ Fixture!Copy(me) \/ Fixture!Spawn(me)
  BY <1>6 DEF Fixture!Pread, Fixture!Copy, Fixture!Spawn
<1>7. CASE Fixture!Call(me)
  BY <1>7 DEF Fixture!Call
<1> QED
  BY <1>1, <1>2, <1>3, <1>4, <1>5, <1>6, <1>7 DEF Fixture!Step

(* The instance that steps is at a step of its table, or takes up the next  *)
(* callback.                                                                *)
LEMMA OpenToCloseStep ==
  ASSUME Fixture!TypeOK, Scripted, OpenToClose, bench' = bench, NEW me \in Instances, Fixture!Step(me)
  PROVE  OpenToClose'
<1>1. SUFFICES ASSUME NEW q \in Instances, NEW f \in Fixture!Files, fd'[q][f] # Fixture!None
               PROVE  Pending(q, "close", f)'
  BY DEF OpenToClose
<1>2. CASE q # me
  <2>1. instPhase'[q] = instPhase[q] /\ todo'[q] = todo[q] /\ fd'[q] = fd[q]
    BY <1>2, OthersStay
  <2> QED
    BY <1>1, <2>1, PendingStays DEF OpenToClose
<1>3. CASE q = me /\ Fixture!Call(me)
  <2>1. todo[me] = << >> /\ fd' = fd
    BY <1>3, CallFacts
  <2>2. ~Pending(me, "close", f)
    BY <2>1, Lengths DEF Pending
  <2> QED
    BY <1>1, <1>3, <2>1, <2>2 DEF OpenToClose
<1>4. CASE q = me /\ ~Fixture!Call(me)
  <2>1. /\ todo[me] # << >> /\ UNCHANGED instPhase
        /\ \/ Advances(me)
           \/ todo' = todo /\ \E op \in Fixture!Transfers \cup {"spawn"} : Fixture!At(me, op)
           \/ Gives(me) /\ Fixture!At(me, "need") /\ fd[me][Fixture!File(me)] = Fixture!None /\ fd' = fd
    BY <1>4, StepKinds
  <2>2. /\ Togo(me) \in 1..Longest(instPhase[me])
        /\ \A op : Fixture!At(me, op) <=> OpAt(instPhase[me], Togo(me)) = op
        /\ Fixture!File(me) = FileAt(instPhase[me], Togo(me))
    BY <2>1, AtStep
  <2>3. CASE /\ fd'[me][f] = fd[me][f]
             /\ ~(Fixture!At(me, "close") /\ Fixture!File(me) = f)
    <3>1. Pending(me, "close", f)
      BY <1>1, <1>4, <2>3 DEF OpenToClose
    <3>2. CASE Advances(me)
      BY <1>4, <2>1, <2>3, <3>1, <3>2, PendingMoves
    <3>3. CASE todo' = todo
      BY <1>4, <2>1, <3>1, <3>3, PendingStays
    <3>4. CASE Gives(me) /\ Fixture!At(me, "need") /\ fd[me][Fixture!File(me)] = Fixture!None
      <4>1. \A u : FileAt(instPhase[me], u) = "src"
        BY <2>2, <3>4, NeedsOneFile
      <4>2. f = "src"
        BY <3>1, <4>1 DEF Pending
      <4>3. Fixture!File(me) = "src"
        BY <2>2, <4>1
      <4> QED
        BY <1>1, <1>4, <2>3, <3>4, <4>2, <4>3
    <3> QED
      BY <2>1, <3>2, <3>3, <3>4
  <2>4. CASE /\ Fixture!At(me, "creat") \/ Fixture!At(me, "open")
             /\ Fixture!File(me) = f /\ Advances(me)
    <3>1. PICK u \in 1..Togo(me) - 1 :
            OpAt(instPhase[me], u) = "close" /\ FileAt(instPhase[me], u) = f
      BY <2>2, <2>4, ClosesAfter
    <3>2. Pending(me, "close", f)
      BY <2>2, <3>1, LongestIsNat DEF Pending
    <3>3. ~Fixture!At(me, "close")
      BY <2>2, <2>4
    <3> QED
      BY <1>4, <2>1, <2>4, <3>2, <3>3, PendingMoves
  <2> QED
    BY <1>1, <1>4, <2>3, <2>4, Handles
<1> QED
  BY <1>2, <1>3, <1>4

(* The debts of an instance but for the file it is about to unlink.         *)
LEMMA OwesStep ==
  ASSUME Fixture!TypeOK, Scripted, bench' = bench, NEW me \in Instances, Fixture!Step(me),
         NEW f \in Fixture!Files, f = "src" \/ FKind \in {"fs-copy", "fs-meta"},
         Owes(me, f), ~(Fixture!At(me, "unlink") /\ Fixture!File(me) = f)
  PROVE  Owes(me, f)'
<1>1. CASE Fixture!Call(me)
  <2>1. /\ todo[me] = << >>
        /\ \/ instPhase[me] = "new" /\ instPhase'[me] = "init"
           \/ instPhase[me] = "init" /\ instRet[me] = 0 /\ instPhase'[me] = "warmup"
           \/ instPhase[me] = "init" /\ instRet[me] # 0 /\ instPhase'[me] = "over"
           \/ instPhase[me] = "warmup" /\ instPhase'[me] = "measure"
           \/ instPhase[me] = "measure" /\ instRet[me] = 0 /\ instPhase'[me] = "measure"
           \/ instPhase[me] = "measure" /\ instPhase'[me] = "cleanup"
           \/ instPhase[me] = "cleanup" /\ instPhase'[me] = "over"
        /\ instPhase'[me] # "over" => FixtureScript(todo'[me], instPhase'[me])
    BY <1>1, CallFacts
  <2>2. ~Pending(me, "unlink", f)
    BY <2>1, Lengths DEF Pending
  <2>3. instPhase'[me] \in {"warmup", "measure"} \/ instPhase'[me] = "cleanup"
    BY <2>1, <2>2 DEF Owes, Set
  <2>4. CASE instPhase'[me] = "cleanup"
    <3>1. Len(todo'[me]) = Longest("cleanup")
      BY <2>1, <2>4 DEF FixtureScript
    <3>2. PICK t \in 1..Longest("cleanup") : OpAt("cleanup", t) = "unlink" /\ FileAt("cleanup", t) = f
      BY Unlinks
    <3>3. Pending(me, "unlink", f)'
      BY <2>4, <3>1, <3>2, TablesStay DEF Pending, Togo
    <3> QED
      BY <2>4, <3>3 DEF Owes
  <2> QED
    BY <2>3, <2>4 DEF Owes, Set
<1>2. CASE ~Fixture!Call(me)
  <2>1. /\ todo[me] # << >> /\ UNCHANGED instPhase
        /\ \/ Advances(me) /\ instRet' = instRet
           \/ todo' = todo /\ instRet' = instRet /\ \E op \in Fixture!Transfers \cup {"spawn"} : Fixture!At(me, op)
           \/ Gives(me) /\ Fixture!At(me, "need") /\ fd[me][Fixture!File(me)] = Fixture!None
    BY <1>2, StepKinds
  <2>2. /\ Togo(me) \in 1..Longest(instPhase[me]) /\ Active(me) /\ instRet[me] = 0
        /\ \A op : Fixture!At(me, op) <=> OpAt(instPhase[me], Togo(me)) = op
        /\ Fixture!File(me) = FileAt(instPhase[me], Togo(me))
    BY <2>1, AtStep
  <2>3. CASE Set(me)
    BY <2>1, <2>3 DEF Owes, Set
  <2>4. CASE instPhase[me] = "init"
    <3>1. Pending(me, "need", "src") => fd[me]["src"] # Fixture!None
      BY <2>4 DEF Owes, Set
    <3>2. CASE Gives(me) /\ Fixture!At(me, "need") /\ fd[me][Fixture!File(me)] = Fixture!None
      <4>1. Fixture!File(me) = "src"
        BY <2>2, <3>2, NeedsOneFile
      <4>2. Pending(me, "need", "src")
        <5>1. OpAt(instPhase[me], Togo(me)) = "need" /\ FileAt(instPhase[me], Togo(me)) = "src"
          BY <2>2, <3>2, <4>1
        <5>2. Togo(me) \in 1..Togo(me)
          BY <2>2, LongestIsNat
        <5> QED
          BY <5>1, <5>2 DEF Pending
      <4> QED
        BY <3>1, <3>2, <4>1, <4>2
    <3>3. CASE instRet' = instRet /\ (Advances(me) \/ todo' = todo)
      <4>1. instRet' = instRet /\ (Advances(me) \/ todo' = todo)
        BY <3>3
      <4>2. ASSUME Pending(me, "need", "src")' PROVE fd'[me]["src"] # Fixture!None
        <5>1. Pending(me, "need", "src")
          BY <2>1, <4>1, <4>2, PendingMoves, PendingStays
        <5>2. fd[me]["src"] # Fixture!None
          BY <3>1, <5>1
        <5>3. ~Fixture!At(me, "close") /\ ~Fixture!At(me, "open")
          <6>1. PICK u \in 1..Togo(me) : OpAt("init", u) = "need"
            BY <2>4, <5>1 DEF Pending
          <6>2. u \in 1..Longest("init")
            BY <2>2, <2>4, LongestIsNat
          <6> QED
            BY <2>2, <2>4, <6>1, <6>2, InitNeeds, LongestIsNat
        <5> QED
          BY <5>2, <5>3, Kept DEF Fixture!Files
      <4> QED
        BY <2>1, <2>2, <2>4, <4>1, <4>2 DEF Owes
    <3> QED
      BY <2>1, <3>2, <3>3
  <2>5. CASE instPhase[me] = "cleanup"
    <3>1. Pending(me, "unlink", f)
      BY <2>5 DEF Owes, Set
    <3>2. Advances(me) \/ todo' = todo
      <4>1. ~Fixture!At(me, "need")
        BY <2>2, <2>5, NeedsOneFile
      <4> QED
        BY <2>1, <4>1
    <3>3. Pending(me, "unlink", f)'
      BY <2>1, <3>1, <3>2, PendingMoves, PendingStays
    <3> QED
      BY <2>1, <2>5, <3>3 DEF Owes
  <2> QED
    BY <2>3, <2>4, <2>5 DEF Owes
<1> QED
  BY <1>1, <1>2

(* So for the directory, unless it is about to be removed.                  *)
LEMMA OwesDirStep ==
  ASSUME Fixture!TypeOK, Scripted, bench' = bench, NEW me \in Instances, Fixture!Step(me),
         FKind = "fs-meta", OwesDir(me), ~Fixture!At(me, "rmdir")
  PROVE  OwesDir(me)'
<1>1. CASE Fixture!Call(me)
  <2>1. /\ todo[me] = << >>
        /\ \/ instPhase[me] = "new" /\ instPhase'[me] = "init"
           \/ instPhase[me] = "init" /\ instRet[me] = 0 /\ instPhase'[me] = "warmup"
           \/ instPhase[me] = "init" /\ instRet[me] # 0 /\ instPhase'[me] = "over"
           \/ instPhase[me] = "warmup" /\ instPhase'[me] = "measure"
           \/ instPhase[me] = "measure" /\ instRet[me] = 0 /\ instPhase'[me] = "measure"
           \/ instPhase[me] = "measure" /\ instPhase'[me] = "cleanup"
           \/ instPhase[me] = "cleanup" /\ instPhase'[me] = "over"
        /\ instPhase'[me] # "over" => FixtureScript(todo'[me], instPhase'[me])
    BY <1>1, CallFacts
  <2>2. ~Pending(me, "rmdir", "src")
    BY <2>1, Lengths DEF Pending
  <2>3. instPhase'[me] \in {"warmup", "measure"} \/ instPhase'[me] = "cleanup"
    BY <2>1, <2>2 DEF OwesDir, Set
  <2>4. CASE instPhase'[me] = "cleanup"
    <3>1. FixtureScript(todo'[me], "cleanup")
      BY <2>1, <2>4
    <3>2. Len(todo'[me]) = 3
      BY <3>1, Removes DEF FixtureScript
    <3>3. 1 \in 1..3
      OBVIOUS
    <3>4. Pending(me, "rmdir", "src")'
      BY <2>4, <3>2, <3>3, Removes, TablesStay DEF Pending, Togo
    <3> QED
      BY <2>4, <3>4 DEF OwesDir
  <2> QED
    BY <2>3, <2>4 DEF OwesDir, Set
<1>2. CASE ~Fixture!Call(me)
  <2>1. /\ todo[me] # << >> /\ UNCHANGED instPhase
        /\ \/ Advances(me) /\ instRet' = instRet
           \/ todo' = todo /\ instRet' = instRet
           \/ Gives(me) /\ Fixture!At(me, "need")
    BY <1>2, StepKinds
  <2>2. /\ Togo(me) \in 1..Longest(instPhase[me])
        /\ \A op : Fixture!At(me, op) <=> OpAt(instPhase[me], Togo(me)) = op
    BY <2>1, AtStep
  <2>3. ~Fixture!At(me, "need")
    BY <2>2, NeedsOneFile
  <2>4. instRet' = instRet /\ (Advances(me) \/ todo' = todo)
    BY <2>1, <2>3
  <2>5. Pending(me, "rmdir", "src") => Pending(me, "rmdir", "src")'
    BY <2>1, <2>4, PendingMoves, PendingStays
  <2> QED
    BY <2>1, <2>4, <2>5 DEF OwesDir, Set
<1> QED
  BY <1>1, <1>2

(* Whatever happens, each file and the directory have somebody left to      *)
(* remove them: an instance that has made its files cleans up, and one that *)
(* could not make them has made none.                                       *)
LEMMA OwedStep ==
  ASSUME Fixture!TypeOK, Scripted, Owed, bench' = bench, NEW me \in Instances, Fixture!Step(me)
  PROVE  Owed'
<1>0. FKind' = FKind
  BY DEF FKind
<1>1. ASSUME NEW f \in Fixture!Files, entry'[f] # Fixture!None
      PROVE  (f = "src" \/ FKind \in {"fs-copy", "fs-meta"}) /\ \E q \in Instances : Owes(q, f)'
  <2>1. CASE entry'[f] = entry[f] /\ ~(Fixture!At(me, "unlink") /\ Fixture!File(me) = f)
    <3>1. PICK q \in Instances : Owes(q, f)
      BY <1>1, <2>1 DEF Owed
    <3>2. f = "src" \/ FKind \in {"fs-copy", "fs-meta"}
      BY <1>1, <2>1 DEF Owed
    <3>3. CASE q = me
      BY <2>1, <3>1, <3>2, <3>3, OwesStep
    <3>4. CASE q # me
      <4>1. /\ instPhase'[q] = instPhase[q] /\ todo'[q] = todo[q] /\ fd'[q] = fd[q]
            /\ instRet'[q] = instRet[q]
        BY <3>4, OthersStay
      <4>2. Owes(q, f)'
        BY <3>1, <4>1, PendingStays DEF Owes, Set
      <4> QED
        BY <3>2, <4>2
    <3> QED
      BY <3>3, <3>4
  <2>2. CASE /\ Fixture!At(me, "creat") /\ Fixture!File(me) = f /\ entry[f] = Fixture!None
             /\ Fixture!Creat(me) /\ fd'[me][f] = entry'[f]
    <3>1. /\ todo[me] # << >> /\ instPhase' = instPhase /\ instRet' = instRet /\ Advances(me)
      BY <2>2 DEF Fixture!Creat, Fixture!Advance, Advances, Fixture!At
    <3>2. /\ Togo(me) \in 1..Longest(instPhase[me]) /\ Active(me) /\ instRet[me] = 0
          /\ OpAt(instPhase[me], Togo(me)) = "creat" /\ FileAt(instPhase[me], Togo(me)) = f
      BY <2>2, <3>1, AtStep
    <3>3. /\ instPhase[me] \in {"init", "warmup", "measure"}
          /\ f = "src" \/ FKind \in {"fs-copy", "fs-meta"}
          /\ instPhase[me] = "init" /\ f = "dst" =>
               \A u \in 1..Longest(instPhase[me]) : OpAt(instPhase[me], u) # "need"
      BY <3>2, Creates DEF Active
    <3>4. CASE Set(me)
      BY <3>1, <3>3, <3>4 DEF Owes, Set
    <3>5. CASE instPhase[me] = "init"
      <4>1. ASSUME Pending(me, "need", "src")' PROVE fd'[me]["src"] # Fixture!None
        <5>1. Pending(me, "need", "src")
          BY <3>1, <4>1, PendingMoves
        <5>2. PICK u \in 1..Togo(me) : OpAt("init", u) = "need"
          BY <3>5, <5>1 DEF Pending
        <5>3. u \in 1..Longest("init")
          BY <3>2, <3>5, LongestIsNat
        <5>4. f = "src"
          BY <3>3, <3>5, <5>2, <5>3 DEF Fixture!Files
        <5> QED
          BY <1>1, <2>2, <5>4
      <4>2. Owes(me, f)'
        BY <3>1, <3>2, <3>5, <4>1 DEF Owes
      <4> QED
        BY <3>3, <4>2
    <3> QED
      BY <3>3, <3>4, <3>5 DEF Set
  <2> QED
    BY <1>1, <2>1, <2>2, Entries
<1>2. ASSUME dir'
      PROVE  FKind = "fs-meta" /\ \E q \in Instances : OwesDir(q)'
  <2>1. CASE Fixture!At(me, "mkdir") /\ Fixture!Mkdir(me)
    <3>1. todo[me] # << >> /\ instPhase' = instPhase /\ instRet' = instRet
      BY <2>1 DEF Fixture!Mkdir, Fixture!At
    <3>2. /\ Active(me) /\ instRet[me] = 0
          /\ OpAt(instPhase[me], Togo(me)) = "mkdir"
      BY <2>1, <3>1, AtStep
    <3>3. FKind = "fs-meta" /\ instPhase[me] = "init"
      BY <3>2, FixtureKind DEF OpAt, FixtureKinds, Active
    <3> QED
      BY <3>1, <3>2, <3>3 DEF OwesDir
  <2>2. CASE dir /\ (Fixture!At(me, "rmdir") => \E f \in Fixture!Files : entry[f] # Fixture!None)
    <3>1. FKind = "fs-meta"
      BY <2>2 DEF Owed
    <3>2. ASSUME NEW q \in Instances, q # me, OwesDir(q)
          PROVE  OwesDir(q)'
      <4>1. /\ instPhase'[q] = instPhase[q] /\ todo'[q] = todo[q]
            /\ instRet'[q] = instRet[q]
        BY <3>2, OthersStay
      <4> QED
        BY <3>2, <4>1, PendingStays DEF OwesDir, Set
    <3>3. CASE ~Fixture!At(me, "rmdir")
      <4>1. PICK q \in Instances : OwesDir(q)
        BY <2>2 DEF Owed
      <4> QED
        BY <3>1, <3>2, <3>3, <4>1, OwesDirStep
    <3>4. CASE Fixture!At(me, "rmdir")
      <4>1. PICK f \in Fixture!Files, q \in Instances : Owes(q, f)
        BY <2>2, <3>4 DEF Owed
      <4>2. /\ todo[me] # << >> /\ Togo(me) \in 1..Longest(instPhase[me]) /\ Active(me)
            /\ OpAt(instPhase[me], Togo(me)) = "rmdir"
        BY <3>4, AtStep DEF Fixture!At
      <4>3. instPhase[me] = "cleanup" /\ Togo(me) = 1
        BY <3>1, <4>2, FixtureKind DEF OpAt, FixtureKinds, Active
      <4>4. ~Pending(me, "unlink", f)
        BY <3>1, <4>3, Removes DEF Pending
      <4>5. q # me
        BY <4>1, <4>3, <4>4 DEF Owes, Set
      <4>6. OwesDir(q)
        <5>1. CASE instPhase[q] = "cleanup" /\ Pending(q, "unlink", f)
          <6>1. Togo(q) \in Nat /\ \E t \in 1..Togo(q) : TRUE
            BY <5>1, Lengths DEF Pending
          <6>2. 1 \in 1..Togo(q)
            BY <6>1
          <6>3. Pending(q, "rmdir", "src")
            BY <3>1, <5>1, <6>2, Removes DEF Pending
          <6> QED
            BY <5>1, <6>3 DEF OwesDir
        <5> QED
          BY <4>1, <5>1 DEF Owes, OwesDir
      <4> QED
        BY <3>1, <3>2, <4>5, <4>6
    <3> QED
      BY <3>3, <3>4
  <2> QED
    BY <1>2, <2>1, <2>2, Directory
<1> QED
  BY <1>0, <1>1, <1>2 DEF Owed

(* When every instance is over nobody owes anything.                        *)
LEMMA NothingIsLeft ==
  ASSUME Fixture!TypeOK, Scripted, Owed, OpenToClose
  PROVE  Fixture!NothingLeftBehind
<1>1. SUFFICES ASSUME \A me \in Instances : instPhase[me] = "over"
               PROVE  /\ \A f \in Fixture!Files : entry[f] = Fixture!None
                      /\ ~dir
                      /\ \A me \in Instances, f \in Fixture!Files : fd[me][f] = Fixture!None
  BY DEF Fixture!NothingLeftBehind
<1>2. \A me \in Instances, f \in Fixture!Files : ~Owes(me, f) /\ ~OwesDir(me)
  BY <1>1 DEF Owes, OwesDir, Set
<1>3. \A me \in Instances : todo[me] = << >>
  BY <1>1 DEF Scripted, Active
<1>4. \A me \in Instances, f \in Fixture!Files : ~Pending(me, "close", f)
  BY <1>3, Lengths DEF Pending
<1>5. \A f \in Fixture!Files : entry[f] = Fixture!None
  BY <1>2 DEF Owed
<1>6. ~dir
  BY <1>2 DEF Owed, Fixture!Files
<1>7. \A me \in Instances, f \in Fixture!Files : fd[me][f] = Fixture!None
  BY <1>4 DEF OpenToClose
<1> QED
  BY <1>5, <1>6, <1>7

(* A step of a loop.                                                        *)
LoopsOn(me) ==
  /\ \E op \in Loops : Fixture!At(me, op)
  /\ todo' = todo /\ n[me] < Blocks /\ n' = [n EXCEPT ![me] = @ + 1]
  /\ \E s \in {0, 1} : off' = [off EXCEPT ![me] = @ + s] /\ (Fixture!At(me, "read") => s = 1)
  /\ \E m \in {0, 1} : moved' = [moved EXCEPT ![me] = @ + m]

(* Every step but a call goes on in the callback, goes round a loop once    *)
(* more, or gives up.                                                       *)
LEMMA LoopKinds ==
  ASSUME Fixture!TypeOK, Counters, NEW me \in Instances, Fixture!Step(me), ~Fixture!Call(me)
  PROVE  \/ Advances(me) /\ moved' = moved
         \/ Advances(me) /\ Fixture!At(me, "stat") /\ \E m \in {0, 1} : moved' = [moved EXCEPT ![me] = @ + m]
         \/ LoopsOn(me)
         \/ Gives(me) /\ Fixture!At(me, "need") /\ moved' = moved
<1> USE DEF Advances, Gives, Fixture!Advance
<1>0. /\ off[me] <= n[me] /\ n[me] \in 0..Blocks /\ off[me] \in 0..Blocks /\ Blocks \in Nat
      /\ Fixture!At(me, "read") => off[me] = n[me]
      /\ n \in [Instances -> 0..Blocks] /\ off \in [Instances -> 0..Blocks]
      /\ moved \in [Instances -> 0..(Passes + 1) * Blocks] /\ moved[me] \in Nat
      /\ \A f \in Fixture!Files : fd[me][f] # Fixture!None => size[fd[me][f]] \in 0..Blocks
  BY FixtureSizes DEF Fixture!TypeOK, Counters
<1>f. todo[me] # << >> => Fixture!File(me) \in Fixture!Files
  <2>1. todo[me] \in Seq(Fixture!Ops \X Fixture!Files)
    BY DEF Fixture!TypeOK
  <2> QED
    BY <2>1 DEF Fixture!File
<1>m. moved[me] + 0 = moved[me] /\ moved = [moved EXCEPT ![me] = @ + 0]
  BY <1>0
<1>1. CASE Fixture!Creat(me) \/ Fixture!Open(me) \/ Fixture!OpenFails(me)
  BY <1>1 DEF Fixture!Creat, Fixture!Open, Fixture!OpenFails
<1>2. CASE Fixture!Need(me)
  BY <1>2 DEF Fixture!Need
<1>3. CASE Fixture!Skip(me) \/ Fixture!Close(me)
  BY <1>3 DEF Fixture!Skip, Fixture!Close
<1>4. CASE Fixture!Unlink(me) \/ Fixture!Mkdir(me) \/ Fixture!Rmdir(me)
  BY <1>4 DEF Fixture!Unlink, Fixture!Mkdir, Fixture!Rmdir
<1>5. CASE Fixture!Stat(me)
  <2>1. Advances(me) /\ Fixture!At(me, "stat")
    BY <1>5 DEF Fixture!Stat
  <2>2. \E m \in {0, 1} : moved' = [moved EXCEPT ![me] = @ + m]
    BY <1>5 DEF Fixture!Stat, Fixture!Move
  <2> QED
    BY <2>1, <2>2
<1>6. CASE Fixture!Fill(me)
  <2>1. CASE n[me] = Blocks
    BY <1>6, <2>1 DEF Fixture!Fill
  <2>2. CASE n[me] # Blocks
    <3>1. Fixture!At(me, "fill") /\ ~Fixture!At(me, "read") /\ moved' = moved
      BY <1>6 DEF Fixture!Fill, Fixture!At
    <3>2. \E s \in {0, 1} : Fixture!Continue(me, s)
      BY <1>6, <2>2 DEF Fixture!Fill
    <3>6. \E op \in Loops : Fixture!At(me, op)
      BY <3>1 DEF Loops, Fixture!Transfers
    <3>7. \E s \in {0, 1} : off' = [off EXCEPT ![me] = @ + s] /\ (Fixture!At(me, "read") => s = 1)
      BY <3>1, <3>2 DEF Fixture!Continue
    <3>8. \E m \in {0, 1} : moved' = [moved EXCEPT ![me] = @ + m]
      BY <1>m, <3>1
    <3>9. todo' = todo /\ n[me] < Blocks /\ n' = [n EXCEPT ![me] = @ + 1]
      BY <1>0, <2>2, <3>2 DEF Fixture!Continue
    <3> QED
      BY <3>6, <3>7, <3>8, <3>9 DEF LoopsOn
  <2> QED
    BY <2>1, <2>2
<1>7. CASE Fixture!Rewrite(me)
  <2>1. CASE n[me] = Blocks
    BY <1>7, <2>1 DEF Fixture!Rewrite
  <2>2. CASE n[me] # Blocks
    <3>1. Fixture!At(me, "rewrite") /\ ~Fixture!At(me, "read")
      BY <1>7 DEF Fixture!Rewrite, Fixture!At
    <3>2. Fixture!Continue(me, 0) /\ (Fixture!Move(me, 1) \/ moved' = moved)
      BY <1>7, <2>2 DEF Fixture!Rewrite
    <3>3. \E m \in {0, 1} : moved' = [moved EXCEPT ![me] = @ + m]
      BY <1>m, <3>2 DEF Fixture!Move
    <3>6. \E op \in Loops : Fixture!At(me, op)
      BY <3>1 DEF Loops, Fixture!Transfers
    <3>7. \E s \in {0, 1} : off' = [off EXCEPT ![me] = @ + s] /\ (Fixture!At(me, "read") => s = 1)
      BY <3>1, <3>2 DEF Fixture!Continue
    <3>9. todo' = todo /\ n[me] < Blocks /\ n' = [n EXCEPT ![me] = @ + 1]
      BY <1>0, <2>2, <3>2 DEF Fixture!Continue
    <3> QED
      BY <3>6, <3>7, <3>3, <3>9 DEF LoopsOn
  <2> QED
    BY <2>1, <2>2
<1>8. CASE Fixture!Read(me)
  <2>1. CASE off[me] >= size[Fixture!Handle(me)]
    BY <1>8, <2>1 DEF Fixture!Read
  <2>2. CASE ~(off[me] >= size[Fixture!Handle(me)])
    <3>1. Fixture!At(me, "read") /\ Fixture!Handle(me) # Fixture!None /\ todo[me] # << >>
      BY <1>8 DEF Fixture!Read, Fixture!At
    <3>2. size[Fixture!Handle(me)] \in 0..Blocks
      BY <1>0, <1>f, <3>1 DEF Fixture!Handle
    <3>3. n[me] < Blocks
      BY <1>0, <2>2, <3>1, <3>2
    <3>4. Fixture!Continue(me, 1) /\ Fixture!Move(me, 1)
      BY <1>8, <2>2 DEF Fixture!Read
    <3>5. \E m \in {0, 1} : moved' = [moved EXCEPT ![me] = @ + m]
      BY <3>4 DEF Fixture!Move
    <3>6. \E op \in Loops : Fixture!At(me, op)
      BY <3>1 DEF Loops, Fixture!Transfers
    <3>7. \E s \in {0, 1} : off' = [off EXCEPT ![me] = @ + s] /\ (Fixture!At(me, "read") => s = 1)
      BY <3>1, <3>4 DEF Fixture!Continue
    <3>9. todo' = todo /\ n[me] < Blocks /\ n' = [n EXCEPT ![me] = @ + 1]
      BY <3>3, <3>4 DEF Fixture!Continue
    <3> QED
      BY <3>6, <3>7, <3>5, <3>9 DEF LoopsOn
  <2> QED
    BY <2>1, <2>2
<1>9. CASE Fixture!Pread(me)
  <2>1. CASE n[me] = Blocks
    BY <1>9, <2>1 DEF Fixture!Pread
  <2>2. CASE n[me] # Blocks
    <3>1. Fixture!At(me, "pread") /\ ~Fixture!At(me, "read")
      BY <1>9 DEF Fixture!Pread, Fixture!At
    <3>2. Fixture!Continue(me, 0) /\ \E m \in {0, 1} : Fixture!Move(me, m)
      BY <1>9, <2>2 DEF Fixture!Pread
    <3>6. \E op \in Loops : Fixture!At(me, op)
      BY <3>1 DEF Loops, Fixture!Transfers
    <3>7. \E s \in {0, 1} : off' = [off EXCEPT ![me] = @ + s] /\ (Fixture!At(me, "read") => s = 1)
      BY <3>1, <3>2 DEF Fixture!Continue
    <3>8. \E m \in {0, 1} : moved' = [moved EXCEPT ![me] = @ + m]
      BY <3>2 DEF Fixture!Move
    <3>9. todo' = todo /\ n[me] < Blocks /\ n' = [n EXCEPT ![me] = @ + 1]
      BY <1>0, <2>2, <3>2 DEF Fixture!Continue
    <3> QED
      BY <3>6, <3>7, <3>8, <3>9 DEF LoopsOn
  <2> QED
    BY <2>1, <2>2
<1>10. CASE Fixture!Copy(me)
  <2>1. CASE n[me] >= size[fd[me]["src"]]
    BY <1>10, <2>1 DEF Fixture!Copy
  <2>2. CASE ~(n[me] >= size[fd[me]["src"]])
    <3>1. Fixture!At(me, "copy") /\ ~Fixture!At(me, "read") /\ fd[me]["src"] # Fixture!None
      BY <1>10 DEF Fixture!Copy, Fixture!At
    <3>2. n[me] < Blocks
      <4>1. size[fd[me]["src"]] \in 0..Blocks
        BY <1>0, <3>1 DEF Fixture!Files
      <4> QED
        BY <1>0, <2>2, <4>1
    <3>3. Fixture!Move(me, 1) /\ \E s \in {0, 1} : Fixture!Continue(me, s)
      BY <1>10, <2>2 DEF Fixture!Copy
    <3>4. \E m \in {0, 1} : moved' = [moved EXCEPT ![me] = @ + m]
      BY <3>3 DEF Fixture!Move
    <3>6. \E op \in Loops : Fixture!At(me, op)
      BY <3>1 DEF Loops, Fixture!Transfers
    <3>7. \E s \in {0, 1} : off' = [off EXCEPT ![me] = @ + s] /\ (Fixture!At(me, "read") => s = 1)
      BY <3>1, <3>3 DEF Fixture!Continue
    <3>9. todo' = todo /\ n[me] < Blocks /\ n' = [n EXCEPT ![me] = @ + 1]
      BY <3>2, <3>3 DEF Fixture!Continue
    <3> QED
      BY <3>6, <3>7, <3>4, <3>9 DEF LoopsOn
  <2> QED
    BY <2>1, <2>2
<1>11. CASE Fixture!Spawn(me)
  <2>1. CASE n[me] = Blocks
    BY <1>11, <2>1 DEF Fixture!Spawn
  <2>2. CASE n[me] # Blocks
    <3>1. Fixture!At(me, "spawn") /\ ~Fixture!At(me, "read")
      BY <1>11 DEF Fixture!Spawn, Fixture!At
    <3>2. Fixture!Continue(me, 0) /\ (moved' = moved \/ \E m \in {0, 1} : Fixture!Move(me, m))
      BY <1>11, <2>2 DEF Fixture!Spawn
    <3>3. \E m \in {0, 1} : moved' = [moved EXCEPT ![me] = @ + m]
      BY <1>m, <3>2 DEF Fixture!Move
    <3>6. \E op \in Loops : Fixture!At(me, op)
      BY <3>1 DEF Loops, Fixture!Transfers
    <3>7. \E s \in {0, 1} : off' = [off EXCEPT ![me] = @ + s] /\ (Fixture!At(me, "read") => s = 1)
      BY <3>1, <3>2 DEF Fixture!Continue
    <3>9. todo' = todo /\ n[me] < Blocks /\ n' = [n EXCEPT ![me] = @ + 1]
      BY <1>0, <2>2, <3>2 DEF Fixture!Continue
    <3> QED
      BY <3>6, <3>7, <3>3, <3>9 DEF LoopsOn
  <2> QED
    BY <2>1, <2>2
<1> QED
  BY <1>1, <1>2, <1>3, <1>4, <1>5, <1>6, <1>7, <1>8, <1>9, <1>10, <1>11 DEF Fixture!Step

(* A loop counter is zero outside its loop, whoever takes a step.           *)
LEMMA CountersStep ==
  ASSUME Fixture!TypeOK, Counters, NEW me \in Instances, Fixture!Step(me)
  PROVE  Counters'
<1>1. SUFFICES ASSUME NEW q \in Instances
               PROVE  /\ off'[q] <= n'[q]
                      /\ Fixture!At(q, "read")' => off'[q] = n'[q]
                      /\ (\A op \in Loops : ~Fixture!At(q, op)') => n'[q] = 0 /\ off'[q] = 0
  BY DEF Counters, Loops, Fixture!Transfers
<1>2. /\ off[q] <= n[q] /\ n[q] \in Nat /\ off[q] \in Nat
      /\ Fixture!At(q, "read") => off[q] = n[q]
      /\ (\A op \in Loops : ~Fixture!At(q, op)) => n[q] = 0 /\ off[q] = 0
  BY FixtureSizes DEF Counters, Fixture!TypeOK
<1>3. CASE q # me
  <2>1. todo'[q] = todo[q] /\ n'[q] = n[q] /\ off'[q] = off[q]
    BY <1>3, OthersStay
  <2> QED
    BY <1>2, <2>1 DEF Fixture!At
<1>4. CASE q = me /\ Fixture!Call(me)
  <2>1. todo[me] = << >> /\ n' = n /\ off' = off
    BY <1>4 DEF Fixture!Call
  <2>2. n[me] = 0 /\ off[me] = 0
    BY <1>2, <1>4, <2>1 DEF Fixture!At
  <2> QED
    BY <1>4, <2>1, <2>2
<1>5. CASE q = me /\ ~Fixture!Call(me)
  <2>1. CASE Advances(me)
    <3>1. n'[me] = 0 /\ off'[me] = 0
      BY <2>1 DEF Advances, Fixture!TypeOK
    <3> QED
      BY <1>5, <3>1
  <2>2. CASE LoopsOn(me)
    <3>1. PICK s \in {0, 1} : off' = [off EXCEPT ![me] = @ + s] /\ (Fixture!At(me, "read") => s = 1)
      BY <2>2 DEF LoopsOn
    <3>2. n'[me] = n[me] + 1 /\ off'[me] = off[me] + s /\ todo' = todo
      BY <2>2, <3>1 DEF LoopsOn, Fixture!TypeOK
    <3>3. \A op : Fixture!At(me, op)' <=> Fixture!At(me, op)
      BY <3>2 DEF Fixture!At
    <3>4. \E op \in Loops : Fixture!At(me, op)
      BY <2>2 DEF LoopsOn
    <3> QED
      BY <1>2, <1>5, <3>1, <3>2, <3>3, <3>4
  <2>3. CASE Gives(me) /\ Fixture!At(me, "need")
    <3>1. \A op \in Loops : ~Fixture!At(me, op)
      BY <2>3 DEF Loops, Fixture!Transfers, Fixture!At
    <3>2. n' = n /\ off' = off
      BY <2>3 DEF Gives
    <3> QED
      BY <1>2, <1>5, <3>1, <3>2
  <2> QED
    BY <1>5, <2>1, <2>2, <2>3, LoopKinds
<1> QED
  BY <1>3, <1>4, <1>5

(* Products of passes and blocks, for a prover that does not multiply.      *)
LEMMA PassSizes ==
  ASSUME NEW q \in 0..Passes
  PROVE  /\ q * Blocks \in Nat /\ (q + 1) * Blocks = q * Blocks + Blocks
         /\ Blocks <= (Passes + 1) * Blocks /\ 2 <= (Passes + 1) * Blocks
         /\ (Passes + 1) * Blocks \in Nat
         /\ q * Blocks + Blocks <= (Passes + 1) * Blocks
         /\ q < Passes => q * Blocks + Blocks <= Passes * Blocks
<1>1. /\ Blocks \in Nat /\ Blocks >= 1 /\ Passes \in Nat /\ Passes >= 1 /\ q \in Nat /\ q <= Passes
  BY FixtureSizes
<1>2. \A x, y \in Nat : x * Blocks \in Nat /\ (x + 1) * Blocks = x * Blocks + Blocks
  BY <1>1
<1>3. \A x, y \in Nat : x <= y => x * Blocks <= y * Blocks
  <2>1. SUFFICES ASSUME NEW x \in Nat, NEW y \in Nat, x <= y PROVE x * Blocks <= y * Blocks
    OBVIOUS
  <2>2. PICK d \in Nat : y = x + d
    BY <2>1
  <2>3. y * Blocks = x * Blocks + d * Blocks /\ d * Blocks \in Nat /\ x * Blocks \in Nat
    BY <1>1, <2>2
  <2> QED
    BY <2>3
<1>4. 2 * Blocks <= (Passes + 1) * Blocks /\ q * Blocks <= Passes * Blocks
  BY <1>1, <1>3
<1>5. q < Passes => (q + 1) * Blocks <= Passes * Blocks
  BY <1>1, <1>3
<1> QED
  BY <1>1, <1>2, <1>4, <1>5

(* At most one loop in a callback but the measure of fs_copy, and the tables *)
(* of the rest.                                                             *)
LEMMA OneLoop ==
  ASSUME NEW p \in {"init", "warmup", "measure", "cleanup"},
         NEW t \in 1..Longest(p), NEW u \in 1..Longest(p), OpAt(p, t) \in Loops,
         OpAt(p, u) \in Loops, ~(FKind = "fs-copy" /\ p = "measure")
  PROVE  t = u
<1>0. FKind \in FixtureKinds /\ t \in Nat /\ u \in Nat
  BY FixtureKind, LongestIsNat
<1>1. CASE p = "init"
  BY <1>0, <1>1 DEF OpAt, Longest, FixtureKinds, Loops, Fixture!Transfers
<1>2. CASE p = "warmup" /\ FKind = "fs-copy"
  <2>1. t \in 1..5 /\ u \in 1..5
    BY <1>0, <1>2 DEF Longest
  <2>2. t % 5 = 3 /\ u % 5 = 3
    BY <1>2 DEF OpAt, Loops, Fixture!Transfers
  <2>3. \A x \in 1..5 : x % 5 = 3 => x = 3
    OBVIOUS
  <2> QED
    BY <2>1, <2>2, <2>3
<1>3. CASE p = "warmup" /\ FKind # "fs-copy"
  BY <1>0, <1>3 DEF OpAt, Longest, FixtureKinds, Loops, Fixture!Transfers
<1>4. CASE p = "measure"
  BY <1>0, <1>4 DEF OpAt, Longest, FixtureKinds, Loops, Fixture!Transfers
<1>5. CASE p \notin {"init", "warmup", "measure"}
  BY <1>0, <1>5 DEF OpAt, Longest, FixtureKinds, Loops, Fixture!Transfers
<1> QED
  BY <1>1, <1>2, <1>3, <1>4, <1>5

(* Only the measure of fs_meta looks names up, and fs_meta has no loops.    *)
LEMMA Stats ==
  ASSUME NEW p \in {"init", "warmup", "measure", "cleanup"}, NEW t \in 1..Longest(p)
  PROVE  /\ OpAt(p, t) = "stat" <=> FKind = "fs-meta" /\ p = "measure"
         /\ FKind = "fs-meta" => OpAt(p, t) \notin Loops
<1>0. FKind \in FixtureKinds
  BY FixtureKind
<1> QED
  BY <1>0, LongestIsNat DEF OpAt, Longest, FixtureKinds, Loops, Fixture!Transfers

(* The loop of a copy is its third step.                                    *)
LEMMA CopyLoops ==
  ASSUME FKind = "fs-copy", NEW t, OpAt("measure", t) \in Loops
  PROVE  t % 5 = 3
  BY DEF OpAt, Loops, Fixture!Transfers

(* No call counts more than its loops go round, whatever fails.             *)
LEMMA AmountsStep ==
  ASSUME Fixture!TypeOK, Scripted, Counters, Amounts, bench' = bench,
         NEW me \in Instances, Fixture!Step(me)
  PROVE  Amounts'
<1>0. FKind' = FKind /\ FKind \in FixtureKinds
  BY FixtureKind DEF FKind
<1>1. SUFFICES ASSUME NEW x \in Instances
      PROVE
        /\ moved'[x] \in Nat
        /\ FKind = "fs-copy" /\ instPhase'[x] = "measure" =>
             \E q \in 0..Passes, r \in 0..4 :
               /\ Len(todo'[x]) = 5 * (Passes - q) - r
               /\ r < 2 => moved'[x] <= q * Blocks
               /\ r = 2 => moved'[x] <= q * Blocks + n'[x]
               /\ r > 2 => moved'[x] <= q * Blocks + Blocks
        /\ FKind = "fs-meta" =>
             /\ instPhase'[x] = "measure" => moved'[x] + Len(todo'[x]) <= 2
             /\ instPhase'[x] # "measure" => moved'[x] = 0
        /\ FKind # "fs-meta" /\ ~(FKind = "fs-copy" /\ instPhase'[x] = "measure") =>
             /\ moved'[x] <= Blocks
             /\ \A t \in 1..Len(todo'[x]) : OpAt(instPhase'[x], t) \in Loops =>
                  moved'[x] <= IF t = Len(todo'[x]) THEN n'[x] ELSE 0
  BY <1>0, TablesStay DEF Amounts, Copies, InPass, Togo, Loops, Fixture!Transfers
<1>2. /\ moved[x] \in Nat /\ n[x] \in 0..Blocks /\ Togo(x) \in Nat /\ Blocks \in Nat \ {0}
      /\ FKind = "fs-copy" /\ instPhase[x] = "measure" =>
           \E q \in 0..Passes, r \in 0..4 :
             /\ Togo(x) = 5 * (Passes - q) - r
             /\ r < 2 => moved[x] <= q * Blocks
             /\ r = 2 => moved[x] <= q * Blocks + n[x]
             /\ r > 2 => moved[x] <= q * Blocks + Blocks
      /\ FKind = "fs-meta" =>
           /\ instPhase[x] = "measure" => moved[x] + Togo(x) <= 2
           /\ instPhase[x] # "measure" => moved[x] = 0
      /\ FKind # "fs-meta" /\ ~(FKind = "fs-copy" /\ instPhase[x] = "measure") =>
           /\ moved[x] <= Blocks
           /\ \A t \in 1..Togo(x) : OpAt(instPhase[x], t) \in Loops =>
                moved[x] <= IF t = Togo(x) THEN n[x] ELSE 0
  BY FixtureSizes, Lengths DEF Amounts, Copies, InPass, Fixture!TypeOK
<1>3. CASE x # me
  <2>1. todo'[x] = todo[x] /\ n'[x] = n[x] /\ moved'[x] = moved[x] /\ instPhase'[x] = instPhase[x]
    BY <1>3, OthersStay
  <2> QED
    BY <1>2, <2>1 DEF Togo
<1>4. CASE x = me /\ Fixture!Call(me)
  <2>1. /\ moved'[me] = 0 /\ n'[me] = n[me] /\ todo[me] = << >>
        /\ instPhase'[me] \in {"init", "warmup", "measure", "cleanup", "over"}
        /\ instPhase'[me] = "over" => todo'[me] = << >>
        /\ instPhase'[me] # "over" => FixtureScript(todo'[me], instPhase'[me])
    BY <1>4, CallFacts DEF Fixture!TypeOK
  <2>2. instPhase'[me] # "over" => Len(todo'[me]) = Longest(instPhase'[me])
    BY <2>1 DEF FixtureScript
  <2>3. CASE FKind = "fs-copy" /\ instPhase'[me] = "measure"
    <3>1. Len(todo'[me]) = 5 * (Passes - 0) - 0
      BY <2>2, <2>3, FixtureSizes DEF Longest
    <3>2. 0 \in 0..Passes /\ 0 \in 0..4 /\ 0 * Blocks = 0
      BY FixtureSizes
    <3>3. \E q \in 0..Passes, r \in 0..4 :
             /\ Len(todo'[me]) = 5 * (Passes - q) - r
             /\ r < 2 => 0 <= q * Blocks
             /\ r = 2 => 0 <= q * Blocks + n[me]
             /\ r > 2 => 0 <= q * Blocks + Blocks
      BY <3>1, <3>2
    <3> QED
      BY <1>4, <2>1, <2>3, <3>3
  <2>4. CASE FKind = "fs-meta"
    <3>1. instPhase'[me] = "measure" => Len(todo'[me]) = 2
      BY <2>2, <2>4 DEF Longest
    <3>2. ASSUME instPhase'[me] = "measure"
          PROVE  moved'[me] + Len(todo'[me]) <= 2
      <4>1. PICK l : l = Len(todo'[me])
        OBVIOUS
      <4>2. l = 2 /\ moved'[me] = 0
        BY <2>1, <3>1, <3>2, <4>1
      <4>3. 0 + 2 <= 2
        OBVIOUS
      <4> QED
        BY <4>1, <4>2, <4>3
    <3> QED
      BY <1>4, <2>1, <2>4, <3>2
  <2>5. CASE FKind # "fs-meta" /\ ~(FKind = "fs-copy" /\ instPhase'[me] = "measure")
    BY <1>2, <1>4, <2>1, <2>5
  <2> QED
    BY <1>4, <2>1, <2>3, <2>4, <2>5
<1>5. CASE x = me /\ ~Fixture!Call(me)
  <2>1. /\ todo[me] # << >> /\ UNCHANGED instPhase
    BY <1>5, StepKinds
  <2>2. /\ Togo(me) \in 1..Longest(instPhase[me]) /\ Active(me)
        /\ \A op : Fixture!At(me, op) <=> OpAt(instPhase[me], Togo(me)) = op
    BY <2>1, AtStep
  <2>3. CASE Advances(me) /\ moved' = moved
    <3>1. Len(todo'[me]) = Togo(me) - 1 /\ n'[me] = 0 /\ moved'[me] = moved[me]
      BY <2>1, <2>3, Lengths DEF Advances, Fixture!TypeOK
    <3>2. CASE FKind = "fs-copy" /\ instPhase[me] = "measure"
      <4>1. PICK q \in 0..Passes, r \in 0..4 :
              /\ Togo(me) = 5 * (Passes - q) - r
              /\ r < 2 => moved[me] <= q * Blocks
              /\ r = 2 => moved[me] <= q * Blocks + n[me]
              /\ r > 2 => moved[me] <= q * Blocks + Blocks
        BY <1>2, <1>5, <3>2
      <4>2. CASE r < 4
        <5>1. r + 1 \in 0..4 /\ Togo(me) - 1 = 5 * (Passes - q) - (r + 1)
          <6>1. Passes \in Nat /\ q \in Nat /\ Togo(me) \in Nat
            BY <1>2, <1>5, FixtureSizes
          <6> QED
            BY <4>1, <4>2, <6>1
        <5>0. q * Blocks \in Nat
          BY PassSizes
        <5>2. /\ r + 1 < 2 => moved[me] <= q * Blocks
              /\ r + 1 = 2 => moved[me] <= q * Blocks + 0
              /\ r + 1 > 2 => moved[me] <= q * Blocks + Blocks
          BY <1>2, <1>5, <4>1, <4>2, <5>0
        <5> QED
          BY <1>2, <1>5, <2>1, <3>1, <3>2, <5>1, <5>2
      <4>3. CASE r = 4
        <5>1. q < Passes /\ q + 1 \in 0..Passes /\ Togo(me) - 1 = 5 * (Passes - (q + 1)) - 0
          <6>1. Passes \in Nat /\ q \in Nat /\ q <= Passes /\ Togo(me) \in Nat /\ Togo(me) >= 1
            BY <1>2, <1>5, <2>2, FixtureSizes
          <6> QED
            BY <4>1, <4>3, <6>1
        <5>2. moved[me] <= (q + 1) * Blocks
          BY <4>1, <4>3, PassSizes
        <5>3. 0 \in 0..4 /\ 0 < 2
          OBVIOUS
        <5> QED
          BY <1>2, <1>5, <2>1, <3>1, <3>2, <5>1, <5>2, <5>3
      <4> QED
        BY <4>2, <4>3
    <3>3. CASE FKind = "fs-meta"
      BY <1>2, <1>5, <2>1, <3>1, <3>3
    <3>4. CASE FKind # "fs-meta" /\ ~(FKind = "fs-copy" /\ instPhase[me] = "measure")
      <4>1. ASSUME NEW t \in 1..Togo(me) - 1, OpAt(instPhase[me], t) \in Loops
            PROVE  moved[me] <= 0
        <5>1. t \in 1..Togo(me) /\ t # Togo(me)
          BY <1>2, <1>5
        <5> QED
          BY <1>2, <1>5, <3>4, <4>1, <5>1
      <4> QED
        BY <1>2, <1>5, <2>1, <3>1, <3>4, <4>1
    <3> QED
      BY <3>2, <3>3, <3>4
  <2>4. CASE Advances(me) /\ Fixture!At(me, "stat") /\ \E m \in {0, 1} : moved' = [moved EXCEPT ![me] = @ + m]
    <3>1. PICK m \in {0, 1} : moved' = [moved EXCEPT ![me] = @ + m]
      BY <2>4
    <3>2. Len(todo'[me]) = Togo(me) - 1 /\ moved'[me] = moved[me] + m
      BY <2>1, <2>4, <3>1, Lengths DEF Advances, Fixture!TypeOK
    <3>3. FKind = "fs-meta" /\ instPhase[me] = "measure"
      BY <2>2, <2>4, Stats DEF Active
    <3> QED
      BY <1>2, <1>5, <2>1, <3>1, <3>2, <3>3
  <2>5. CASE LoopsOn(me)
    <3>1. PICK m \in {0, 1} : moved' = [moved EXCEPT ![me] = @ + m]
      BY <2>5 DEF LoopsOn
    <3>2. /\ todo' = todo /\ moved'[me] = moved[me] + m
          /\ n[me] < Blocks /\ n'[me] = n[me] + 1
      BY <2>5, <3>1 DEF LoopsOn, Fixture!TypeOK
    <3>3. OpAt(instPhase[me], Togo(me)) \in Loops
      BY <2>2, <2>5 DEF LoopsOn
    <3>4. CASE FKind = "fs-copy" /\ instPhase[me] = "measure"
      <4>1. PICK q \in 0..Passes, r \in 0..4 :
              /\ Togo(me) = 5 * (Passes - q) - r
              /\ r < 2 => moved[me] <= q * Blocks
              /\ r = 2 => moved[me] <= q * Blocks + n[me]
              /\ r > 2 => moved[me] <= q * Blocks + Blocks
        BY <1>2, <1>5, <3>4
      <4>2. Togo(me) % 5 = 3
        BY <3>3, <3>4, CopyLoops
      <4>3. r = 2
        <5>1. CASE r = 0
          <6>1. Togo(me) = 5 * (Passes - q) + 0 /\ Passes - q \in Int /\ 0 \in 0..4
            BY <4>1, <5>1, FixtureSizes
          <6> QED
            BY <4>2, <6>1, Fives
        <5>2. CASE r \in 1..4
          <6>1. Togo(me) = 5 * (Passes - q - 1) + (5 - r) /\ Passes - q - 1 \in Int /\ 5 - r \in 0..4
            BY <4>1, <5>2, FixtureSizes
          <6>2. Togo(me) % 5 = 5 - r
            BY <6>1, Fives
          <6> QED
            BY <4>2, <5>2, <6>2
        <5> QED
          BY <5>1, <5>2
      <4>4. moved[me] + m <= q * Blocks + (n[me] + 1)
        BY <1>2, <1>5, <3>1, <4>1, <4>3, PassSizes
      <4>5. \E q2 \in 0..Passes, r2 \in 0..4 :
              /\ Togo(me) = 5 * (Passes - q2) - r2
              /\ r2 < 2 => moved[me] + m <= q2 * Blocks
              /\ r2 = 2 => moved[me] + m <= q2 * Blocks + (n[me] + 1)
              /\ r2 > 2 => moved[me] + m <= q2 * Blocks + Blocks
        BY <4>1, <4>3, <4>4
      <4>6. Len(todo'[me]) = Togo(me) /\ moved[me] + m \in Nat
        BY <1>2, <1>5, <3>1, <3>2 DEF Togo
      <4> QED
        BY <1>5, <2>1, <3>2, <3>4, <4>5, <4>6
    <3>5. CASE FKind = "fs-meta"
      BY <2>2, <3>3, <3>5, Stats DEF Active
    <3>6. CASE FKind # "fs-meta" /\ ~(FKind = "fs-copy" /\ instPhase[me] = "measure")
      <4>1. Togo(me) \in 1..Togo(me)
        BY <2>2, LongestIsNat
      <4>2. moved[me] <= n[me]
        BY <1>2, <1>5, <3>3, <3>6, <4>1
      <4>3. ASSUME NEW t \in 1..Togo(me), OpAt(instPhase[me], t) \in Loops
            PROVE  t = Togo(me)
        BY <2>2, <3>3, <3>6, <4>3, OneLoop, LongestIsNat DEF Active
      <4>4. /\ moved[me] + m <= n[me] + 1 /\ moved[me] + m <= Blocks /\ moved[me] + m \in Nat
        BY <1>2, <1>5, <3>1, <3>2, <4>2
      <4> QED
        BY <1>5, <2>1, <3>2, <3>6, <4>3, <4>4 DEF Togo
    <3> QED
      BY <3>4, <3>5, <3>6
  <2>6. CASE Gives(me) /\ Fixture!At(me, "need") /\ moved' = moved
    <3>1. OpAt(instPhase[me], Togo(me)) = "need" /\ todo'[me] = << >> /\ moved'[me] = moved[me]
      BY <2>2, <2>6 DEF Gives, Fixture!TypeOK
    <3>2. ~(FKind = "fs-copy" /\ instPhase[me] = "measure") /\ FKind # "fs-meta"
      BY <2>2, <3>1, NeedsOneFile DEF OpAt
    <3> QED
      BY <1>2, <1>5, <2>1, <3>1, <3>2
  <2> QED
    BY <1>5, <2>3, <2>4, <2>5, <2>6, LoopKinds
<1> QED
  BY <1>3, <1>4, <1>5

(* Every step keeps the state of the fixtures within its types.             *)
LEMMA FixtureTypesStep ==
  ASSUME Fixture!TypeOK, Scripted, Counters, Amounts, bench' = bench,
         NEW me \in Instances, Fixture!Step(me)
  PROVE  Fixture!TypeOK'
<1> USE DEF Fixture!TypeOK
<1>0. /\ Fixture!Kinds' = Fixture!Kinds /\ FKind' = FKind
      /\ FKind \in Fixture!Kinds
  BY DEF FKind, Fixture!Kinds, Fixture!Callbacks
<1>z. Fixture!None \notin Fixture!Inodes
  BY DEF Fixture!None, Fixture!Inodes
<1>a. todo[me] # << >> => Fixture!File(me) \in Fixture!Files
  <2>1. todo[me] \in Seq(Fixture!Ops \X Fixture!Files)
    OBVIOUS
  <2> QED
    BY <2>1 DEF Fixture!File
<1>1. instPhase' \in [Instances -> {"new", "init", "warmup", "measure", "cleanup", "over"}]
      /\ instCalls' \in [Instances -> 0..FixtureCalls] /\ since' \in [Instances -> SUBSET Instances]
  <2>1. CASE Fixture!Call(me)
    <3>1. /\ instPhase' = [instPhase EXCEPT ![me] = instPhase'[me]]
          /\ instPhase'[me] \in {"init", "warmup", "measure", "cleanup", "over"}
          /\ instPhase'[me] = "measure" =>
               /\ instCalls[me] < FixtureCalls /\ instCalls' = [instCalls EXCEPT ![me] = @ + 1]
               /\ since' = [since EXCEPT ![me] = {q \in Instances : Set(q)}]
          /\ instPhase'[me] # "measure" => UNCHANGED << instCalls, since >>
      BY <2>1, CallFacts
    <3>2. instPhase' \in [Instances -> {"new", "init", "warmup", "measure", "cleanup", "over"}]
      BY <3>1
    <3>3. instPhase'[me] = "measure" => instCalls[me] + 1 \in 0..FixtureCalls
      BY <3>1, FixtureSizes
    <3>4. instCalls' \in [Instances -> 0..FixtureCalls]
      BY <3>1, <3>3
    <3>5. since' \in [Instances -> SUBSET Instances]
      <4>1. {q \in Instances : Set(q)} \in SUBSET Instances
        OBVIOUS
      <4> QED
        BY <3>1, <4>1, ZenonT(60)
    <3> QED
      BY <3>2, <3>4, <3>5
  <2>2. CASE ~Fixture!Call(me)
    BY <2>2, StepKinds
  <2> QED
    BY <2>1, <2>2
<1>2. todo' \in [Instances -> Seq(Fixture!Ops \X Fixture!Files)] /\ instRet' \in [Instances -> {0, -1}]
  <2>1. CASE Fixture!Call(me)
    <3>1. todo' = [todo EXCEPT ![me] = todo'[me]] /\ instRet' = [instRet EXCEPT ![me] = 0]
      BY <2>1 DEF Fixture!Call
    <3>2. todo'[me] \in Seq(Fixture!Ops \X Fixture!Files)
      <4>1. \/ todo'[me] = << >>
            \/ FixtureScript(todo'[me], instPhase'[me])
        BY <2>1, CallFacts
      <4>2. << >> \in Seq(Fixture!Ops \X Fixture!Files)
        OBVIOUS
      <4> QED
        BY <4>1, <4>2 DEF FixtureScript
    <3> QED
      BY <3>1, <3>2
  <2>2. CASE ~Fixture!Call(me)
    <3>1. todo[me] # << >>
          /\ \/ Advances(me) /\ instRet' = instRet
             \/ todo' = todo /\ instRet' = instRet
             \/ Gives(me)
      BY <2>2, StepKinds
    <3>2. Tail(todo[me]) \in Seq(Fixture!Ops \X Fixture!Files)
      BY <3>1
    <3>3. << >> \in Seq(Fixture!Ops \X Fixture!Files)
      OBVIOUS
    <3>4. CASE Advances(me) /\ instRet' = instRet
      BY <3>2, <3>4 DEF Advances
    <3>5. CASE todo' = todo /\ instRet' = instRet
      BY <3>5
    <3>6. CASE Gives(me)
      BY <3>3, <3>6 DEF Gives
    <3> QED
      BY <3>1, <3>4, <3>5, <3>6
  <2> QED
    BY <2>1, <2>2
<1>3. /\ n' \in [Instances -> 0..Blocks] /\ off' \in [Instances -> 0..Blocks]
      /\ moved' \in [Instances -> 0..(Passes + 1) * Blocks]
  <2>1. n' \in [Instances -> 0..Blocks] /\ off' \in [Instances -> Int]
        /\ moved' = [moved EXCEPT ![me] = moved'[me]]
    <3>1. CASE Fixture!Call(me)
      BY <3>1 DEF Fixture!Call
    <3>2. CASE Advances(me) /\ moved' = moved
      BY <3>2, FixtureSizes DEF Advances
    <3>3. CASE Advances(me) /\ \E m \in {0, 1} : moved' = [moved EXCEPT ![me] = @ + m]
      BY <3>3, FixtureSizes DEF Advances
    <3>4. CASE LoopsOn(me)
      <4>1. n[me] + 1 \in 0..Blocks /\ n' = [n EXCEPT ![me] = n[me] + 1]
        BY <3>4, FixtureSizes DEF LoopsOn
      <4>2. off' \in [Instances -> Int]
        <5>1. PICK s \in {0, 1} : off' = [off EXCEPT ![me] = @ + s]
          BY <3>4 DEF LoopsOn
        <5>2. off[me] + s \in Int
          OBVIOUS
        <5> QED
          BY <5>1, <5>2
      <4>3. moved' = [moved EXCEPT ![me] = moved'[me]]
        BY <3>4 DEF LoopsOn
      <4> QED
        BY <4>1, <4>2, <4>3
    <3>5. CASE Gives(me) /\ moved' = moved
      BY <3>5 DEF Gives
    <3> QED
      BY <3>1, <3>2, <3>3, <3>4, <3>5, LoopKinds
  <2>2. off' \in [Instances -> 0..Blocks]
    <3>1. \A q \in Instances : off'[q] <= n'[q]
      BY CountersStep DEF Counters
    <3>2. ASSUME NEW q \in Instances PROVE off'[q] \in 0..Blocks
      <4>1. CASE q # me
        BY <4>1, OthersStay
      <4>2. CASE q = me
        <5>1. off'[me] >= 0
          <6>1. CASE Fixture!Call(me)
            BY <6>1 DEF Fixture!Call
          <6>2. CASE Advances(me)
            BY <6>2 DEF Advances
          <6>3. CASE LoopsOn(me)
            <7>1. PICK s \in {0, 1} : off' = [off EXCEPT ![me] = @ + s]
              BY <6>3 DEF LoopsOn
            <7> QED
              BY <7>1
          <6>4. CASE Gives(me)
            BY <6>4 DEF Gives
          <6> QED
            BY <6>1, <6>2, <6>3, <6>4, LoopKinds
        <5>2. off'[me] <= n'[me] /\ n'[me] \in 0..Blocks /\ off'[me] \in Int
          BY <2>1, <3>1
        <5> QED
          BY <4>2, <5>1, <5>2, FixtureSizes
      <4> QED
        BY <4>1, <4>2
    <3> QED
      BY <2>1, <3>2
  <2>3. moved'[me] \in 0..(Passes + 1) * Blocks
    <3>1. moved'[me] \in Nat /\ moved'[me] <= (Passes + 1) * Blocks
      <4>1. Amounts'
        BY AmountsStep
      <4>2. n'[me] \in 0..Blocks
        BY <2>1
      <4>3. CASE Copies(me)'
        <5>1. PICK q \in 0..Passes, r \in 0..4 :
                 /\ r < 2 => moved'[me] <= q * Blocks
                 /\ r = 2 => moved'[me] <= q * Blocks + n'[me]
                 /\ r > 2 => moved'[me] <= q * Blocks + Blocks
          BY <4>1, <4>3 DEF Amounts
        <5>2. moved'[me] \in Nat
          BY <4>1 DEF Amounts
        <5>3. /\ q * Blocks \in Nat /\ Blocks \in Nat /\ (Passes + 1) * Blocks \in Nat
              /\ q * Blocks + Blocks <= (Passes + 1) * Blocks
          BY FixtureSizes, PassSizes
        <5> DEFINE a == q * Blocks
        <5> HIDE DEF a
        <5>4. /\ r < 2 => moved'[me] <= a
              /\ r = 2 => moved'[me] <= a + n'[me]
              /\ r > 2 => moved'[me] <= a + Blocks
          BY <5>1 DEF a
        <5>5. a \in Nat /\ a + Blocks <= (Passes + 1) * Blocks
          BY <5>3 DEF a
        <5>6. moved'[me] <= a + Blocks
          BY <4>2, <5>2, <5>3, <5>4, <5>5
        <5> QED
          BY <5>2, <5>3, <5>5, <5>6
      <4>4. CASE FKind = "fs-meta"
        <5>1. moved'[me] \in Nat /\ (moved'[me] = 0 \/ moved'[me] + Togo(me)' <= 2)
          BY <1>0, <4>1, <4>4 DEF Amounts
        <5>2. Togo(me)' \in Nat
          BY <1>2 DEF Togo
        <5>3. moved'[me] <= 2
          BY <5>1, <5>2
        <5>4. 0 \in 0..Passes
          BY FixtureSizes
        <5> QED
          BY <5>1, <5>3, <5>4, PassSizes
      <4>5. CASE FKind # "fs-meta" /\ ~Copies(me)'
        <5>1. moved'[me] \in Nat /\ moved'[me] <= Blocks
          BY <1>0, <4>1, <4>5 DEF Amounts
        <5>2. 0 \in 0..Passes
          BY FixtureSizes
        <5>3. Blocks \in Nat /\ Blocks <= (Passes + 1) * Blocks /\ (Passes + 1) * Blocks \in Nat
          BY <5>2, PassSizes, FixtureSizes
        <5> QED
          BY <5>1, <5>3
      <4> QED
        BY <4>3, <4>4, <4>5
    <3>2. 0 \in 0..Passes
      BY FixtureSizes
    <3> QED
      BY <3>1, <3>2, PassSizes
  <2> QED
    BY <2>1, <2>2, <2>3
<1>4. /\ fd' \in [Instances -> [Fixture!Files -> Fixture!Inodes \cup {Fixture!None}]]
      /\ entry' \in [Fixture!Files -> Fixture!Inodes \cup {Fixture!None}]
      /\ size' \in [Fixture!Inodes -> 0..Blocks]
      /\ dir' \in BOOLEAN /\ faults' \in 0..MaxFaults
  <2> DEFINE Disk == /\ fd' \in [Instances -> [Fixture!Files -> Fixture!Inodes \cup {Fixture!None}]]
                     /\ entry' \in [Fixture!Files -> Fixture!Inodes \cup {Fixture!None}]
                     /\ size' \in [Fixture!Inodes -> 0..Blocks]
                     /\ dir' \in BOOLEAN /\ faults' \in 0..MaxFaults
  <2>0. Fixture!Fails => faults' \in 0..MaxFaults
    BY FixtureSizes DEF Fixture!Fails
  <2>s. \A f \in Fixture!Files : fd[me][f] # Fixture!None => fd[me][f] \in Fixture!Inodes
    OBVIOUS
  <2>g. ASSUME NEW x \in Fixture!Inodes, NEW e \in 0..Blocks, Fixture!Grow(x, e)
        PROVE  size' \in [Fixture!Inodes -> 0..Blocks]
    BY <2>g DEF Fixture!Grow
  <2>1. CASE Fixture!Creat(me)
    <3>1. Fixture!File(me) \in Fixture!Files
      BY <1>a, <2>1 DEF Fixture!Creat, Fixture!At
    <3>2. PICK x \in Fixture!Inodes :
            /\ entry' = [entry EXCEPT ![Fixture!File(me)] = x]
            /\ size' = [size EXCEPT ![x] = 0]
            /\ fd' = [fd EXCEPT ![me][Fixture!File(me)] = x]
            /\ dir' = dir /\ faults' = faults
      <4>1. CASE entry[Fixture!File(me)] = Fixture!None
        BY <2>1, <3>1, <4>1, FreeInodeIsFree DEF Fixture!Creat
      <4>2. CASE entry[Fixture!File(me)] # Fixture!None
        BY <2>1, <3>1, <4>2 DEF Fixture!Creat
      <4> QED
        BY <4>1, <4>2
    <3> QED
      BY <3>1, <3>2, FixtureSizes
  <2>2. CASE Fixture!Open(me) \/ Fixture!Close(me)
    <3>1. Fixture!File(me) \in Fixture!Files
      BY <1>a, <2>2 DEF Fixture!Open, Fixture!Close, Fixture!At
    <3>2. PICK x \in Fixture!Inodes \cup {Fixture!None} : fd' = [fd EXCEPT ![me][Fixture!File(me)] = x]
      BY <2>2, <3>1 DEF Fixture!Open, Fixture!Close
    <3>3. entry' = entry /\ size' = size /\ dir' = dir /\ faults' = faults
      BY <2>2 DEF Fixture!Open, Fixture!Close, Fixture!diskVars
    <3> QED
      BY <3>1, <3>2, <3>3
  <2>3. CASE Fixture!OpenFails(me) \/ Fixture!Need(me) \/ Fixture!Skip(me)
    BY <2>0, <2>3 DEF Fixture!OpenFails, Fixture!Need, Fixture!Skip, Fixture!diskVars
  <2>4. CASE Fixture!Fill(me)
    <3>1. fd' = fd /\ entry' = entry /\ dir' = dir
      BY <2>4 DEF Fixture!Fill
    <3>2. faults' \in 0..MaxFaults
      BY <2>0, <2>4 DEF Fixture!Fill
    <3>3. Fixture!Handle(me) \in Fixture!Inodes
      BY <1>a, <2>s, <2>4 DEF Fixture!Fill, Fixture!At, Fixture!Handle
    <3>4. size' = size \/ (n[me] # Blocks /\ Fixture!Grow(Fixture!Handle(me), off[me] + 1))
      BY <2>4 DEF Fixture!Fill
    <3>5. n[me] # Blocks => off[me] + 1 \in 0..Blocks
      <4>1. off[me] <= n[me] /\ n[me] \in 0..Blocks /\ off[me] \in 0..Blocks
        BY DEF Counters
      <4> QED
        BY <4>1, FixtureSizes
    <3>6. size' \in [Fixture!Inodes -> 0..Blocks]
      BY <2>g, <3>3, <3>4, <3>5
    <3> QED
      BY <3>1, <3>2, <3>6
  <2>5. CASE Fixture!Rewrite(me)
    <3>1. fd' = fd /\ entry' = entry /\ dir' = dir
      BY <2>5 DEF Fixture!Rewrite
    <3>2. faults' \in 0..MaxFaults
      BY <2>0, <2>5 DEF Fixture!Rewrite
    <3>3. Fixture!Handle(me) \in Fixture!Inodes
      BY <1>a, <2>s, <2>5 DEF Fixture!Rewrite, Fixture!At, Fixture!Handle
    <3>4. size' = size \/ Fixture!Grow(Fixture!Handle(me), 1)
      BY <2>5 DEF Fixture!Rewrite
    <3>5. 1 \in 0..Blocks
      BY FixtureSizes
    <3>6. size' \in [Fixture!Inodes -> 0..Blocks]
      BY <2>g, <3>3, <3>4, <3>5
    <3> QED
      BY <3>1, <3>2, <3>6
  <2>6. CASE Fixture!Copy(me)
    <3>1. fd' = fd /\ entry' = entry /\ dir' = dir
      BY <2>6 DEF Fixture!Copy
    <3>2. faults' \in 0..MaxFaults
      BY <2>0, <2>6 DEF Fixture!Copy
    <3>3. Fixture!Handle(me) \in Fixture!Inodes
      BY <1>a, <2>s, <2>6 DEF Fixture!Copy, Fixture!At, Fixture!Handle
    <3>4. size' = size \/ (n[me] < size[fd[me]["src"]] /\ Fixture!Grow(Fixture!Handle(me), off[me] + 1))
      <4>1. n[me] \in Nat /\ size[fd[me]["src"]] \in Nat
        BY <2>s, <2>6, FixtureSizes DEF Fixture!Copy, Fixture!Files
      <4> QED
        BY <2>6, <4>1 DEF Fixture!Copy
    <3>5. n[me] < size[fd[me]["src"]] => off[me] + 1 \in 0..Blocks
      <4>1. off[me] <= n[me] /\ n[me] \in 0..Blocks /\ off[me] \in 0..Blocks
        BY DEF Counters
      <4>2. size[fd[me]["src"]] \in 0..Blocks
        BY <2>s, <2>6 DEF Fixture!Copy, Fixture!Files
      <4> QED
        BY <4>1, <4>2, FixtureSizes
    <3>6. size' \in [Fixture!Inodes -> 0..Blocks]
      BY <2>g, <3>3, <3>4, <3>5
    <3> QED
      BY <3>1, <3>2, <3>6
  <2>7. CASE Fixture!Read(me) \/ Fixture!Pread(me) \/ Fixture!Stat(me)
    BY <2>7 DEF Fixture!Read, Fixture!Pread, Fixture!Stat, Fixture!diskVars
  <2>8. CASE Fixture!Spawn(me)
    <3>1. fd' = fd /\ entry' = entry /\ dir' = dir /\ size' = size
      BY <2>8 DEF Fixture!Spawn, Fixture!diskVars
    <3>2. faults' \in 0..MaxFaults
      BY <2>0, <2>8 DEF Fixture!Spawn
    <3> QED
      BY <3>1, <3>2
  <2>9. CASE Fixture!Unlink(me)
    BY <2>9 DEF Fixture!Unlink
  <2>10. CASE Fixture!Mkdir(me)
    <3>1. fd' = fd /\ entry' = entry /\ size' = size
      BY <2>10 DEF Fixture!Mkdir
    <3>2. faults' \in 0..MaxFaults /\ dir' \in BOOLEAN
      BY <2>0, <2>10 DEF Fixture!Mkdir
    <3> QED
      BY <3>1, <3>2
  <2>11. CASE Fixture!Rmdir(me)
    <3>1. fd' = fd /\ entry' = entry /\ size' = size /\ faults' = faults
      BY <2>11 DEF Fixture!Rmdir
    <3>2. dir' \in BOOLEAN
      BY <2>11 DEF Fixture!Rmdir
    <3> QED
      BY <3>1, <3>2
  <2>12. CASE Fixture!Call(me)
    BY <2>12 DEF Fixture!Call, Fixture!diskVars
  <2> HIDE DEF Disk
  <2>13. Disk
    BY <2>1, <2>2, <2>3, <2>4, <2>5, <2>6, <2>7, <2>8, <2>9, <2>10, <2>11, <2>12 DEF Fixture!Step, Disk
  <2> QED
    BY <2>13 DEF Disk
<1> QED
  BY <1>0, <1>1, <1>2, <1>3, <1>4 DEF FKind

(* A step fails a system call or none.                                      *)
LEMMA Faults ==
  ASSUME Fixture!TypeOK, NEW me \in Instances, Fixture!Step(me)
  PROVE  faults' = faults \/ Fixture!Fails
<1> USE DEF Fixture!diskVars
<1>1. CASE Fixture!Creat(me) \/ Fixture!Open(me) \/ Fixture!OpenFails(me)
  BY <1>1 DEF Fixture!Creat, Fixture!Open, Fixture!OpenFails
<1>2. CASE Fixture!Need(me) \/ Fixture!Skip(me) \/ Fixture!Close(me) \/ Fixture!Stat(me)
  BY <1>2 DEF Fixture!Need, Fixture!Skip, Fixture!Close, Fixture!Stat
<1>3. CASE Fixture!Unlink(me) \/ Fixture!Mkdir(me) \/ Fixture!Rmdir(me)
  BY <1>3 DEF Fixture!Unlink, Fixture!Mkdir, Fixture!Rmdir
<1>4. CASE Fixture!Fill(me) \/ Fixture!Rewrite(me) \/ Fixture!Read(me)
  BY <1>4 DEF Fixture!Fill, Fixture!Rewrite, Fixture!Read
<1>5. CASE Fixture!Pread(me) \/ Fixture!Copy(me) \/ Fixture!Spawn(me)
  BY <1>5 DEF Fixture!Pread, Fixture!Copy, Fixture!Spawn
<1>6. CASE Fixture!Call(me)
  BY <1>6 DEF Fixture!Call
<1> QED
  BY <1>1, <1>2, <1>3, <1>4, <1>5, <1>6 DEF Fixture!Step

(* Where nothing has failed, nothing had failed before.                     *)
LEMMA NoFault ==
  ASSUME Fixture!TypeOK, NEW me \in Instances, Fixture!Step(me), faults' = 0
  PROVE  faults = 0 /\ ~Fixture!Fails
<1>1. faults \in Nat
  BY FixtureSizes DEF Fixture!TypeOK
<1>2. ~Fixture!Fails
  BY <1>1 DEF Fixture!Fails
<1> QED
  BY <1>2, Faults

(* Where nothing has failed and nobody has cleaned up, nor had they before. *)
LEMMA CalmBack ==
  ASSUME Fixture!TypeOK, Scripted, bench' = bench, NEW me \in Instances, Fixture!Step(me), Calm'
  PROVE  /\ Calm /\ ~Fixture!Fails /\ ~Fixture!At(me, "unlink") /\ ~Fixture!At(me, "rmdir")
<1>1. faults' = 0 /\ \A q \in Instances : instPhase'[q] \notin {"cleanup", "over"}
  BY DEF Calm
<1>2. faults = 0 /\ ~Fixture!Fails
  BY <1>1, NoFault
<1>3. ASSUME NEW q \in Instances PROVE instPhase[q] \notin {"cleanup", "over"}
  <2>1. CASE q # me
    BY <1>1, <2>1, OthersStay
  <2>2. CASE q = me /\ Fixture!Call(me)
    BY <1>1, <2>2, CallFacts
  <2>3. CASE q = me /\ ~Fixture!Call(me)
    BY <1>1, <2>3, StepKinds
  <2> QED
    BY <2>1, <2>2, <2>3
<1>4. ASSUME Fixture!At(me, "unlink") \/ Fixture!At(me, "rmdir") PROVE FALSE
  <2>1. todo[me] # << >>
    BY <1>4 DEF Fixture!At
  <2>2. Active(me) /\ OpAt(instPhase[me], Togo(me)) \in {"unlink", "rmdir"}
    BY <1>4, <2>1, AtStep
  <2>3. instPhase[me] = "cleanup"
    BY <2>2 DEF OpAt, Active
  <2> QED
    BY <1>3, <2>3
<1> QED
  BY <1>2, <1>3, <1>4 DEF Calm

(* What a step of an instance that no call has failed and that does not     *)
(* clean up does to the disk and to its descriptors.                        *)
MakesFile(me, f) ==
  /\ Fixture!At(me, "creat") /\ Fixture!File(me) = f /\ Advances(me)
  /\ \E x \in Fixture!Inodes :
       /\ IF entry[f] = Fixture!None THEN x = Fixture!FreeInode ELSE x = entry[f]
       /\ entry' = [entry EXCEPT ![f] = x] /\ size' = [size EXCEPT ![x] = 0]
       /\ fd' = [fd EXCEPT ![me][f] = x] /\ dir' = dir

OpensFile(me, f) ==
  /\ Fixture!At(me, "open") /\ Fixture!File(me) = f /\ Advances(me)
  /\ fd' = [fd EXCEPT ![me][f] = entry[f]] /\ UNCHANGED << entry, size, dir >>

ClosesFile(me, f) ==
  /\ Fixture!At(me, "close") /\ Fixture!File(me) = f /\ Advances(me)
  /\ fd' = [fd EXCEPT ![me][f] = Fixture!None] /\ UNCHANGED << entry, size, dir >>

MakesDir(me) ==
  /\ Fixture!At(me, "mkdir") /\ Advances(me) /\ dir' = TRUE /\ UNCHANGED << entry, size, fd >>

FillsOn(me) ==
  /\ Fixture!At(me, "fill") /\ todo' = todo /\ UNCHANGED << entry, fd, dir >>
  /\ n[me] # Blocks /\ Fixture!Grow(fd[me][Fixture!File(me)], off[me] + 1)
  /\ n' = [n EXCEPT ![me] = @ + 1] /\ off' = [off EXCEPT ![me] = @ + 1]

KeepsDisk(me) ==
  /\ UNCHANGED << entry, fd, dir >>
  /\ \A x \in Fixture!Inodes : size'[x] >= size[x]
  /\ Fixture!At(me, "creat") => FKind = "fs-meta" /\ ~dir
  /\ ~Fixture!At(me, "mkdir") /\ ~Fixture!At(me, "close") /\ ~Fixture!At(me, "open")
  /\ Fixture!At(me, "fill") /\ fd[me][Fixture!File(me)] # Fixture!None => n[me] = Blocks
  /\ \/ Advances(me)
     \/ ~Fixture!At(me, "fill") /\ todo' = todo
     \/ Gives(me) /\ Fixture!At(me, "need") /\ fd[me][Fixture!File(me)] = Fixture!None

(* A step that is not a call, fails nothing and removes nothing does one of *)
(* six things to the disk.                                                  *)
LEMMA CalmSteps ==
  ASSUME Fixture!TypeOK, NEW me \in Instances, Fixture!Step(me), ~Fixture!Fails,
         ~Fixture!At(me, "unlink"), ~Fixture!At(me, "rmdir"), ~Fixture!Call(me)
  PROVE  /\ todo[me] # << >> /\ Fixture!File(me) \in Fixture!Files
         /\ \/ MakesFile(me, Fixture!File(me)) \/ OpensFile(me, Fixture!File(me))
            \/ ClosesFile(me, Fixture!File(me)) \/ MakesDir(me) \/ FillsOn(me) \/ KeepsDisk(me)
<1> USE DEF Fixture!TypeOK, Fixture!diskVars, Advances, Fixture!Advance
<1>1. todo[me] # << >>
  BY StepKinds
<1>2. Fixture!File(me) \in Fixture!Files
  <2>1. todo[me] \in Seq(Fixture!Ops \X Fixture!Files)
    OBVIOUS
  <2> QED
    BY <1>1, <2>1 DEF Fixture!File
<1>3. \A x \in Fixture!Inodes : size[x] \in Nat
  BY FixtureSizes
<1>4. size' = size => \A x \in Fixture!Inodes : size'[x] >= size[x]
  BY <1>3
<1>5. ASSUME NEW x \in Fixture!Inodes, NEW e \in Nat, Fixture!Grow(x, e)
      PROVE  \A y \in Fixture!Inodes : size'[y] >= size[y]
  <2>1. ASSUME NEW y \in Fixture!Inodes PROVE size'[y] >= size[y]
    <3>1. CASE y = x /\ e > size[x]
      BY <1>3, <1>5, <3>1 DEF Fixture!Grow
    <3>2. CASE ~(y = x /\ e > size[x])
      <4>1. size'[y] = size[y]
        BY <1>5, <3>2 DEF Fixture!Grow
      <4> QED
        BY <1>3, <4>1
    <3> QED
      BY <3>1, <3>2
  <2> QED
    BY <2>1
<1>6. CASE Fixture!Creat(me)
  <2>1. PICK x : /\ x = IF entry[Fixture!File(me)] = Fixture!None THEN Fixture!FreeInode
                        ELSE entry[Fixture!File(me)]
                 /\ entry' = [entry EXCEPT ![Fixture!File(me)] = x]
                 /\ size' = [size EXCEPT ![x] = 0]
                 /\ fd' = [fd EXCEPT ![me][Fixture!File(me)] = x]
    BY <1>6 DEF Fixture!Creat
  <2>2. x \in Fixture!Inodes
    BY <1>2, <2>1, FreeInodeIsFree
  <2>3. Fixture!At(me, "creat") /\ Advances(me) /\ dir' = dir
    BY <1>6 DEF Fixture!Creat
  <2>4. IF entry[Fixture!File(me)] = Fixture!None THEN x = Fixture!FreeInode ELSE x = entry[Fixture!File(me)]
    BY <2>1
  <2> HIDE DEF Advances, Fixture!TypeOK
  <2>5. MakesFile(me, Fixture!File(me))
    BY <2>1, <2>2, <2>3, <2>4 DEF MakesFile
  <2> QED
    BY <1>1, <1>2, <2>5
<1>7. CASE Fixture!Open(me)
  BY <1>1, <1>2, <1>7 DEF Fixture!Open, OpensFile
<1>8. CASE Fixture!Close(me)
  BY <1>1, <1>2, <1>8 DEF Fixture!Close, ClosesFile
<1>9. CASE Fixture!Mkdir(me)
  BY <1>1, <1>2, <1>9 DEF Fixture!Mkdir, MakesDir
<1>10. CASE Fixture!OpenFails(me)
  <2>1. Fixture!At(me, "creat") /\ FKind = "fs-meta" /\ ~dir
    BY <1>10 DEF Fixture!OpenFails, FKind
  <2>2. Advances(me) /\ UNCHANGED << entry, size, fd, dir >>
    BY <1>10 DEF Fixture!OpenFails
  <2>3. KeepsDisk(me)
    BY <1>4, <2>1, <2>2 DEF KeepsDisk, Fixture!At
  <2> QED
    BY <1>1, <1>2, <2>3
<1>11. CASE Fixture!Need(me)
  <2>1. Fixture!At(me, "need") /\ UNCHANGED << entry, size, fd, dir >>
    BY <1>11 DEF Fixture!Need
  <2>2. \/ Advances(me)
        \/ Gives(me) /\ fd[me][Fixture!File(me)] = Fixture!None
    BY <1>11 DEF Fixture!Need, Fixture!Handle, Gives
  <2>3. KeepsDisk(me)
    BY <1>4, <2>1, <2>2 DEF KeepsDisk, Fixture!At
  <2> QED
    BY <1>1, <1>2, <2>3
<1>12. CASE Fixture!Skip(me)
  <2>1. (\E op \in Fixture!Transfers : Fixture!At(me, op)) /\ UNCHANGED << entry, size, fd, dir >> /\ Advances(me)
    BY <1>12 DEF Fixture!Skip
  <2>2. Fixture!At(me, "fill") => fd[me][Fixture!File(me)] = Fixture!None
    BY <1>12 DEF Fixture!Skip, Fixture!At, Fixture!Handle
  <2>3. KeepsDisk(me)
    BY <1>4, <2>1, <2>2 DEF KeepsDisk, Fixture!At, Fixture!Transfers
  <2> QED
    BY <1>1, <1>2, <2>3
<1>13. CASE Fixture!Stat(me)
  <2>1. Fixture!At(me, "stat") /\ UNCHANGED << entry, size, fd, dir >> /\ Advances(me)
    BY <1>13 DEF Fixture!Stat
  <2>2. KeepsDisk(me)
    BY <1>4, <2>1 DEF KeepsDisk, Fixture!At
  <2> QED
    BY <1>1, <1>2, <2>2
<1>14. CASE Fixture!Fill(me)
  <2>1. Fixture!At(me, "fill") /\ UNCHANGED << entry, fd, dir >>
    BY <1>14 DEF Fixture!Fill
  <2>2. CASE n[me] = Blocks
    <3>1. Advances(me) /\ size' = size
      BY <1>14, <2>2 DEF Fixture!Fill
    <3>2. KeepsDisk(me)
      BY <1>4, <2>1, <2>2, <3>1 DEF KeepsDisk, Fixture!At
    <3> QED
      BY <1>1, <1>2, <3>2
  <2>3. CASE n[me] # Blocks
    <3>1. Fixture!Grow(fd[me][Fixture!File(me)], off[me] + 1) /\ Fixture!Continue(me, 1)
      BY <1>14, <2>3 DEF Fixture!Fill, Fixture!Handle
    <3>2. FillsOn(me)
      BY <2>1, <2>3, <3>1 DEF FillsOn, Fixture!Continue
    <3> QED
      BY <1>1, <1>2, <3>2
  <2> QED
    BY <2>2, <2>3
<1>15. CASE Fixture!Rewrite(me)
  <2>1. Fixture!At(me, "rewrite") /\ UNCHANGED << entry, fd, dir >> /\ fd[me][Fixture!File(me)] \in Fixture!Inodes
    BY <1>2, <1>15 DEF Fixture!Rewrite, Fixture!Handle
  <2>2. CASE n[me] = Blocks
    <3>1. Advances(me) /\ size' = size
      BY <1>15, <2>2 DEF Fixture!Rewrite
    <3>2. KeepsDisk(me)
      BY <1>4, <2>1, <3>1 DEF KeepsDisk, Fixture!At
    <3> QED
      BY <1>1, <1>2, <3>2
  <2>3. CASE n[me] # Blocks
    <3>1. Fixture!Grow(fd[me][Fixture!File(me)], 1) /\ todo' = todo
      BY <1>15, <2>3 DEF Fixture!Rewrite, Fixture!Handle, Fixture!Continue
    <3>2. \A y \in Fixture!Inodes : size'[y] >= size[y]
      BY <1>5, <2>1, <3>1
    <3>3. KeepsDisk(me)
      BY <2>1, <3>1, <3>2 DEF KeepsDisk, Fixture!At
    <3> QED
      BY <1>1, <1>2, <3>3
  <2> QED
    BY <2>2, <2>3
<1>16. CASE Fixture!Read(me)
  <2>1. Fixture!At(me, "read") /\ UNCHANGED << entry, size, fd, dir >>
    BY <1>16 DEF Fixture!Read
  <2>2. Advances(me) \/ todo' = todo
    BY <1>16 DEF Fixture!Read, Fixture!Continue
  <2>3. KeepsDisk(me)
    BY <1>4, <2>1, <2>2 DEF KeepsDisk, Fixture!At
  <2> QED
    BY <1>1, <1>2, <2>3
<1>17. CASE Fixture!Pread(me)
  <2>1. Fixture!At(me, "pread") /\ UNCHANGED << entry, size, fd, dir >>
    BY <1>17 DEF Fixture!Pread
  <2>2. Advances(me) \/ todo' = todo
    BY <1>17 DEF Fixture!Pread, Fixture!Continue
  <2>3. KeepsDisk(me)
    BY <1>4, <2>1, <2>2 DEF KeepsDisk, Fixture!At
  <2> QED
    BY <1>1, <1>2, <2>3
<1>18. CASE Fixture!Copy(me)
  <2>1. Fixture!At(me, "copy") /\ UNCHANGED << entry, fd, dir >> /\ fd[me][Fixture!File(me)] \in Fixture!Inodes
    BY <1>2, <1>18 DEF Fixture!Copy, Fixture!Handle
  <2>2. CASE n[me] >= size[fd[me]["src"]]
    <3>1. Advances(me) /\ size' = size
      BY <1>18, <2>2 DEF Fixture!Copy
    <3>2. KeepsDisk(me)
      BY <1>4, <2>1, <3>1 DEF KeepsDisk, Fixture!At
    <3> QED
      BY <1>1, <1>2, <3>2
  <2>3. CASE ~(n[me] >= size[fd[me]["src"]])
    <3>1. Fixture!Grow(fd[me][Fixture!File(me)], off[me] + 1) /\ todo' = todo
      BY <1>18, <2>3 DEF Fixture!Copy, Fixture!Handle, Fixture!Continue
    <3>2. off[me] + 1 \in Nat
      BY FixtureSizes
    <3>3. \A y \in Fixture!Inodes : size'[y] >= size[y]
      BY <1>5, <2>1, <3>1, <3>2
    <3>4. KeepsDisk(me)
      BY <2>1, <3>1, <3>3 DEF KeepsDisk, Fixture!At
    <3> QED
      BY <1>1, <1>2, <3>4
  <2> QED
    BY <2>2, <2>3
<1>19. CASE Fixture!Spawn(me)
  <2>1. Fixture!At(me, "spawn") /\ UNCHANGED << entry, size, fd, dir >>
    BY <1>19 DEF Fixture!Spawn
  <2>2. Advances(me) \/ todo' = todo
    BY <1>19 DEF Fixture!Spawn, Fixture!Continue
  <2>3. KeepsDisk(me)
    BY <1>4, <2>1, <2>2 DEF KeepsDisk, Fixture!At
  <2> QED
    BY <1>1, <1>2, <2>3
<1>20. CASE Fixture!Unlink(me) \/ Fixture!Rmdir(me)
  BY <1>20 DEF Fixture!Unlink, Fixture!Rmdir
<1> QED
  BY <1>6, <1>7, <1>8, <1>9, <1>10, <1>11, <1>12, <1>13, <1>14, <1>15, <1>16, <1>17, <1>18, <1>19, <1>20
     DEF Fixture!Step

(* Those that were set up when a measure began are past their init.         *)
LEMMA SinceStep ==
  ASSUME Fixture!TypeOK, Scripted, SinceSet, bench' = bench, NEW me \in Instances, Fixture!Step(me)
  PROVE  SinceSet'
<1>1. \A q \in Instances : instPhase[q] \notin {"new", "init"} => instPhase'[q] \notin {"new", "init"}
  <2>1. ASSUME NEW q \in Instances, instPhase[q] \notin {"new", "init"}
        PROVE  instPhase'[q] \notin {"new", "init"}
    <3>1. CASE q # me
      BY <2>1, <3>1, OthersStay
    <3>2. CASE q = me /\ Fixture!Call(me)
      BY <2>1, <3>2, CallFacts
    <3>3. CASE q = me /\ ~Fixture!Call(me)
      BY <2>1, <3>3, StepKinds
    <3> QED
      BY <3>1, <3>2, <3>3
  <2> QED
    BY <2>1
<1>2. ASSUME NEW x \in Instances, NEW q \in Instances, q \in since'[x]
      PROVE  instPhase[q] \notin {"new", "init"}
  <2>1. CASE since'[x] = since[x]
    BY <1>2, <2>1 DEF SinceSet
  <2>2. CASE since'[x] # since[x]
    <3>1. since' = [since EXCEPT ![me] = {y \in Instances : Set(y)}]
      <4>1. Fixture!Call(me)
        BY <2>2, StepKinds
      <4> QED
        BY <2>2, <4>1, CallFacts
    <3>2. x = me /\ Set(q)
      BY <1>2, <2>2, <3>1 DEF Fixture!TypeOK
    <3> QED
      BY <3>2 DEF Set
  <2> QED
    BY <2>1, <2>2
<1> QED
  BY <1>1, <1>2 DEF SinceSet

(* Two names never have one inode, for one that is created gets a free      *)
(* inode.                                                                   *)
LEMMA EntriesApartStep ==
  ASSUME Fixture!TypeOK, Scripted, EntriesApart, NEW me \in Instances, Fixture!Step(me)
  PROVE  EntriesApart'
<1>1. SUFFICES ASSUME entry'["src"] # Fixture!None PROVE entry'["src"] # entry'["dst"]
  BY DEF EntriesApart
<1>2. "src" \in Fixture!Files /\ "dst" \in Fixture!Files
  BY DEF Fixture!Files
<1>3. CASE Fixture!Creat(me)
  <2>1. PICK f \in Fixture!Files :
          entry' = [entry EXCEPT ![f] = IF entry[f] = Fixture!None THEN Fixture!FreeInode ELSE entry[f]]
    <3>1. Fixture!File(me) \in Fixture!Files
      <4>1. todo[me] \in Seq(Fixture!Ops \X Fixture!Files) /\ todo[me] # << >>
        BY <1>3 DEF Fixture!TypeOK, Fixture!Creat, Fixture!At
      <4> QED
        BY <4>1 DEF Fixture!File
    <3> QED
      BY <1>3, <3>1 DEF Fixture!Creat
  <2>2. CASE entry[f] # Fixture!None
    BY <1>1, <2>1, <2>2 DEF EntriesApart, Fixture!TypeOK
  <2>3. CASE entry[f] = Fixture!None
    <3>1. /\ Fixture!FreeInode # entry["src"] /\ Fixture!FreeInode # entry["dst"]
      BY <1>2, <2>3, FreeInodeIsFree
    <3>2. f \in {"src", "dst"}
      BY DEF Fixture!Files
    <3> QED
      BY <1>1, <1>2, <2>1, <2>3, <3>1, <3>2 DEF Fixture!TypeOK
  <2> QED
    BY <2>2, <2>3
<1>4. CASE ~Fixture!Creat(me)
  <2>1. \A f \in Fixture!Files : entry'[f] # Fixture!None => entry'[f] = entry[f]
    BY <1>4, Entries
  <2>2. CASE entry'["dst"] # Fixture!None
    BY <1>1, <1>2, <2>1, <2>2 DEF EntriesApart
  <2> QED
    BY <1>1, <2>2
<1> QED
  BY <1>3, <1>4

(* As long as nobody removes a file, a descriptor is of the inode its name  *)
(* has.                                                                     *)
LEMMA OpenedStep ==
  ASSUME Fixture!TypeOK, Scripted, Opened, bench' = bench, NEW me \in Instances, Fixture!Step(me)
  PROVE  Opened'
<1>1. SUFFICES ASSUME Calm', NEW q \in Instances, NEW g \in Fixture!Files, fd'[q][g] # Fixture!None
               PROVE  fd'[q][g] = entry'[g]
  BY DEF Opened
<1>2. Calm /\ ~Fixture!Fails /\ ~Fixture!At(me, "unlink") /\ ~Fixture!At(me, "rmdir")
  BY <1>1, CalmBack
<1>3. \A x \in Instances, f \in Fixture!Files : fd[x][f] # Fixture!None => fd[x][f] = entry[f]
  BY <1>2 DEF Opened
<1>4. CASE Fixture!Call(me)
  BY <1>1, <1>3, <1>4, CallFacts
<1>5. CASE ~Fixture!Call(me)
  <2> DEFINE f == Fixture!File(me)
  <2>1. f \in Fixture!Files
        /\ \/ MakesFile(me, f) \/ OpensFile(me, f)
           \/ ClosesFile(me, f) \/ MakesDir(me) \/ FillsOn(me) \/ KeepsDisk(me)
    BY <1>2, <1>5, CalmSteps
  <2> HIDE DEF f
  <2>2. CASE MakesFile(me, f)
    <3>1. PICK x \in Fixture!Inodes :
            /\ entry[f] # Fixture!None => x = entry[f]
            /\ entry' = [entry EXCEPT ![f] = x] /\ fd' = [fd EXCEPT ![me][f] = x]
      BY <2>2 DEF MakesFile
    <3>2. CASE g # f
      BY <1>1, <1>3, <2>1, <3>1, <3>2 DEF Fixture!TypeOK
    <3>3. CASE g = f /\ q = me
      BY <2>1, <3>1, <3>3 DEF Fixture!TypeOK
    <3>4. CASE g = f /\ q # me
      <4>1. fd'[q][g] = fd[q][g] /\ entry'[g] = x
        BY <2>1, <3>1, <3>4 DEF Fixture!TypeOK
      <4> QED
        BY <1>1, <1>3, <3>1, <3>4, <4>1
    <3> QED
      BY <3>2, <3>3, <3>4
  <2>3. CASE OpensFile(me, f)
    BY <1>1, <1>3, <2>1, <2>3 DEF OpensFile, Fixture!TypeOK
  <2>4. CASE ClosesFile(me, f)
    BY <1>1, <1>3, <2>1, <2>4 DEF ClosesFile, Fixture!TypeOK
  <2>5. CASE MakesDir(me) \/ FillsOn(me) \/ KeepsDisk(me)
    BY <1>1, <1>3, <2>5 DEF MakesDir, FillsOn, KeepsDisk
  <2> QED
    BY <2>1, <2>2, <2>3, <2>4, <2>5
<1> QED
  BY <1>4, <1>5

(* The order of the steps of init.                                          *)
LEMMA InitOrder ==
  ASSUME NEW t \in 1..Longest("init")
  PROVE  /\ OpAt("init", t) = "need" \/ OpAt("init", t) = "fill" =>
              \A u \in 1..t : OpAt("init", u) # "creat"
         /\ OpAt("init", t) = "fill" => \A u \in 1..t : OpAt("init", u) # "need"
         /\ OpAt("init", t) = "close" /\ FKind # "fs-meta" => t = 1
         /\ OpAt("init", t) \in {"mkdir", "creat", "fill", "need", "close"}
         /\ OpAt("init", t) = "creat" /\ FKind = "fs-meta" => \A u \in 1..t : OpAt("init", u) # "mkdir"
         /\ OpAt("init", t) = "mkdir" => FKind = "fs-meta"
         /\ OpAt("init", t) = "creat" /\ FKind # "fs-meta" =>
              \E u \in 1..t - 1 : OpAt("init", u) = "fill"
         /\ FKind # "fs-meta" => FileAt("init", t) = "src"
<1>0. FKind \in FixtureKinds /\ t \in Nat /\ t >= 1 /\ FKind # "fs-fsync"
  <2>1. FKind = "fs-fsync" => Longest("init") = 0
    BY DEF Longest
  <2> QED
    BY <2>1, FixtureKind, LongestIsNat
<1>1. CASE FKind = "fs-meta"
  <2>1. Longest("init") = 5
    BY <1>1 DEF Longest
  <2> QED
    BY <1>0, <1>1, <2>1 DEF OpAt, FileAt
<1>2. CASE FKind \in {"fs-copy", "script-python", "script-shell"}
  <2>1. Longest("init") = 4
    BY <1>2 DEF Longest
  <2>2. \A u \in 1..4 : OpAt("init", u) = IF u = 1 THEN "close" ELSE IF u = 2 THEN "fill" ELSE IF u = 3 THEN "need" ELSE "creat"
    BY <1>2 DEF OpAt
  <2>3. OpAt("init", 2) = "fill" /\ 2 \in 1..3
    BY <2>2
  <2> QED
    BY <1>0, <1>2, <2>1, <2>2, <2>3 DEF FileAt
<1>3. CASE FKind \in {"fs-rand-rw", "fs-uring", "fs-seq-rw"}
  <2>1. Longest("init") = 3
    BY <1>3 DEF Longest
  <2>2. \A u \in 1..3 : OpAt("init", u) = IF u = 1 THEN "close" ELSE IF u = 2 THEN "fill" ELSE "creat"
    BY <1>3 DEF OpAt
  <2>3. OpAt("init", 2) = "fill" /\ 2 \in 1..2
    BY <2>2
  <2> QED
    BY <1>0, <1>3, <2>1, <2>2, <2>3 DEF FileAt
<1> QED
  BY <1>0, <1>1, <1>2, <1>3 DEF FixtureKinds

(* init creates each file its benchmark makes, and what follows its last    *)
(* creat.                                                                   *)
LEMMA InitMakes ==
  ASSUME NEW f \in Fixture!Files, MadeBy(f)
  PROVE  /\ \E t \in 1..Longest("init") : OpAt("init", t) = "creat" /\ FileAt("init", t) = f
         /\ FKind # "fs-meta" => OpAt("init", 1) = "close" /\ FileAt("init", 1) = "src"
         /\ FKind = "fs-meta" => OpAt("init", 5) = "mkdir" /\ FileAt("init", 5) = "src" /\ Longest("init") = 5
<1>1. CASE FKind = "fs-meta"
  <2>1. Longest("init") = 5 /\ OpAt("init", 2) = "creat" /\ OpAt("init", 4) = "creat" /\ OpAt("init", 5) = "mkdir"
    BY <1>1 DEF Longest, OpAt
  <2>2. FileAt("init", 2) = "dst" /\ FileAt("init", 4) = "src" /\ FileAt("init", 5) = "src"
    BY <1>1 DEF FileAt
  <2>3. 2 \in 1..5 /\ 4 \in 1..5
    OBVIOUS
  <2> QED
    BY <1>1, <2>1, <2>2, <2>3 DEF Fixture!Files
<1>2. CASE FKind # "fs-meta"
  <2>1. f = "src" /\ FKind # "fs-fsync"
    BY <1>2 DEF MadeBy
  <2>2. \A u : FileAt("init", u) = "src"
    BY <1>2 DEF FileAt
  <2>3. OpAt("init", 1) = "close"
    BY <1>2 DEF OpAt
  <2>4. Longest("init") \in {3, 4}
    BY <1>2, <2>1, FixtureKind DEF Longest, FixtureKinds
  <2>5. OpAt("init", Longest("init")) = "creat"
    BY <1>2, <2>1, FixtureKind DEF Longest, OpAt, FixtureKinds
  <2>6. Longest("init") \in 1..Longest("init")
    BY <2>4
  <2> QED
    BY <1>2, <2>1, <2>2, <2>3, <2>5, <2>6
<1> QED
  BY <1>1, <1>2

(* init does no two things alike.                                           *)
LEMMA InitOnce ==
  ASSUME NEW t \in 1..Longest("init"), NEW u \in 1..Longest("init"),
         OpAt("init", t) = OpAt("init", u), FileAt("init", t) = FileAt("init", u)
  PROVE  t = u
<1>0. FKind \in FixtureKinds /\ t \in Nat /\ t >= 1 /\ u \in Nat /\ u >= 1 /\ FKind # "fs-fsync"
  <2>1. FKind = "fs-fsync" => Longest("init") = 0
    BY DEF Longest
  <2> QED
    BY <2>1, FixtureKind, LongestIsNat
<1>1. CASE FKind = "fs-meta"
  <2>1. Longest("init") = 5
    BY <1>1 DEF Longest
  <2> QED
    BY <1>0, <1>1, <2>1 DEF OpAt, FileAt
<1>2. CASE FKind \in {"fs-copy", "script-python", "script-shell"}
  <2>1. Longest("init") = 4
    BY <1>2 DEF Longest
  <2>2. \A x \in 1..4 : OpAt("init", x) = IF x = 1 THEN "close" ELSE IF x = 2 THEN "fill" ELSE IF x = 3 THEN "need" ELSE "creat"
    BY <1>2 DEF OpAt
  <2> QED
    BY <1>0, <1>2, <2>1, <2>2
<1>3. CASE FKind \in {"fs-rand-rw", "fs-uring", "fs-seq-rw"}
  <2>1. Longest("init") = 3
    BY <1>3 DEF Longest
  <2>2. \A x \in 1..3 : OpAt("init", x) = IF x = 1 THEN "close" ELSE IF x = 2 THEN "fill" ELSE "creat"
    BY <1>3 DEF OpAt
  <2> QED
    BY <1>0, <1>3, <2>1, <2>2
<1> QED
  BY <1>0, <1>1, <1>2, <1>3 DEF FixtureKinds

(* An instance that calls init has all of it to do.                         *)
LEMMA InitBegins ==
  ASSUME Fixture!TypeOK, Scripted, bench' = bench, NEW me \in Instances, Fixture!Call(me),
         instPhase'[me] = "init", NEW t \in 1..Longest("init"), NEW op, NEW f,
         OpAt("init", t) = op, FileAt("init", t) = f
  PROVE  Pending(me, op, f)'
<1>1. Len(todo'[me]) = Longest("init")
  BY CallFacts DEF FixtureScript
<1>2. Togo(me)' = Longest("init")
  BY <1>1 DEF Togo
<1> QED
  BY <1>2, TablesStay DEF Pending

(* As long as nothing fails and nobody cleans up, the files that init makes *)
(* are there from its creat on.                                             *)
LEMMA MadeStep ==
  ASSUME Fixture!TypeOK, Scripted, Opened, Made, bench' = bench, NEW me \in Instances, Fixture!Step(me)
  PROVE  Made'
<1>0. FKind' = FKind /\ \A f : MadeBy(f)' <=> MadeBy(f)
  BY DEF FKind, MadeBy
<1> SUFFICES ASSUME Calm', NEW x \in Instances
             PROVE
    /\ instPhase'[x] = "init" => instRet'[x] = 0
    /\ FKind = "fs-meta" =>
         /\ Set(x)' => dir'
         /\ instPhase'[x] = "init" /\ ~Pending(x, "mkdir", "src")' => dir'
    /\ \A f \in Fixture!Files : MadeBy(f) =>
         /\ Set(x)' => entry'[f] # Fixture!None
         /\ instPhase'[x] = "init" /\ ~Pending(x, "creat", f)' =>
              /\ entry'[f] # Fixture!None
              /\ Pending(x, "close", f)' => fd'[x][f] # Fixture!None
  BY <1>0 DEF Made
<1>1. Calm /\ ~Fixture!Fails /\ ~Fixture!At(me, "unlink") /\ ~Fixture!At(me, "rmdir")
  BY CalmBack
<1>2. \A q \in Instances :
        /\ instPhase[q] = "init" => instRet[q] = 0
        /\ FKind = "fs-meta" =>
             /\ Set(q) => dir
             /\ instPhase[q] = "init" /\ ~Pending(q, "mkdir", "src") => dir
        /\ \A f \in Fixture!Files : MadeBy(f) =>
             /\ Set(q) => entry[f] # Fixture!None
             /\ instPhase[q] = "init" /\ ~Pending(q, "creat", f) =>
                  /\ entry[f] # Fixture!None
                  /\ Pending(q, "close", f) => fd[q][f] # Fixture!None
  BY <1>1 DEF Made
<1>c. Fixture!None \notin Fixture!Inodes
  BY DEF Fixture!None, Fixture!Inodes
<1>3. /\ dir => dir'
      /\ \A f \in Fixture!Files : entry[f] # Fixture!None => entry'[f] # Fixture!None
  <2>1. CASE Fixture!Call(me)
    BY <2>1, CallFacts
  <2>2. CASE ~Fixture!Call(me)
    <3> DEFINE g == Fixture!File(me)
    <3>1. g \in Fixture!Files
          /\ \/ MakesFile(me, g) \/ OpensFile(me, g)
             \/ ClosesFile(me, g) \/ MakesDir(me) \/ FillsOn(me) \/ KeepsDisk(me)
      BY <1>1, <2>2, CalmSteps
    <3> HIDE DEF g
    <3>2. CASE MakesFile(me, g)
      <4>1. PICK y \in Fixture!Inodes : entry' = [entry EXCEPT ![g] = y] /\ dir' = dir
        BY <3>2 DEF MakesFile
      <4> QED
        BY <1>c, <3>1, <4>1 DEF Fixture!TypeOK
    <3>3. CASE OpensFile(me, g) \/ ClosesFile(me, g) \/ MakesDir(me) \/ FillsOn(me) \/ KeepsDisk(me)
      BY <3>3 DEF OpensFile, ClosesFile, MakesDir, FillsOn, KeepsDisk
    <3> QED
      BY <3>1, <3>2, <3>3
  <2> QED
    BY <2>1, <2>2
<1>4. CASE x # me
  <2>1. /\ instPhase'[x] = instPhase[x] /\ todo'[x] = todo[x] /\ fd'[x] = fd[x] /\ instRet'[x] = instRet[x]
    BY <1>4, OthersStay
  <2>2. Set(x)' <=> Set(x)
    BY <2>1 DEF Set
  <2>3. \A op, f : Pending(x, op, f)' <=> Pending(x, op, f)
    BY <2>1, PendingStays
  <2> QED
    BY <1>2, <1>3, <2>1, <2>2, <2>3
<1>5. CASE x = me /\ Fixture!Call(me)
  <2>1. /\ todo[me] = << >> /\ instRet'[me] = 0
        /\ \/ instPhase'[me] = "init"
           \/ instPhase[me] = "init" /\ ~Set(me)
           \/ Set(me)
           \/ instPhase'[me] \notin {"init", "warmup", "measure"}
    BY <1>5, CallFacts DEF Set
  <2>2. \A op, f : ~Pending(me, op, f)
    BY <2>1, Lengths DEF Pending
  <2>3. CASE instPhase'[me] = "init"
    <3>1. ~Set(me)'
      BY <2>3 DEF Set
    <3>2. ASSUME NEW f \in Fixture!Files, MadeBy(f) PROVE Pending(me, "creat", f)'
      <4>1. PICK t \in 1..Longest("init") : OpAt("init", t) = "creat" /\ FileAt("init", t) = f
        BY <3>2, InitMakes
      <4> QED
        BY <1>5, <2>3, <4>1, InitBegins
    <3>3. FKind = "fs-meta" => Pending(me, "mkdir", "src")'
      <4>1. ASSUME FKind = "fs-meta" PROVE Pending(me, "mkdir", "src")'
        <5>1. MadeBy("src") /\ "src" \in Fixture!Files
          BY <4>1 DEF MadeBy, Fixture!Files
        <5>2. OpAt("init", 5) = "mkdir" /\ FileAt("init", 5) = "src" /\ 5 \in 1..Longest("init")
          BY <4>1, <5>1, InitMakes
        <5> QED
          BY <1>5, <2>3, <5>2, InitBegins
      <4> QED
        BY <4>1
    <3> QED
      BY <1>5, <2>1, <3>1, <3>2, <3>3
  <2>4. CASE instPhase'[me] # "init" /\ (Set(me) \/ instPhase[me] = "init")
    BY <1>2, <1>3, <1>5, <2>2, <2>4
  <2>5. CASE instPhase'[me] \notin {"init", "warmup", "measure"}
    BY <1>5, <2>5 DEF Set
  <2> QED
    BY <2>1, <2>3, <2>4, <2>5
<1>6. CASE x = me /\ ~Fixture!Call(me)
  <2> DEFINE g == Fixture!File(me)
  <2>1. /\ todo[me] # << >> /\ UNCHANGED instPhase
        /\ \/ Advances(me) /\ instRet' = instRet
           \/ todo' = todo /\ instRet' = instRet
           \/ Gives(me) /\ Fixture!At(me, "need") /\ fd[me][g] = Fixture!None
    BY <1>6, StepKinds
  <2>2. /\ Togo(me) \in 1..Longest(instPhase[me])
        /\ \A op : Fixture!At(me, op) <=> OpAt(instPhase[me], Togo(me)) = op
        /\ g = FileAt(instPhase[me], Togo(me))
    BY <2>1, AtStep
  <2>3. g \in Fixture!Files
        /\ \/ MakesFile(me, g) \/ OpensFile(me, g)
           \/ ClosesFile(me, g) \/ MakesDir(me) \/ FillsOn(me) \/ KeepsDisk(me)
    BY <1>1, <1>6, CalmSteps
  <2> HIDE DEF g
  <2>4. CASE instPhase[me] # "init"
    <3>1. Set(me)' <=> Set(me)
      BY <2>1 DEF Set
    <3> QED
      BY <1>2, <1>3, <1>6, <2>1, <2>4, <3>1
  <2>5. CASE instPhase[me] = "init"
    <3>1. ~Set(me)' /\ instPhase'[me] = "init"
      BY <2>1, <2>5 DEF Set
    <3>2. ~(Gives(me) /\ Fixture!At(me, "need") /\ fd[me][g] = Fixture!None)
      <4>1. SUFFICES ASSUME Gives(me), Fixture!At(me, "need"), fd[me][g] = Fixture!None
                     PROVE  FALSE
        OBVIOUS
      <4>2. OpAt("init", Togo(me)) = "need" /\ Togo(me) \in 1..Longest("init")
        BY <2>2, <2>5, <4>1
      <4>3. g = "src" /\ FKind # "fs-meta"
        BY <2>2, <2>5, <4>2, NeedsOneFile
      <4>4. FKind # "fs-fsync"
        BY <4>2 DEF Longest
      <4>5. MadeBy("src") /\ "src" \in Fixture!Files
        BY <4>3, <4>4 DEF MadeBy, Fixture!Files
      <4>6. ~Pending(me, "creat", "src")
        BY <2>5, <4>2, InitOrder DEF Pending
      <4>7. Pending(me, "close", "src")
        <5>1. 1 \in 1..Togo(me) /\ OpAt("init", 1) = "close" /\ FileAt("init", 1) = "src"
          BY <4>2, <4>3, <4>5, InitMakes, LongestIsNat
        <5> QED
          BY <2>5, <5>1 DEF Pending
      <4> QED
        BY <1>2, <2>5, <4>1, <4>3, <4>5, <4>6, <4>7
    <3>3. instRet' = instRet /\ (Advances(me) \/ todo' = todo)
      BY <2>1, <3>2
    <3>4. \A op, f : Pending(me, op, f)' => Pending(me, op, f)
      BY <2>1, <3>3, PendingMoves, PendingStays
    <3>5. \A op, f : Pending(me, op, f) => Pending(me, op, f)' \/ (Fixture!At(me, op) /\ g = f)
      BY <2>1, <3>3, PendingMoves, PendingStays DEF g
    <3>6. ASSUME FKind = "fs-meta", ~Pending(me, "mkdir", "src")'
          PROVE  dir'
      <4>1. CASE Fixture!At(me, "mkdir")
        <5>1. MakesDir(me)
          BY <2>3, <4>1 DEF MakesFile, OpensFile, ClosesFile, FillsOn, KeepsDisk, Fixture!At
        <5> QED
          BY <5>1 DEF MakesDir
      <4>2. CASE ~Fixture!At(me, "mkdir")
        BY <1>2, <1>3, <2>5, <3>5, <3>6, <4>2
      <4> QED
        BY <4>1, <4>2
    <3>7. ASSUME NEW f \in Fixture!Files, MadeBy(f), ~Pending(me, "creat", f)'
          PROVE  /\ entry'[f] # Fixture!None
                 /\ Pending(me, "close", f)' => fd'[me][f] # Fixture!None
      <4>1. CASE ~Pending(me, "creat", f)
        <5>1. entry[f] # Fixture!None /\ (Pending(me, "close", f) => fd[me][f] # Fixture!None)
          BY <1>2, <2>5, <3>7, <4>1
        <5>2. ASSUME Pending(me, "close", f)' PROVE fd'[me][f] # Fixture!None
          <6>1. fd[me][f] # Fixture!None
            BY <3>4, <5>1, <5>2
          <6>2. ~Fixture!At(me, "open")
            BY <2>2, <2>5, InitOrder
          <6>3. CASE Fixture!At(me, "close") /\ g = f
            <7>1. ClosesFile(me, g)
              BY <2>3, <6>3 DEF MakesFile, OpensFile, MakesDir, FillsOn, KeepsDisk, Fixture!At
            <7>2. Advances(me)
              BY <7>1 DEF ClosesFile
            <7>3. PICK t \in 1..Len(todo'[me]) : OpAt("init", t) = "close" /\ FileAt("init", t) = f
              BY <2>1, <2>5, <5>2, TablesStay DEF Pending, Togo
            <7>4. Len(todo'[me]) = Togo(me) - 1
              BY <2>1, <7>2, Lengths DEF Advances, Fixture!TypeOK
            <7>5. t \in 1..Longest("init") /\ t # Togo(me)
              BY <2>2, <2>5, <7>4, LongestIsNat
            <7>6. OpAt("init", Togo(me)) = "close" /\ FileAt("init", Togo(me)) = f /\ Togo(me) \in 1..Longest("init")
              BY <2>2, <2>5, <6>3
            <7> QED
              BY <7>3, <7>5, <7>6, InitOnce
          <6>4. CASE ~(Fixture!At(me, "close") /\ g = f)
            <7>1. CASE MakesFile(me, g)
              <8>1. PICK y \in Fixture!Inodes : fd' = [fd EXCEPT ![me][g] = y]
                BY <7>1 DEF MakesFile
              <8> QED
                BY <1>c, <2>3, <6>1, <8>1 DEF Fixture!TypeOK
            <7>2. CASE OpensFile(me, g)
              BY <6>2, <7>2 DEF OpensFile
            <7>3. CASE ClosesFile(me, g)
              BY <2>3, <6>1, <6>4, <7>3 DEF ClosesFile, Fixture!TypeOK
            <7>4. CASE MakesDir(me) \/ FillsOn(me) \/ KeepsDisk(me)
              BY <6>1, <7>4 DEF MakesDir, FillsOn, KeepsDisk
            <7> QED
              BY <2>3, <7>1, <7>2, <7>3, <7>4
          <6> QED
            BY <6>3, <6>4
        <5> QED
          BY <1>3, <5>1, <5>2
      <4>2. CASE Pending(me, "creat", f)
        <5>1. Fixture!At(me, "creat") /\ g = f
          BY <3>5, <3>7, <4>2
        <5>2. ~KeepsDisk(me)
          <6>1. SUFFICES ASSUME FKind = "fs-meta", ~dir PROVE FALSE
            BY <5>1 DEF KeepsDisk
          <6>2. ~Pending(me, "mkdir", "src")
            BY <2>2, <2>5, <5>1, <6>1, InitOrder DEF Pending
          <6> QED
            BY <1>2, <2>5, <6>1, <6>2
        <5>3. MakesFile(me, g)
          BY <2>3, <5>1, <5>2 DEF OpensFile, ClosesFile, MakesDir, FillsOn, Fixture!At
        <5>4. PICK y \in Fixture!Inodes : fd' = [fd EXCEPT ![me][g] = y] /\ entry' = [entry EXCEPT ![g] = y]
          BY <5>3 DEF MakesFile
        <5> QED
          BY <1>c, <2>3, <5>1, <5>4 DEF Fixture!TypeOK
      <4> QED
        BY <4>1, <4>2
    <3>8. instRet'[me] = 0
      BY <1>2, <2>5, <3>3
    <3> QED
      BY <1>6, <3>1, <3>6, <3>7, <3>8
  <2> QED
    BY <2>4, <2>5
<1> QED
  BY <1>4, <1>5, <1>6

(* A file that init fills is created there and nowhere else.                *)
LEMMA SrcIsMadeInInit ==
  ASSUME NEW p \in {"init", "warmup", "measure", "cleanup"}, NEW t \in 1..Longest(p),
         FKind \notin {"fs-fsync", "fs-meta"}, OpAt(p, t) = "creat", FileAt(p, t) = "src"
  PROVE  p = "init"
  BY FixtureKind, LongestIsNat DEF OpAt, FileAt, Longest, FixtureKinds

(* An instance that is on the way to fill its file still is when another    *)
(* one takes a step.                                                        *)
LEMMA FillingGoesOn ==
  ASSUME Fixture!TypeOK, Fixture!TypeOK', Scripted, bench' = bench, NEW me \in Instances,
         todo[me] # << >>, UNCHANGED instPhase, Filling(me), Advances(me), ~Fixture!At(me, "fill"),
         entry'["src"] \in Fixture!Inodes
  PROVE  Filling(me)'
<1>1. ~Pending(me, "creat", "src")'
  BY PendingMoves DEF Filling
<1>2. Pending(me, "fill", "src")'
  BY PendingMoves DEF Filling
<1>3. off'[me] = 0 /\ n'[me] = 0 /\ 0 <= size'[entry'["src"]]
  <2>1. size'[entry'["src"]] \in Nat
    BY FixtureSizes DEF Fixture!TypeOK
  <2>2. off'[me] = 0 /\ n'[me] = 0
    BY DEF Advances, Fixture!TypeOK
  <2> QED
    BY <2>1, <2>2
<1> QED
  BY <1>1, <1>2, <1>3 DEF Filling

(* As long as nothing fails and nobody cleans up, a source that is not      *)
(* whole has somebody in init who fills it: the last to truncate it fills   *)
(* it from its beginning.                                                   *)
LEMMA FilledStep ==
  ASSUME Fixture!TypeOK, Fixture!TypeOK', Scripted, Opened, Made, Made', EntriesApart, Filled,
         bench' = bench, NEW me \in Instances, Fixture!Step(me)
  PROVE  Filled'
<1>0. FKind' = FKind
  BY DEF FKind
<1>1. SUFFICES ASSUME Calm', FKind \notin {"fs-fsync", "fs-meta"}, entry'["src"] # Fixture!None
               PROVE  size'[entry'["src"]] = Blocks \/ \E q \in Instances : Filling(q)'
  BY <1>0 DEF Filled
<1>2. Calm /\ ~Fixture!Fails /\ ~Fixture!At(me, "unlink") /\ ~Fixture!At(me, "rmdir")
  BY <1>1, CalmBack
<1>3. "src" \in Fixture!Files /\ "dst" \in Fixture!Files /\ Fixture!Files = {"src", "dst"}
      /\ MadeBy("src")
  BY <1>1 DEF Fixture!Files, MadeBy
<1>4. entry'["src"] \in Fixture!Inodes /\ size'[entry'["src"]] \in 0..Blocks
  BY <1>1, <1>3 DEF Fixture!TypeOK
<1>5. entry["src"] # Fixture!None =>
        /\ entry["src"] \in Fixture!Inodes
        /\ size[entry["src"]] = Blocks \/ \E q \in Instances : Filling(q)
  BY <1>1, <1>2, <1>3 DEF Filled, Fixture!TypeOK
<1>6. ASSUME NEW q \in Instances, q # me, Filling(q), entry'["src"] = entry["src"],
             size'[entry["src"]] >= size[entry["src"]]
      PROVE  Filling(q)'
  <2>1. /\ instPhase'[q] = instPhase[q] /\ todo'[q] = todo[q] /\ n'[q] = n[q] /\ off'[q] = off[q]
    BY <1>6, OthersStay
  <2>2. \A op, f : Pending(q, op, f)' <=> Pending(q, op, f)
    BY <2>1, PendingStays
  <2>3. Fixture!At(q, "fill")' <=> Fixture!At(q, "fill")
    BY <2>1 DEF Fixture!At
  <2>4. off[q] \in Nat /\ size[entry["src"]] \in Nat /\ size'[entry["src"]] \in Nat
    BY <1>1, <1>3, <1>6, FixtureSizes DEF Fixture!TypeOK
  <2> QED
    BY <1>6, <2>1, <2>2, <2>3, <2>4 DEF Filling
<1>7. CASE Fixture!Call(me)
  <2>1. entry' = entry /\ size' = size /\ todo[me] = << >>
    BY <1>7, CallFacts
  <2>2. ~Filling(me)
    BY <2>1, Lengths DEF Filling, Pending
  <2>3. size[entry["src"]] = Blocks \/ \E q \in Instances : q # me /\ Filling(q)
    BY <1>1, <1>5, <2>1, <2>2
  <2>4. size'[entry["src"]] >= size[entry["src"]]
    BY <1>4, <2>1, FixtureSizes
  <2> QED
    BY <1>6, <2>1, <2>3, <2>4
<1>8. CASE ~Fixture!Call(me)
  <2> DEFINE g == Fixture!File(me)
  <2>1. /\ todo[me] # << >> /\ UNCHANGED instPhase
    BY <1>8, StepKinds
  <2>2. /\ Togo(me) \in 1..Longest(instPhase[me]) /\ Active(me)
        /\ \A op : Fixture!At(me, op) <=> OpAt(instPhase[me], Togo(me)) = op
        /\ g = FileAt(instPhase[me], Togo(me))
    BY <2>1, AtStep
  <2>3. g \in Fixture!Files
        /\ \/ MakesFile(me, g) \/ OpensFile(me, g)
           \/ ClosesFile(me, g) \/ MakesDir(me) \/ FillsOn(me) \/ KeepsDisk(me)
    BY <1>2, <1>8, CalmSteps
  <2> HIDE DEF g
  <2>4. CASE MakesFile(me, g)
    <3>1. PICK x \in Fixture!Inodes :
            /\ IF entry[g] = Fixture!None THEN x = Fixture!FreeInode ELSE x = entry[g]
            /\ entry' = [entry EXCEPT ![g] = x] /\ size' = [size EXCEPT ![x] = 0]
      BY <2>4 DEF MakesFile
    <3>2. Fixture!At(me, "creat") /\ Advances(me)
      BY <2>4 DEF MakesFile
    <3>3. CASE g = "src"
      <4>1. OpAt(instPhase[me], Togo(me)) = "creat" /\ FileAt(instPhase[me], Togo(me)) = "src"
            /\ instPhase[me] \in {"init", "warmup", "measure", "cleanup"}
        BY <2>2, <3>2, <3>3 DEF Active
      <4>2. instPhase[me] = "init"
        BY <1>1, <2>2, <4>1, SrcIsMadeInInit
      <4>3. Togo(me) \in 1..Longest("init") /\ OpAt("init", Togo(me)) = "creat"
            /\ FileAt("init", Togo(me)) = "src"
        BY <2>2, <4>1, <4>2
      <4>4. Len(todo'[me]) = Togo(me) - 1
        BY <2>1, <3>2, Lengths DEF Advances, Fixture!TypeOK
      <4>5. ~Pending(me, "creat", "src")'
        <5>1. SUFFICES ASSUME NEW u \in 1..Togo(me) - 1, OpAt("init", u) = "creat", FileAt("init", u) = "src"
                       PROVE  FALSE
          BY <2>1, <4>2, <4>4, TablesStay DEF Pending, Togo
        <5>2. u \in 1..Longest("init") /\ u # Togo(me)
          BY <4>3, LongestIsNat
        <5> QED
          BY <4>3, <5>1, <5>2, InitOnce
      <4>6. Pending(me, "fill", "src")'
        <5>1. PICK u \in 1..Togo(me) - 1 : OpAt("init", u) = "fill"
          BY <1>1, <4>3, InitOrder
        <5>2. u \in 1..Longest("init")
          BY <4>3, LongestIsNat
        <5>3. FileAt("init", u) = "src"
          BY <1>1, <5>2, InitOrder
        <5> QED
          BY <2>1, <4>2, <4>4, <5>1, <5>3, TablesStay DEF Pending, Togo
      <4>7. off'[me] = 0 /\ n'[me] = 0 /\ 0 <= size'[entry'["src"]]
        <5>1. off'[me] = 0 /\ n'[me] = 0
          BY <3>2 DEF Advances, Fixture!TypeOK
        <5> QED
          BY <1>4, <5>1, FixtureSizes
      <4>8. Filling(me)'
        BY <2>1, <4>2, <4>5, <4>6, <4>7 DEF Filling
      <4> QED
        BY <4>8
    <3>4. CASE g = "dst"
      <4>1. entry'["src"] = entry["src"] /\ entry["src"] # Fixture!None
        BY <1>1, <1>3, <3>1, <3>4 DEF Fixture!TypeOK
      <4>2. x # entry["src"]
        <5>1. CASE entry[g] = Fixture!None
          BY <1>3, <2>3, <3>1, <5>1, FreeInodeIsFree
        <5>2. CASE entry[g] # Fixture!None
          BY <3>1, <3>4, <4>1, <5>2 DEF EntriesApart
        <5> QED
          BY <5>1, <5>2
      <4>3. size'[entry["src"]] = size[entry["src"]]
        BY <1>4, <3>1, <4>1, <4>2 DEF Fixture!TypeOK
      <4>4. ~Filling(me)
        <5>1. SUFFICES ASSUME instPhase[me] = "init" PROVE FALSE
          BY DEF Filling
        <5>2. FileAt("init", Togo(me)) = "src"
          BY <1>1, <2>2, <5>1, InitOrder
        <5> QED
          BY <2>2, <3>4, <5>1, <5>2
      <4>5. size'[entry["src"]] >= size[entry["src"]]
        BY <1>4, <4>1, <4>3, FixtureSizes
      <4> QED
        BY <1>5, <1>6, <4>1, <4>3, <4>4, <4>5
    <3> QED
      BY <1>3, <2>3, <3>3, <3>4
  <2>5. CASE OpensFile(me, g) \/ ClosesFile(me, g) \/ MakesDir(me) \/ FillsOn(me) \/ KeepsDisk(me)
    <3>1. entry' = entry
      BY <2>5 DEF OpensFile, ClosesFile, MakesDir, FillsOn, KeepsDisk
    <3>2. entry["src"] \in Fixture!Inodes /\ size[entry["src"]] \in 0..Blocks
      BY <1>4, <3>1 DEF Fixture!TypeOK
    <3>f. ASSUME Filling(me), Fixture!At(me, "fill") PROVE fd[me]["src"] = entry["src"] /\ g = "src"
      <4>1. instPhase[me] = "init" /\ ~Pending(me, "creat", "src")
        BY <3>f DEF Filling
      <4>2. Pending(me, "close", "src")
        <5>1. 1 \in 1..Togo(me) /\ OpAt("init", 1) = "close" /\ FileAt("init", 1) = "src"
          BY <1>1, <1>3, <2>2, InitMakes, LongestIsNat
        <5> QED
          BY <4>1, <5>1 DEF Pending
      <4>3. fd[me]["src"] # Fixture!None
        BY <1>2, <1>3, <4>1, <4>2 DEF Made
      <4>4. g = "src"
        BY <1>1, <2>2, <4>1, InitOrder
      <4> QED
        BY <1>2, <1>3, <4>3, <4>4 DEF Opened
    <3>3. size'[entry["src"]] >= size[entry["src"]]
      <4>1. CASE FillsOn(me)
        <5>1. Fixture!Grow(fd[me][g], off[me] + 1)
          BY <4>1 DEF FillsOn, g
        <5>2. CASE fd[me][g] = entry["src"] /\ off[me] + 1 > size[entry["src"]]
          <6>1. size'[entry["src"]] = off[me] + 1
            BY <3>2, <5>1, <5>2 DEF Fixture!Grow, Fixture!TypeOK
          <6>2. off[me] \in Nat
            BY FixtureSizes DEF Fixture!TypeOK
          <6> QED
            BY <3>2, <5>2, <6>1, <6>2, FixtureSizes
        <5>3. CASE ~(fd[me][g] = entry["src"] /\ off[me] + 1 > size[entry["src"]])
          <6>1. size'[entry["src"]] = size[entry["src"]]
            BY <3>2, <5>1, <5>3 DEF Fixture!Grow, Fixture!TypeOK
          <6> QED
            BY <3>2, <6>1, FixtureSizes
        <5> QED
          BY <5>2, <5>3
      <4>2. CASE KeepsDisk(me)
        BY <3>2, <4>2 DEF KeepsDisk
      <4>3. CASE OpensFile(me, g) \/ ClosesFile(me, g) \/ MakesDir(me)
        <5>1. size' = size
          BY <4>3 DEF OpensFile, ClosesFile, MakesDir
        <5> QED
          BY <3>2, <5>1, FixtureSizes
      <4> QED
        BY <2>5, <4>1, <4>2, <4>3
    <3>4. CASE size[entry["src"]] = Blocks
      BY <1>4, <3>1, <3>3, <3>4, FixtureSizes
    <3>5. CASE \E q \in Instances : q # me /\ Filling(q)
      BY <1>6, <3>1, <3>3, <3>5
    <3>6. CASE Filling(me)
      <4>1. CASE Advances(me) /\ ~Fixture!At(me, "fill")
        <5>1. Filling(me)'
          BY <1>4, <2>1, <3>6, <4>1, FillingGoesOn
        <5> QED
          BY <5>1
      <4>2. CASE FillsOn(me)
        <5>1. Fixture!At(me, "fill") /\ todo' = todo
              /\ n' = [n EXCEPT ![me] = @ + 1] /\ off' = [off EXCEPT ![me] = @ + 1]
              /\ Fixture!Grow(fd[me][g], off[me] + 1)
          BY <4>2 DEF FillsOn, g
        <5>2. fd[me][g] = entry["src"]
          BY <3>f, <3>6, <5>1
        <5>3. off[me] = n[me] /\ n[me] \in Nat /\ off[me] \in Nat
          BY <3>6, <5>1, FixtureSizes DEF Filling, Fixture!TypeOK
        <5>4. off'[me] = off[me] + 1 /\ n'[me] = n[me] + 1
          BY <5>1 DEF Fixture!TypeOK
        <5>5. size'[entry["src"]] = IF off[me] + 1 > size[entry["src"]] THEN off[me] + 1 ELSE size[entry["src"]]
          BY <3>2, <5>1, <5>2 DEF Fixture!Grow, Fixture!TypeOK
        <5>6. off[me] + 1 <= size'[entry["src"]]
          <6>1. CASE off[me] + 1 > size[entry["src"]]
            BY <5>3, <5>5, <6>1
          <6>2. CASE ~(off[me] + 1 > size[entry["src"]])
            BY <3>2, <5>3, <5>5, <6>2, FixtureSizes
          <6> QED
            BY <6>1, <6>2
        <5>7. \A op, f : Pending(me, op, f)' <=> Pending(me, op, f)
          BY <2>1, <5>1, PendingStays
        <5>8. Filling(me)'
          BY <2>1, <3>1, <3>6, <5>3, <5>4, <5>6, <5>7 DEF Filling
        <5> QED
          BY <5>8
      <4>3. CASE KeepsDisk(me) /\ Fixture!At(me, "fill")
        <5>1. fd[me][g] = entry["src"]
          BY <3>f, <3>6, <4>3
        <5>2. n[me] = Blocks
          BY <3>2, <4>3, <5>1 DEF KeepsDisk, g, Fixture!None, Fixture!Inodes
        <5>3. Blocks <= size[entry["src"]]
          BY <3>6, <4>3, <5>2 DEF Filling
        <5>4. size[entry["src"]] = Blocks
          BY <3>2, <5>3, FixtureSizes
        <5> QED
          BY <3>4, <5>4
      <4>4. CASE KeepsDisk(me) /\ ~Fixture!At(me, "fill") /\ todo' = todo
        <5>1. \A op, f : Pending(me, op, f)' <=> Pending(me, op, f)
          BY <2>1, <4>4, PendingStays
        <5>2. ~Fixture!At(me, "fill")'
          BY <4>4 DEF Fixture!At
        <5>3. Filling(me)'
          BY <2>1, <3>6, <5>1, <5>2 DEF Filling
        <5> QED
          BY <5>3
      <4>5. CASE Gives(me) /\ Fixture!At(me, "need")
        <5>1. instPhase'[me] = "init" /\ instRet'[me] = -1
          BY <2>1, <3>6, <4>5 DEF Gives, Filling, Fixture!TypeOK
        <5>2. instRet'[me] = 0
          BY <1>1, <5>1 DEF Made
        <5> QED
          BY <5>1, <5>2
      <4>6. CASE OpensFile(me, g) \/ ClosesFile(me, g) \/ MakesDir(me)
        BY <4>1, <4>6 DEF OpensFile, ClosesFile, MakesDir, Fixture!At
      <4> QED
        BY <2>5, <4>1, <4>2, <4>3, <4>4, <4>5, <4>6 DEF KeepsDisk
    <3> QED
      BY <1>5, <3>2, <3>4, <3>5, <3>6 DEF Fixture!None, Fixture!Inodes
  <2> QED
    BY <2>3, <2>4, <2>5
<1> QED
  BY <1>7, <1>8

(* What the steps that count do when nothing fails and what they work on is *)
(* whole.                                                                   *)
Counts(me) ==
  \/ n[me] = Blocks /\ Advances(me) /\ moved' = moved
  \/ todo' = todo /\ n'[me] = n[me] + 1 /\ moved'[me] = moved[me] + 1

(* Which action a step of a loop or a stat is.                              *)
LEMMA ByOp ==
  ASSUME NEW me \in Instances, Fixture!Step(me), ~Fixture!Call(me)
  PROVE  /\ Fixture!At(me, "rewrite") => Fixture!Rewrite(me) \/ Fixture!Skip(me)
         /\ Fixture!At(me, "read") => Fixture!Read(me) \/ Fixture!Skip(me)
         /\ Fixture!At(me, "pread") => Fixture!Pread(me) \/ Fixture!Skip(me)
         /\ Fixture!At(me, "copy") => Fixture!Copy(me) \/ Fixture!Skip(me)
         /\ Fixture!At(me, "spawn") => Fixture!Spawn(me)
         /\ Fixture!At(me, "stat") => Fixture!Stat(me)
<1> DEFINE op == Head(todo[me])[1]
<1>1. /\ Fixture!Creat(me) => op = "creat"
      /\ Fixture!Open(me) => op = "open"
      /\ Fixture!OpenFails(me) => op \in {"creat", "open"}
      /\ Fixture!Need(me) => op = "need"
  BY DEF Fixture!Creat, Fixture!Open, Fixture!OpenFails, Fixture!Need, Fixture!At
<1>2. /\ Fixture!Skip(me) => op \in Fixture!Transfers
      /\ Fixture!Close(me) => op = "close"
      /\ Fixture!Stat(me) => op = "stat"
      /\ Fixture!Unlink(me) => op = "unlink"
      /\ Fixture!Mkdir(me) => op = "mkdir"
      /\ Fixture!Rmdir(me) => op = "rmdir"
  BY DEF Fixture!Skip, Fixture!Close, Fixture!Stat, Fixture!Unlink, Fixture!Mkdir, Fixture!Rmdir, Fixture!At
<1>3. /\ Fixture!Fill(me) => op = "fill"
      /\ Fixture!Rewrite(me) => op = "rewrite"
      /\ Fixture!Read(me) => op = "read"
      /\ Fixture!Pread(me) => op = "pread"
      /\ Fixture!Copy(me) => op = "copy"
      /\ Fixture!Spawn(me) => op = "spawn"
  BY DEF Fixture!Fill, Fixture!Rewrite, Fixture!Read, Fixture!Pread, Fixture!Copy, Fixture!Spawn, Fixture!At
<1>4. \A o : Fixture!At(me, o) => op = o
  BY DEF Fixture!At
<1> HIDE DEF op
<1> QED
  BY <1>1, <1>2, <1>3, <1>4 DEF Fixture!Step, Fixture!Transfers

(* On a descriptor of a whole file every turn of a loop counts, and the     *)
(* loop ends after as many turns as there are blocks.                       *)
LEMMA CountingSteps ==
  ASSUME Fixture!TypeOK, Counters, NEW me \in Instances, Fixture!Step(me), ~Fixture!Fails,
         ~Fixture!Call(me), NEW f \in Fixture!Files, Fixture!File(me) = f
  PROVE  /\ Fixture!At(me, "rewrite") /\ fd[me][f] # Fixture!None => Counts(me) /\ fd' = fd
         /\ Fixture!At(me, "read") /\ fd[me][f] # Fixture!None /\ size[fd[me][f]] = Blocks =>
              Counts(me) /\ fd' = fd
         /\ Fixture!At(me, "pread") /\ fd[me][f] # Fixture!None /\ size[fd[me][f]] = Blocks =>
              Counts(me) /\ fd' = fd
         /\ /\ Fixture!At(me, "copy") /\ fd[me][f] # Fixture!None
            /\ fd[me]["src"] # Fixture!None /\ size[fd[me]["src"]] = Blocks
            => Counts(me) /\ fd' = fd
         /\ /\ Fixture!At(me, "spawn")
            /\ entry["src"] # Fixture!None /\ size[entry["src"]] = Blocks
            => Counts(me) /\ fd' = fd
         /\ Fixture!At(me, "stat") /\ entry[f] # Fixture!None =>
              Advances(me) /\ moved'[me] = moved[me] + 1
<1> USE DEF Advances, Fixture!Advance
<1>1. /\ n[me] \in 0..Blocks /\ off[me] \in 0..Blocks /\ moved[me] \in Nat /\ Blocks \in Nat
      /\ n \in [Instances -> 0..Blocks] /\ moved \in [Instances -> 0..(Passes + 1) * Blocks]
      /\ Fixture!At(me, "read") => off[me] = n[me]
  BY FixtureSizes DEF Fixture!TypeOK, Counters
<1>2. Fixture!Handle(me) = fd[me][f]
  BY DEF Fixture!Handle
<1>3. \A s : Fixture!Continue(me, s) /\ Fixture!Move(me, 1) => Counts(me)
  BY <1>1 DEF Fixture!Continue, Fixture!Move, Counts
<1>4. ASSUME Fixture!At(me, "rewrite"), fd[me][f] # Fixture!None PROVE Counts(me) /\ fd' = fd
  <2>1. ~Fixture!Skip(me)
    BY <1>2, <1>4 DEF Fixture!Skip, Fixture!At
  <2>2. Fixture!Rewrite(me)
    BY <1>4, <2>1, ByOp
  <2>3. fd' = fd
    BY <2>2 DEF Fixture!Rewrite
  <2>4. CASE n[me] = Blocks
    BY <2>2, <2>3, <2>4 DEF Fixture!Rewrite, Counts
  <2>5. CASE n[me] # Blocks
    BY <1>3, <2>2, <2>3, <2>5 DEF Fixture!Rewrite
  <2> QED
    BY <2>4, <2>5
<1>5. ASSUME Fixture!At(me, "read"), fd[me][f] # Fixture!None, size[fd[me][f]] = Blocks
      PROVE  Counts(me) /\ fd' = fd
  <2>1. ~Fixture!Skip(me)
    BY <1>2, <1>5 DEF Fixture!Skip, Fixture!At
  <2>2. Fixture!Read(me)
    BY <1>5, <2>1, ByOp
  <2>3. fd' = fd
    BY <2>2 DEF Fixture!Read
  <2>4. CASE n[me] = Blocks
    BY <1>1, <1>2, <1>5, <2>2, <2>3, <2>4 DEF Fixture!Read, Counts
  <2>5. CASE n[me] # Blocks
    <3>1. ~(off[me] >= size[Fixture!Handle(me)])
      BY <1>1, <1>2, <1>5, <2>5
    <3> QED
      BY <1>3, <2>2, <2>3, <3>1 DEF Fixture!Read
  <2> QED
    BY <2>4, <2>5
<1>6. ASSUME Fixture!At(me, "pread"), fd[me][f] # Fixture!None, size[fd[me][f]] = Blocks
      PROVE  Counts(me) /\ fd' = fd
  <2>1. ~Fixture!Skip(me)
    BY <1>2, <1>6 DEF Fixture!Skip, Fixture!At
  <2>2. Fixture!Pread(me)
    BY <1>6, <2>1, ByOp
  <2>3. fd' = fd
    BY <2>2 DEF Fixture!Pread
  <2>4. CASE n[me] = Blocks
    BY <2>2, <2>3, <2>4 DEF Fixture!Pread, Counts
  <2>5. CASE n[me] # Blocks
    <3>1. PICK o \in 0..Blocks - 1 : Fixture!Continue(me, 0) /\ Fixture!Move(me, IF o < size[fd[me][f]] THEN 1 ELSE 0)
      BY <1>2, <2>2, <2>5 DEF Fixture!Pread
    <3>2. o < size[fd[me][f]]
      BY <1>1, <1>6
    <3> QED
      BY <1>3, <2>3, <3>1, <3>2
  <2> QED
    BY <2>4, <2>5
<1>7. ASSUME Fixture!At(me, "copy"), fd[me][f] # Fixture!None, fd[me]["src"] # Fixture!None,
             size[fd[me]["src"]] = Blocks
      PROVE  Counts(me) /\ fd' = fd
  <2>1. ~Fixture!Skip(me)
    BY <1>2, <1>7 DEF Fixture!Skip
  <2>2. Fixture!Copy(me)
    BY <1>7, <2>1, ByOp
  <2>3. fd' = fd
    BY <2>2 DEF Fixture!Copy
  <2>4. CASE n[me] = Blocks
    <3>1. n[me] >= size[fd[me]["src"]]
      BY <1>1, <1>7, <2>4
    <3> QED
      BY <2>2, <2>3, <2>4, <3>1 DEF Fixture!Copy, Counts
  <2>5. CASE n[me] # Blocks
    <3>1. ~(n[me] >= size[fd[me]["src"]])
      BY <1>1, <1>7, <2>5
    <3> QED
      BY <1>3, <2>2, <2>3, <3>1 DEF Fixture!Copy
  <2> QED
    BY <2>4, <2>5
<1>8. ASSUME Fixture!At(me, "spawn"), entry["src"] # Fixture!None, size[entry["src"]] = Blocks
      PROVE  Counts(me) /\ fd' = fd
  <2>1. Fixture!Spawn(me)
    BY <1>8, ByOp
  <2>2. fd' = fd
    BY <2>1 DEF Fixture!Spawn
  <2>3. CASE n[me] = Blocks
    BY <2>1, <2>2, <2>3 DEF Fixture!Spawn, Counts
  <2>4. CASE n[me] # Blocks
    BY <1>3, <1>8, <2>1, <2>2, <2>4 DEF Fixture!Spawn
  <2> QED
    BY <2>3, <2>4
<1>9. ASSUME Fixture!At(me, "stat"), entry[f] # Fixture!None
      PROVE  Advances(me) /\ moved'[me] = moved[me] + 1
  <2>1. Fixture!Stat(me)
    BY <1>9, ByOp
  <2>2. Fixture!Move(me, 1) /\ Advances(me)
    BY <1>9, <2>1 DEF Fixture!Stat
  <2> QED
    BY <1>1, <2>2 DEF Fixture!Move
<1> QED
  BY <1>4, <1>5, <1>6, <1>7, <1>8, <1>9

(* While nobody disturbs an instance the files are there and whole.         *)
LEMMA WholeFiles ==
  ASSUME Fixture!TypeOK, Opened, Made, Filled, NEW me \in Instances, Undisturbed(me)
  PROVE  /\ Calm
         /\ \A f \in Fixture!Files : MadeBy(f) => entry[f] # Fixture!None
         /\ \A f \in Fixture!Files : fd[me][f] # Fixture!None => fd[me][f] = entry[f]
         /\ FKind \notin {"fs-fsync", "fs-meta"} =>
              entry["src"] # Fixture!None /\ size[entry["src"]] = Blocks
<1>1. Calm
  BY DEF Undisturbed, Calm, Set
<1>2. \A f \in Fixture!Files : MadeBy(f) => entry[f] # Fixture!None
  BY <1>1 DEF Made, Undisturbed, Set
<1>3. \A f \in Fixture!Files : fd[me][f] # Fixture!None => fd[me][f] = entry[f]
  BY <1>1 DEF Opened
<1>4. \A q \in Instances : ~Filling(q)
  BY DEF Undisturbed, Filling, Set
<1>5. FKind \notin {"fs-fsync", "fs-meta"} => entry["src"] # Fixture!None
  BY <1>2 DEF MadeBy, Fixture!Files
<1>6. FKind \notin {"fs-fsync", "fs-meta"} => size[entry["src"]] = Blocks
  BY <1>1, <1>4, <1>5 DEF Filled
<1> QED
  BY <1>1, <1>2, <1>3, <1>5, <1>6

(* A measure that nobody has disturbed had not been disturbed a step        *)
(* before: who is set up when it begins does not set up again, and who is   *)
(* not has not begun.                                                       *)
LEMMA UndisturbedBack ==
  ASSUME Fixture!TypeOK, Scripted, SinceSet, bench' = bench, NEW me \in Instances, Fixture!Step(me),
         NEW x \in Instances, Undisturbed(x)', x = me => ~Fixture!Call(me)
  PROVE  Undisturbed(x)
<1>1. faults = 0
  BY NoFault DEF Undisturbed
<1>2. instPhase[x] = "measure"
  <2>1. CASE x = me
    BY <2>1, StepKinds DEF Undisturbed
  <2>2. CASE x # me
    BY <2>2, OthersStay DEF Undisturbed
  <2> QED
    BY <2>1, <2>2
<1>3. since'[x] = since[x]
  <2>1. CASE x = me
    BY <2>1, StepKinds
  <2>2. CASE x # me
    BY <2>2, OthersStay
  <2> QED
    BY <2>1, <2>2
<1>4. ASSUME NEW q \in Instances, q # x
      PROVE  instPhase[q] = "new" \/ (q \in since[x] /\ Set(q))
  <2>1. instPhase'[q] = "new" \/ (q \in since[x] /\ instPhase'[q] \in {"warmup", "measure"})
    BY <1>3, <1>4 DEF Undisturbed, Set
  <2>2. CASE q # me
    <3>1. instPhase'[q] = instPhase[q]
      BY <2>2, OthersStay
    <3> QED
      BY <2>1, <3>1 DEF Set
  <2>3. CASE q = me /\ ~Fixture!Call(me)
    <3>1. instPhase'[q] = instPhase[q]
      BY <2>3, StepKinds
    <3> QED
      BY <2>1, <3>1 DEF Set
  <2>4. CASE q = me /\ Fixture!Call(me)
    <3>1. instPhase'[me] # "new" /\ (instPhase'[me] \in {"warmup", "measure"} => instPhase[me] \in {"init", "warmup", "measure"})
      BY <2>4, CallFacts
    <3>2. me \in since[x] /\ instPhase[me] \in {"init", "warmup", "measure"}
      BY <2>1, <2>4, <3>1
    <3>3. instPhase[me] # "init"
      BY <3>2 DEF SinceSet
    <3> QED
      BY <2>4, <3>2, <3>3 DEF Set
  <2> QED
    BY <2>2, <2>3, <2>4
<1> QED
  BY <1>1, <1>2, <1>4 DEF Undisturbed

(* What the steps of a measure do while nobody disturbs it.                 *)
Goes(me) ==
  Len(todo'[me]) = Togo(me) - 1 /\ n'[me] = 0 /\ moved'[me] = moved[me] /\ instRet'[me] = 0

Counted(me) ==
  \/ n[me] = Blocks /\ Goes(me)
  \/ /\ Len(todo'[me]) = Togo(me) /\ n'[me] = n[me] + 1 /\ moved'[me] = moved[me] + 1
     /\ instRet'[me] = 0

(* Of a measure that nobody disturbs, no open fails, every descriptor is    *)
(* that of a whole file, and every turn of a loop counts.                   *)
LEMMA MeasureSteps ==
  ASSUME Fixture!TypeOK, Scripted, Counters, Opened, Made, Filled, bench' = bench,
         NEW me \in Instances, Fixture!Step(me), ~Fixture!Call(me), Undisturbed(me), Calm',
         NEW op, OpAt("measure", Togo(me)) = op, NEW f, FileAt("measure", Togo(me)) = f
  PROVE  /\ Togo(me) \in 1..Longest("measure") /\ f \in Fixture!Files
         /\ op \in {"open", "creat"} =>
              /\ Goes(me) /\ fd'[me][f] # Fixture!None
              /\ \A g \in Fixture!Files : g # f => fd'[me][g] = fd[me][g]
         /\ op = "need" /\ Holds(me, f) => Goes(me) /\ fd' = fd
         /\ op = "close" => Goes(me) /\ \A g \in Fixture!Files : g # f => fd'[me][g] = fd[me][g]
         /\ op \in {"rewrite", "read", "pread"} /\ Holds(me, f) => Counted(me) /\ fd' = fd
         /\ op = "spawn" => Counted(me) /\ fd' = fd
         /\ op = "copy" /\ Holds(me, f) /\ Holds(me, "src") => Counted(me) /\ fd' = fd
         /\ op = "stat" =>
              /\ Len(todo'[me]) = Togo(me) - 1 /\ moved'[me] = moved[me] + 1 /\ instRet'[me] = 0
<1>1. Calm /\ ~Fixture!Fails /\ ~Fixture!At(me, "unlink") /\ ~Fixture!At(me, "rmdir")
  BY CalmBack
<1>2. /\ todo[me] # << >> /\ Fixture!File(me) \in Fixture!Files
      /\ \/ MakesFile(me, Fixture!File(me)) \/ OpensFile(me, Fixture!File(me))
         \/ ClosesFile(me, Fixture!File(me)) \/ MakesDir(me) \/ FillsOn(me) \/ KeepsDisk(me)
  BY <1>1, CalmSteps
<1>3. /\ instPhase[me] = "measure" /\ Togo(me) \in 1..Longest("measure") /\ instRet[me] = 0
      /\ \A o : Fixture!At(me, o) <=> op = o
      /\ Fixture!File(me) = f /\ f \in Fixture!Files
  BY <1>2, AtStep DEF Undisturbed
<1>4. /\ \A g \in Fixture!Files : MadeBy(g) => entry[g] # Fixture!None
      /\ \A g \in Fixture!Files : fd[me][g] # Fixture!None => fd[me][g] = entry[g]
      /\ FKind \notin {"fs-fsync", "fs-meta"} =>
           entry["src"] # Fixture!None /\ size[entry["src"]] = Blocks
  BY WholeFiles
<1>5. FKind \in FixtureKinds
  BY FixtureKind
<1>6. /\ op \in {"open", "read", "pread", "copy", "spawn"} => FKind \notin {"fs-fsync", "fs-meta"}
      /\ op \in {"open", "read", "pread"} => f = "src"
      /\ op = "creat" => FKind # "fs-meta"
      /\ op = "stat" => MadeBy(f)
  <2>1. Longest("measure") \in Nat
    BY LongestIsNat
  <2>2. CASE FKind = "fs-copy"
    BY <1>5, <2>2 DEF OpAt, FileAt
  <2>3. CASE FKind # "fs-copy"
    BY <1>5, <2>3 DEF OpAt, FileAt, FixtureKinds, MadeBy
  <2> QED
    BY <2>2, <2>3
<1>7. "src" \in Fixture!Files
  BY DEF Fixture!Files
<1>8. \/ Advances(me) /\ moved' = moved /\ instRet' = instRet
      \/ Advances(me) /\ op = "stat" /\ instRet' = instRet
      \/ LoopsOn(me) /\ op \in Loops /\ instRet' = instRet
      \/ Gives(me) /\ op = "need" /\ fd[me][f] = Fixture!None
  <2>1. LoopsOn(me) => op \in Loops
    BY <1>3 DEF LoopsOn
  <2>2. CASE instRet' = instRet
    <3>1. ~Gives(me)
      BY <1>3, <2>2 DEF Gives, Fixture!TypeOK
    <3> QED
      BY <1>3, <2>1, <2>2, <3>1, LoopKinds
  <2>3. CASE instRet' # instRet
    BY <1>3, <2>3, StepKinds
  <2> QED
    BY <2>2, <2>3
<1>9. Advances(me) => Len(todo'[me]) = Togo(me) - 1 /\ n'[me] = 0
  BY <1>2, Lengths DEF Advances, Fixture!TypeOK
<1>10. op \notin Loops \cup {"stat", "need"} => Goes(me)
  BY <1>3, <1>8, <1>9 DEF Goes
<1>11. ASSUME op \in {"open", "creat"}
       PROVE  /\ Goes(me) /\ fd'[me][f] # Fixture!None
              /\ \A g \in Fixture!Files : g # f => fd'[me][g] = fd[me][g]
  <2>1. Goes(me)
    BY <1>10, <1>11 DEF Loops, Fixture!Transfers
  <2>2. CASE op = "open"
    <3>1. OpensFile(me, f)
      BY <1>2, <1>3, <2>2 DEF MakesFile, ClosesFile, MakesDir, FillsOn, KeepsDisk
    <3>2. fd'[me] = [fd[me] EXCEPT ![f] = entry[f]]
      BY <3>1 DEF OpensFile, Fixture!TypeOK
    <3> QED
      BY <1>3, <1>4, <1>6, <2>1, <2>2, <3>2 DEF Fixture!TypeOK
  <2>3. CASE op = "creat"
    <3>1. MakesFile(me, f)
      BY <1>2, <1>3, <1>6, <2>3 DEF OpensFile, ClosesFile, MakesDir, FillsOn, KeepsDisk
    <3>2. PICK x \in Fixture!Inodes : fd' = [fd EXCEPT ![me][f] = x]
      BY <3>1 DEF MakesFile
    <3>3. fd'[me] = [fd[me] EXCEPT ![f] = x] /\ x # Fixture!None
      BY <3>2 DEF Fixture!TypeOK, Fixture!Inodes, Fixture!None
    <3> QED
      BY <1>3, <2>1, <3>3 DEF Fixture!TypeOK
  <2> QED
    BY <1>11, <2>2, <2>3
<1>12. ASSUME op = "need", Holds(me, f) PROVE Goes(me) /\ fd' = fd
  <2>1. Goes(me)
    BY <1>3, <1>8, <1>9, <1>12 DEF Goes, Holds, Loops, Fixture!Transfers
  <2>2. fd' = fd
    BY <1>2, <1>3, <1>12 DEF MakesFile, OpensFile, ClosesFile, MakesDir, FillsOn, KeepsDisk
  <2> QED
    BY <2>1, <2>2
<1>13. ASSUME op = "close" PROVE Goes(me) /\ \A g \in Fixture!Files : g # f => fd'[me][g] = fd[me][g]
  <2>1. Goes(me)
    BY <1>10, <1>13 DEF Loops, Fixture!Transfers
  <2>2. ClosesFile(me, f)
    BY <1>2, <1>3, <1>13 DEF MakesFile, OpensFile, MakesDir, FillsOn, KeepsDisk
  <2>3. fd'[me] = [fd[me] EXCEPT ![f] = Fixture!None]
    BY <2>2 DEF ClosesFile, Fixture!TypeOK
  <2> QED
    BY <1>3, <2>1, <2>3 DEF Fixture!TypeOK
<1>14. Counts(me) /\ op \in Loops => Counted(me)
  <2>1. ASSUME Counts(me), op \in Loops PROVE Counted(me)
    <3>1. instRet'[me] = 0
      BY <1>3, <1>8, <2>1 DEF Loops, Fixture!Transfers
    <3>2. CASE n[me] = Blocks /\ Advances(me) /\ moved' = moved
      BY <1>9, <3>1, <3>2 DEF Counted, Goes
    <3>3. CASE todo' = todo /\ n'[me] = n[me] + 1 /\ moved'[me] = moved[me] + 1
      BY <3>1, <3>3 DEF Counted, Togo
    <3> QED
      BY <2>1, <3>2, <3>3 DEF Counts
  <2> QED
    BY <2>1
<1>15. op \in {"rewrite", "read", "pread"} /\ Holds(me, f) => Counted(me) /\ fd' = fd
  BY <1>1, <1>3, <1>4, <1>6, <1>14, CountingSteps DEF Holds, Loops, Fixture!Transfers
<1>16. op = "spawn" => Counted(me) /\ fd' = fd
  BY <1>1, <1>3, <1>4, <1>6, <1>14, CountingSteps DEF Loops
<1>17. op = "copy" /\ Holds(me, f) /\ Holds(me, "src") => Counted(me) /\ fd' = fd
  BY <1>1, <1>3, <1>4, <1>6, <1>7, <1>14, CountingSteps DEF Holds, Loops, Fixture!Transfers
<1>18. ASSUME op = "stat"
       PROVE  Len(todo'[me]) = Togo(me) - 1 /\ moved'[me] = moved[me] + 1 /\ instRet'[me] = 0
  <2>1. entry[f] # Fixture!None
    BY <1>3, <1>4, <1>6, <1>18
  <2>2. Advances(me) /\ moved'[me] = moved[me] + 1
    BY <1>1, <1>3, <1>18, <2>1, CountingSteps
  <2>3. instRet'[me] = 0
    BY <1>3, <1>8, <1>18
  <2> QED
    BY <1>9, <2>2, <2>3
<1> QED
  BY <1>3, <1>11, <1>12, <1>13, <1>15, <1>16, <1>17, <1>18

(* An undisturbed measure has moved what it should after each of its steps. *)
LEMMA SoFarStep ==
  ASSUME Fixture!TypeOK, Scripted, Counters, Opened, Made, Filled, bench' = bench,
         NEW me \in Instances, Fixture!Step(me), ~Fixture!Call(me), Undisturbed(me), Calm',
         SoFar(me)
  PROVE  instRet'[me] = 0 /\ SoFar(me)'
<1> DEFINE T == Togo(me)
           m == moved[me]
           k == n[me]
<1>0. FKind' = FKind /\ FKind \in FixtureKinds
  BY FixtureKind DEF FKind
<1>1. /\ T \in Nat /\ m \in Nat /\ k \in 0..Blocks /\ Blocks \in Nat \ {0} /\ Passes \in Nat
      /\ Fixture!Files = {"src", "dst"}
  BY FixtureSizes, Lengths, SMTT(60) DEF Fixture!TypeOK, Fixture!Files
<1>2. PICK op : OpAt("measure", T) = op
  OBVIOUS
<1>3. PICK f : FileAt("measure", T) = f
  OBVIOUS
<1>4. T \in 1..Longest("measure") /\ f \in Fixture!Files
  BY <1>2, <1>3, MeasureSteps
<1>5. op \in {"open", "creat"} =>
        /\ Goes(me) /\ fd'[me][f] # Fixture!None
        /\ \A g \in Fixture!Files : g # f => fd'[me][g] = fd[me][g]
  BY <1>2, <1>3, MeasureSteps
<1>6. op = "need" /\ Holds(me, f) => Goes(me) /\ fd' = fd
  BY <1>2, <1>3, MeasureSteps
<1>7. op = "close" => Goes(me) /\ \A g \in Fixture!Files : g # f => fd'[me][g] = fd[me][g]
  BY <1>2, <1>3, MeasureSteps
<1>8. op \in {"rewrite", "read", "pread"} /\ Holds(me, f) => Counted(me) /\ fd' = fd
  BY <1>2, <1>3, MeasureSteps
<1>9. op = "spawn" => Counted(me) /\ fd' = fd
  BY <1>2, <1>3, MeasureSteps
<1>10. op = "copy" /\ Holds(me, f) /\ Holds(me, "src") => Counted(me) /\ fd' = fd
  BY <1>2, <1>3, MeasureSteps
<1>11. op = "stat" =>
         Len(todo'[me]) = T - 1 /\ moved'[me] = m + 1 /\ instRet'[me] = 0
  BY <1>2, <1>3, MeasureSteps
<1> DEFINE T2 == Len(todo'[me])
           m2 == moved'[me]
           k2 == n'[me]
           H2(g) == fd'[me][g] # Fixture!None
<1>12. Goes(me) => T2 = T - 1 /\ k2 = 0 /\ m2 = m /\ instRet'[me] = 0
  BY DEF Goes
<1>13. Counted(me) => \/ k = Blocks /\ T2 = T - 1 /\ k2 = 0 /\ m2 = m
                      \/ T2 = T /\ k2 = k + 1 /\ m2 = m + 1
  BY DEF Counted, Goes
<1>14. Counted(me) => instRet'[me] = 0
  BY DEF Counted, Goes
<1>15. /\ T2 = Togo(me)' /\ (\A g : Holds(me, g)' <=> H2(g))
       /\ (fd' = fd => \A g : H2(g) <=> Holds(me, g))
  BY DEF Togo, Holds
<1> HIDE DEF T2, m2, k2, H2
<1>16. CASE FKind \in {"fs-fsync", "fs-rand-rw", "fs-uring"}
  <2>1. T \in 1..4 /\ f = "src"
    BY <1>1, <1>3, <1>4, <1>16 DEF Longest, FileAt
  <2>2. /\ T > 2 => m = 0
        /\ T = 3 => Holds(me, "src")
        /\ T = 2 => m = k /\ Holds(me, "src")
        /\ T < 2 => m = Blocks
    BY <1>16 DEF SoFar, InLoop
  <2>3. /\ T = 4 => op \in {"open", "creat"}
        /\ T = 3 => op = "need"
        /\ T = 2 => op \in {"rewrite", "pread"}
        /\ T = 1 => op = "close"
    BY <1>2, <1>16 DEF OpAt
  <2>4. /\ T2 > 2 => m2 = 0
        /\ T2 = 3 => H2("src")
        /\ T2 = 2 => m2 = k2 /\ H2("src")
        /\ T2 < 2 => m2 = Blocks
        /\ instRet'[me] = 0
    <3>1. CASE T = 4
      BY <1>1, <1>5, <1>12, <2>1, <2>2, <2>3, <3>1 DEF H2
    <3>2. CASE T = 3
      BY <1>1, <1>6, <1>12, <1>15, <2>1, <2>2, <2>3, <3>2
    <3>3. CASE T = 2
      BY <1>1, <1>8, <1>13, <1>14, <1>15, <2>1, <2>2, <2>3, <3>3
    <3>4. CASE T = 1
      BY <1>1, <1>7, <1>12, <2>1, <2>2, <2>3, <3>4
    <3> QED
      BY <2>1, <3>1, <3>2, <3>3, <3>4
  <2> QED
    BY <1>0, <1>15, <1>16, <2>4 DEF SoFar, InLoop, m2, k2
<1>17. CASE FKind = "fs-seq-rw"
  <2>1. T \in 1..3 /\ f = "src"
    BY <1>1, <1>3, <1>4, <1>17 DEF Longest, FileAt
  <2>2. /\ T > 2 => m = 0
        /\ T = 2 => m = k /\ Holds(me, "src")
        /\ T < 2 => m = Blocks
    BY <1>17 DEF SoFar, InLoop
  <2>3. /\ T = 3 => op = "open"
        /\ T = 2 => op = "read"
        /\ T = 1 => op = "close"
    BY <1>2, <1>17 DEF OpAt
  <2>4. /\ T2 > 2 => m2 = 0
        /\ T2 = 2 => m2 = k2 /\ H2("src")
        /\ T2 < 2 => m2 = Blocks
        /\ instRet'[me] = 0
    <3>2. CASE T = 3
      BY <1>1, <1>5, <1>12, <2>1, <2>2, <2>3, <3>2 DEF H2
    <3>3. CASE T = 2
      BY <1>1, <1>8, <1>13, <1>14, <1>15, <2>1, <2>2, <2>3, <3>3
    <3>4. CASE T = 1
      BY <1>1, <1>7, <1>12, <2>1, <2>2, <2>3, <3>4
    <3> QED
      BY <2>1, <3>2, <3>3, <3>4
  <2> QED
    BY <1>0, <1>15, <1>17, <2>4 DEF SoFar, InLoop, m2, k2
<1>18. CASE FKind = "fs-meta"
  <2>1. op = "stat" /\ m = 2 - T
    BY <1>2, <1>18 DEF OpAt, SoFar
  <2>2. m2 = 2 - T2 /\ instRet'[me] = 0
    BY <1>1, <1>11, <2>1 DEF T2, m2
  <2> QED
    BY <1>0, <1>15, <1>18, <2>2 DEF SoFar, m2
<1>19. CASE FKind \in {"script-python", "script-shell"}
  <2>1. T = 1 /\ op = "spawn"
    BY <1>1, <1>2, <1>4, <1>19 DEF Longest, OpAt
  <2>2. m = k
    BY <1>19, <2>1 DEF SoFar
  <2>3. m2 = (IF T2 = 1 THEN k2 ELSE Blocks) /\ instRet'[me] = 0
    BY <1>1, <1>9, <1>13, <1>14, <2>1, <2>2
  <2> QED
    BY <1>0, <1>15, <1>19, <2>3 DEF SoFar, m2, k2
<1>20. CASE FKind = "fs-copy"
  <2>1. PICK q \in 0..Passes, r \in 0..4 :
          /\ T = 5 * (Passes - q) - r
          /\ r < 2 => m = q * Blocks
          /\ r = 2 => m = q * Blocks + k /\ Holds(me, "dst")
          /\ r > 2 => m = q * Blocks + Blocks
          /\ r \in {1, 2} => Holds(me, "src")
    BY <1>20 DEF SoFar, InPass
  <2>a. ASSUME r = 0 PROVE T % 5 = 0
    <3>1. T = 5 * (Passes - q) + 0 /\ Passes - q \in Int /\ 0 \in 0..4
      BY <1>1, <2>1, <2>a
    <3> QED
      BY <3>1, Fives
  <2>b. ASSUME r \in 1..4 PROVE T % 5 = 5 - r
    <3>1. T = 5 * (Passes - q - 1) + (5 - r) /\ Passes - q - 1 \in Int /\ 5 - r \in 0..4
      BY <1>1, <2>1, <2>b
    <3> QED
      BY <3>1, Fives
  <2>2. (r = 0 => T % 5 = 0) /\ (r \in 1..4 => T % 5 = 5 - r)
    BY <2>a, <2>b
  <2>3. /\ r = 0 => op = "open" /\ f = "src"
        /\ r = 1 => op = "creat" /\ f = "dst"
        /\ r = 2 => op = "copy" /\ f = "dst"
        /\ r > 2 => op = "close"
    <3> HIDE DEF T
    <3> QED
      BY <1>2, <1>3, <1>20, <2>1, <2>2 DEF OpAt, FileAt, T
  <2>4. PICK a \in Nat : a = q * Blocks /\ (q + 1) * Blocks = a + Blocks
    BY PassSizes
  <2>5. /\ r < 4 => r + 1 \in 0..4 /\ T - 1 = 5 * (Passes - q) - (r + 1)
        /\ r = 4 => q + 1 \in 0..Passes /\ 0 \in 0..4 /\ T - 1 = 5 * (Passes - (q + 1)) - 0
    <3>1. Passes \in Nat /\ q \in Nat /\ q <= Passes /\ T \in Nat /\ T >= 1
      BY <1>1, <1>4, LongestIsNat
    <3> QED
      BY <2>1, <3>1
  <2> DEFINE P2(q2, r2) ==
               /\ T2 = 5 * (Passes - q2) - r2
               /\ r2 < 2 => m2 = q2 * Blocks
               /\ r2 = 2 => m2 = q2 * Blocks + k2 /\ H2("dst")
               /\ r2 > 2 => m2 = q2 * Blocks + Blocks
               /\ r2 \in {1, 2} => H2("src")
  <2>6. instRet'[me] = 0 /\ \E q2 \in 0..Passes, r2 \in 0..4 : P2(q2, r2)
    <3>1. CASE r = 0
      <4>1. Goes(me) /\ H2("src")
        BY <1>5, <2>3, <3>1 DEF H2
      <4>2. P2(q, 1)
        BY <1>12, <2>1, <2>5, <3>1, <4>1
      <4> QED
        BY <1>12, <4>1, <4>2
    <3>2. CASE r = 1
      <4>1. Goes(me) /\ H2("dst") /\ H2("src")
        BY <1>1, <1>5, <2>1, <2>3, <3>2 DEF H2, Holds
      <4>2. P2(q, 2)
        BY <1>12, <2>1, <2>4, <2>5, <3>2, <4>1
      <4> QED
        BY <1>12, <4>1, <4>2
    <3>3. CASE r = 2
      <4>1. Counted(me) /\ H2("dst") /\ H2("src")
        BY <1>10, <1>15, <2>1, <2>3, <3>3
      <4>2. CASE k = Blocks /\ T2 = T - 1 /\ k2 = 0 /\ m2 = m
        <5>1. P2(q, 3)
          BY <2>1, <2>5, <3>3, <4>2
        <5> QED
          BY <1>14, <4>1, <5>1
      <4>3. CASE T2 = T /\ k2 = k + 1 /\ m2 = m + 1
        <5>1. m2 = q * Blocks + k2
          BY <1>1, <2>1, <2>4, <3>3, <4>3
        <5>2. P2(q, 2)
          BY <2>1, <3>3, <4>1, <4>3, <5>1
        <5> QED
          BY <1>14, <4>1, <5>2
      <4> QED
        BY <1>13, <4>1, <4>2, <4>3
    <3>4. CASE r = 3
      <4>1. Goes(me)
        BY <1>7, <2>3, <3>4
      <4>2. P2(q, 4)
        BY <1>12, <2>1, <2>5, <3>4, <4>1
      <4> QED
        BY <1>12, <4>1, <4>2
    <3>5. CASE r = 4
      <4>1. Goes(me)
        BY <1>7, <2>3, <3>5
      <4>2. P2(q + 1, 0)
        BY <1>12, <2>1, <2>4, <2>5, <3>5, <4>1
      <4> QED
        BY <1>12, <2>5, <3>5, <4>1, <4>2
    <3> QED
      BY <2>1, <3>1, <3>2, <3>3, <3>4, <3>5
  <2> QED
    BY <1>0, <1>15, <1>20, <2>6 DEF SoFar, InPass, m2, k2
<1> QED
  BY <1>0, <1>16, <1>17, <1>18, <1>19, <1>20 DEF FixtureKinds

(* A measure begins with nothing moved.                                     *)
LEMMA SoFarBegins ==
  ASSUME Fixture!TypeOK, Scripted, Counters, bench' = bench, NEW me \in Instances,
         Fixture!Call(me), instPhase'[me] = "measure"
  PROVE  instRet'[me] = 0 /\ SoFar(me)'
<1>0. FKind' = FKind /\ FKind \in FixtureKinds
  BY FixtureKind DEF FKind
<1>1. /\ instRet'[me] = 0 /\ moved'[me] = 0 /\ n' = n /\ todo[me] = << >>
      /\ FixtureScript(todo'[me], "measure")
  <2>1. /\ instRet'[me] = 0 /\ moved' = [moved EXCEPT ![me] = 0] /\ n' = n /\ todo[me] = << >>
        /\ FixtureScript(todo'[me], "measure")
    BY CallFacts
  <2>2. moved'[me] = 0
    BY <2>1 DEF Fixture!TypeOK
  <2> QED
    BY <2>1, <2>2
<1>2. n'[me] = 0
  BY <1>1 DEF Counters, Fixture!At
<1>3. Togo(me)' = Longest("measure")
  BY <1>1 DEF FixtureScript, Togo
<1>4. CASE FKind = "fs-copy"
  <2>1. /\ 0 \in 0..Passes /\ 0 \in 0..4 /\ Togo(me)' = 5 * (Passes - 0) - 0 /\ moved'[me] = 0 * Blocks
    BY <1>1, <1>3, <1>4, FixtureSizes DEF Longest
  <2>2. InPass(me, 0, 0)'
    BY <2>1 DEF InPass
  <2>3. \E q \in 0..Passes, r \in 0..4 :
         /\ InPass(me, q, r)'
         /\ r < 2 => moved'[me] = q * Blocks
         /\ r = 2 => moved'[me] = q * Blocks + n'[me] /\ Holds(me, "dst")'
         /\ r > 2 => moved'[me] = q * Blocks + Blocks
         /\ r \in {1, 2} => Holds(me, "src")'
    BY <2>1, <2>2
  <2> QED
    BY <1>0, <1>1, <1>4, <2>3 DEF SoFar
<1>5. CASE FKind # "fs-copy"
  <2>1. PICK t : t = Togo(me)'
    OBVIOUS
  <2>2. /\ FKind \in {"fs-fsync", "fs-rand-rw", "fs-uring"} => t = 4
        /\ FKind = "fs-seq-rw" => t = 3
        /\ FKind = "fs-meta" => t = 2
        /\ FKind \in {"script-python", "script-shell"} => t = 1
    BY <1>3, <1>5, <2>1 DEF Longest
  <2> QED
    BY <1>0, <1>1, <1>2, <1>5, <2>1, <2>2 DEF SoFar
<1> QED
  BY <1>4, <1>5

(* So an undisturbed measure has moved what it should at every point of it, *)
(* whoever takes the step.                                                  *)
LEMMA WholeSoFarStep ==
  ASSUME Fixture!TypeOK, Scripted, Counters, Opened, Made, Filled, SinceSet, WholeSoFar,
         bench' = bench, NEW me \in Instances, Fixture!Step(me)
  PROVE  WholeSoFar'
<1>1. SUFFICES ASSUME NEW x \in Instances, Undisturbed(x)'
               PROVE  instRet'[x] = 0 /\ SoFar(x)'
  BY DEF WholeSoFar
<1>2. CASE x # me
  <2>1. Undisturbed(x)
    BY <1>1, <1>2, UndisturbedBack
  <2>2. instRet[x] = 0 /\ SoFar(x)
    BY <2>1 DEF WholeSoFar
  <2>3. /\ todo'[x] = todo[x] /\ n'[x] = n[x] /\ moved'[x] = moved[x] /\ instRet'[x] = instRet[x]
        /\ fd'[x] = fd[x]
    BY <1>2, OthersStay
  <2>4. Togo(x)' = Togo(x) /\ FKind' = FKind
    BY <2>3 DEF Togo, FKind
  <2> QED
    BY <2>2, <2>3, <2>4 DEF SoFar, InLoop, Holds, InPass
<1>3. CASE x = me /\ Fixture!Call(me)
  BY <1>1, <1>3, SoFarBegins DEF Undisturbed
<1>4. CASE x = me /\ ~Fixture!Call(me)
  <2>1. Undisturbed(me)
    BY <1>1, <1>4, UndisturbedBack
  <2>2. SoFar(me)
    BY <2>1 DEF WholeSoFar
  <2>3. Calm'
    BY <1>1, <1>4 DEF Undisturbed, Calm, Set
  <2> QED
    BY <1>4, <2>1, <2>2, <2>3, SoFarStep
<1> QED
  BY <1>2, <1>3, <1>4

(* At the end of an undisturbed measure that is everything                  *)
(* (fs_seq_rw.c:18-30, 82-86 and their like).                               *)
LEMMA ShortIsDisturbed ==
  ASSUME Fixture!TypeOK, WholeSoFar
  PROVE  Fixture!ShortOnlyIfDisturbed
<1>1. SUFFICES ASSUME NEW me \in Instances, instPhase[me] = "measure", todo[me] = << >>, faults = 0,
                      \A q \in Instances \ {me} :
                        instPhase[q] = "new" \/ (q \in since[me] /\ Fixture!Ready(q))
               PROVE  moved[me] = Fixture!Whole
  BY DEF Fixture!ShortOnlyIfDisturbed
<1>2. SoFar(me)
  BY <1>1 DEF WholeSoFar, Undisturbed, Fixture!Ready, Set
<1>3. PICK t : t = Togo(me)
  OBVIOUS
<1>4. t = 0
  BY <1>1, <1>3, Lengths
<1>5. FKind \in FixtureKinds
  BY FixtureKind
<1>6. CASE FKind = "fs-copy"
  <2>1. PICK q \in 0..Passes, r \in 0..4 :
          /\ t = 5 * (Passes - q) - r
          /\ r < 2 => moved[me] = q * Blocks
    BY <1>2, <1>3, <1>6 DEF SoFar, InPass
  <2>2. q = Passes /\ r = 0
    BY <1>4, <2>1, FixtureSizes
  <2> QED
    BY <1>6, <2>1, <2>2 DEF Fixture!Whole, FKind
<1>7. CASE FKind = "fs-meta"
  <2>1. moved[me] = 2 - t
    BY <1>2, <1>3, <1>7 DEF SoFar
  <2> QED
    BY <1>4, <1>7, <2>1 DEF Fixture!Whole, FKind
<1>8. CASE FKind \notin {"fs-copy", "fs-meta"}
  <2>1. moved[me] = Blocks
    BY <1>2, <1>3, <1>4, <1>5, <1>8 DEF SoFar, FixtureKinds
  <2> QED
    BY <1>8, <2>1 DEF Fixture!Whole, FKind
<1> QED
  BY <1>6, <1>7, <1>8

-----------------------------------------------------------------------------
FixtureInv ==
  /\ Fixture!TypeOK /\ Scripted /\ Owed /\ OpenToClose /\ Counters /\ Amounts
  /\ Opened /\ EntriesApart /\ SinceSet /\ Made /\ Filled /\ WholeSoFar

(* All of it holds before the first init.                                   *)
LEMMA FixtureInit ==
  ASSUME Fixture!Init
  PROVE  FixtureInv
<1> USE DEF Fixture!Init
<1>1. Fixture!TypeOK
  <2>1. FKind \in Fixture!Kinds
    BY DEF FKind
  <2>2. /\ instPhase \in [Instances -> {"new", "init", "warmup", "measure", "cleanup", "over"}]
        /\ todo \in [Instances -> Seq(Fixture!Ops \X Fixture!Files)]
        /\ fd \in [Instances -> [Fixture!Files -> Fixture!Inodes \cup {Fixture!None}]]
    OBVIOUS
  <2>3. /\ n \in [Instances -> 0..Blocks] /\ off \in [Instances -> 0..Blocks]
        /\ instRet \in [Instances -> {0, -1}] /\ instCalls \in [Instances -> 0..FixtureCalls]
        /\ since \in [Instances -> SUBSET Instances]
    BY FixtureSizes
  <2>4. moved \in [Instances -> 0..(Passes + 1) * Blocks]
    <3>1. 0 \in 0..Passes
      BY FixtureSizes
    <3> QED
      BY <3>1, PassSizes
  <2>5. /\ entry \in [Fixture!Files -> Fixture!Inodes \cup {Fixture!None}]
        /\ size \in [Fixture!Inodes -> 0..Blocks]
    BY FixtureSizes
  <2>6. dir \in BOOLEAN
    OBVIOUS
  <2>7. faults \in 0..MaxFaults
    BY FixtureSizes
  <2> QED
    BY <2>1, <2>2, <2>3, <2>4, <2>5, <2>6, <2>7 DEF Fixture!TypeOK, FKind
<1>2. \A me \in Instances : instPhase[me] = "new" /\ todo[me] = << >> /\ Togo(me) = 0
                            /\ \A f \in Fixture!Files : fd[me][f] = Fixture!None
  BY DEF Togo
<1>3. \A f \in Fixture!Files : entry[f] = Fixture!None
  OBVIOUS
<1>4. "src" \in Fixture!Files /\ "dst" \in Fixture!Files
  BY DEF Fixture!Files
<1>5. Scripted
  BY <1>2 DEF Scripted, Active
<1>6. Owed /\ OpenToClose
  BY <1>2, <1>3 DEF Owed, OpenToClose
<1>7. Counters
  BY FixtureSizes DEF Counters
<1>8. Amounts
  BY <1>2, FixtureSizes DEF Amounts, Copies
<1>9. Opened /\ EntriesApart /\ SinceSet /\ Filled
  BY <1>2, <1>3, <1>4 DEF Opened, EntriesApart, SinceSet, Filled
<1>10. Made /\ WholeSoFar
  BY <1>2 DEF Made, WholeSoFar, Set, Undisturbed
<1> QED
  BY <1>1, <1>5, <1>6, <1>7, <1>8, <1>9, <1>10 DEF FixtureInv

(* All of it holds after every step of any instance.                        *)
LEMMA FixtureStep ==
  ASSUME FixtureInv, bench' = bench, Fixture!Next
  PROVE  FixtureInv'
<1>1. PICK me \in Instances : Fixture!Step(me)
  BY DEF Fixture!Next
<1> USE DEF FixtureInv
<1>2. Fixture!TypeOK'
  BY <1>1, FixtureTypesStep
<1>3. Scripted'
  BY <1>1, ScriptedStep
<1>4. Owed' /\ OpenToClose'
  BY <1>1, OwedStep, OpenToCloseStep
<1>5. Counters' /\ Amounts'
  BY <1>1, CountersStep, AmountsStep
<1>6. Opened' /\ EntriesApart' /\ SinceSet'
  BY <1>1, OpenedStep, EntriesApartStep, SinceStep
<1>7. Made'
  BY <1>1, MadeStep
<1>8. Filled'
  BY <1>1, <1>2, <1>7, FilledStep
<1>9. WholeSoFar'
  BY <1>1, WholeSoFarStep
<1> QED
  BY <1>2, <1>3, <1>4, <1>5, <1>6, <1>7, <1>8, <1>9

-----------------------------------------------------------------------------
(* net_conn_rate.                                                           *)

(* Between calls, and from the shutdown on, nothing waits to be accepted.   *)
ConnInv ==
  /\ Conn!TypeOK
  /\ Conn!CountsOwnConnections
  /\ mpc = "idle" => queue = 0 /\ apc = "none"
  /\ mpc \in {"join", "over"} \/ (mpc = "done" /\ phase = "measure") => queue = 0
  /\ mpc = "spin" => phase \in {"warmup", "measure"} /\ i = 0
  /\ mpc = "connect" => i < Conn!Conns

(* net_conn_rate before its first call.                                     *)
LEMMA ConnInit == Init => ConnInv
<1>1. SUFFICES ASSUME Init PROVE ConnInv
  OBVIOUS
<1>2. /\ phase = "warmup" /\ mpc = "idle" /\ i = 0 /\ actual = 0 /\ connRet = 0 /\ failed = 0
      /\ apc = "none" /\ done = FALSE /\ accepted = 0 /\ listening = TRUE /\ queue = 0
  BY <1>1 DEF Init, Conn!Init
<1>3. 0 \in 0..WarmConns /\ 0 \in 0..MaxFailed /\ 0 \in 0..Backlog
  BY ConnAssumption DEF Conn!ConnsAssumption, Conn!BacklogAssumption
<1>4. Conn!TypeOK
  <2>1. i \in 0..Conn!Conns
    BY <1>2, <1>3 DEF Conn!Conns
  <2>2. actual \in 0..i
    BY <1>2
  <2>3. connRet \in {0, -1} /\ failed \in 0..MaxFailed /\ accepted \in Nat /\ queue \in 0..Backlog
    BY <1>2, <1>3
  <2>4. done \in BOOLEAN /\ listening \in BOOLEAN
    BY <1>2
  <2> QED
    BY <1>2, <2>1, <2>2, <2>3, <2>4 DEF Conn!TypeOK
<1> QED
  BY <1>2, <1>4 DEF ConnInv, Conn!CountsOwnConnections

(* Every step of caller, acceptor and kernel keeps the count of             *)
(* connections.                                                             *)
LEMMA ConnStep == ASSUME ConnInv, Conn!Next PROVE ConnInv'
<1> USE DEF ConnInv, Conn!TypeOK, Conn!CountsOwnConnections, Conn!Conns, Conn!callerVars,
            Conn!acceptorVars, Conn!kernelVars
<1> /\ WarmConns \in Nat \ {0} /\ NumConns \in Nat \ {0} /\ WarmConns <= NumConns
    /\ Backlog \in Nat \ {0} /\ MaxFailed \in Nat
  BY ConnAssumption DEF Conn!ConnsAssumption, Conn!BacklogAssumption
<1>1. CASE Conn!Call
  <2>1. /\ phase' = phase /\ mpc' = "spin" /\ i' = 0 /\ actual' = 0 /\ connRet' = connRet
        /\ failed' = failed /\ apc' = "start" /\ done' = FALSE /\ accepted' = 0
        /\ listening' = listening /\ queue' = queue /\ queue = 0
    BY <1>1 DEF Conn!Call
  <2>2. i' \in 0..Conn!Conns' /\ actual' \in 0..i'
    BY <2>1
  <2>3. Conn!TypeOK'
    BY <2>1, <2>2
  <2> QED
    BY <2>1, <2>3
<1>9. CASE Conn!SpinReady
  BY <1>9 DEF Conn!SpinReady
<1>2. CASE Conn!Connect
  BY <1>2 DEF Conn!Connect, Conn!NextConnect, Conn!Stop
<1>3. CASE Conn!Refused \/ Conn!ConnectFails
  BY <1>3 DEF Conn!Refused, Conn!ConnectFails, Conn!NextConnect, Conn!Stop
<1>4. CASE Conn!Shutdown
  <2>1. /\ mpc = "shutdown" /\ mpc' = IF phase = "measure" THEN "done" ELSE "join"
        /\ UNCHANGED << phase, i, actual, connRet, failed, apc, done, accepted >>
        /\ listening' = FALSE /\ queue' = 0
    BY <1>4 DEF Conn!Shutdown
  <2>2. i' \in 0..Conn!Conns' /\ actual' \in 0..i' /\ mpc' \in {"done", "join"}
    BY <2>1
  <2>3. 0 \in 0..Backlog /\ FALSE \in BOOLEAN
    OBVIOUS
  <2>4. Conn!TypeOK'
    BY <2>1, <2>2, <2>3
  <2> QED
    BY <2>1, <2>4
<1>10. CASE Conn!SetDone
  BY <1>10 DEF Conn!SetDone
<1>5. CASE Conn!JoinWarmup \/ Conn!JoinMeasure
  BY <1>5 DEF Conn!JoinWarmup, Conn!JoinMeasure
<1>6. CASE Conn!AcceptorStart \/ Conn!CheckDone \/ Conn!AcceptFails
  BY <1>6 DEF Conn!AcceptorStart, Conn!CheckDone, Conn!AcceptFails
<1>7. CASE Conn!Accept \/ Conn!CountAccepted
  BY <1>7 DEF Conn!Accept, Conn!CountAccepted
<1>8. CASE Conn!Over
  BY <1>8 DEF Conn!Over, Conn!vars
<1> QED
  BY <1>1, <1>2, <1>3, <1>4, <1>5, <1>6, <1>7, <1>8, <1>9, <1>10
  DEF Conn!Next, Conn!CallerStep, Conn!AcceptorStep

-----------------------------------------------------------------------------
(* The four streams.                                                        *)

SKind == IF bench \in StreamKinds THEN bench ELSE "net-tcp"

(* The step a caller is at; "gone" is the hang-up of a caller whose file    *)
(* was gone after the connect.                                              *)
StageOf(s) == CASE s = << >> -> "end" [] s = << "hangup", "fail" >> -> "gone" [] OTHER -> Head(s)

Stage == StageOf(script)

(* What may be left to do: of net_udp, before a connect, and after it.      *)
Udp             == {<< "spin", "send", "done", "join" >>,
                    << "send", "done", "join" >>, << "done", "join" >>,
                    << "join" >>}
Before          == {<< "spin", "connect" >>, << "connect" >>}
TcpWarm         == {<< "send", "hangup", "done", "join" >>,
                    << "hangup", "done", "join" >>, << "done", "join" >>,
                    << "join" >>}
Tcp             == {<< "send", "hangup", "join" >>, << "hangup", "join" >>,
                    << "join" >>}
Latency         == {<< "exchange", "hangup", "done", "join" >>,
                    << "hangup", "done", "join" >>, << "done", "join" >>,
                    << "join" >>}
CopyWarm        == {
                    << "send", "hangup", "shut", "done", "join", "relisten" >>,
                    << "hangup", "shut", "done", "join", "relisten" >>,
                    << "shut", "done", "join", "relisten" >>,
                    << "done", "join", "relisten" >>,
                    << "join", "relisten" >>, << "relisten" >>}
Copy            == {<< "send", "hangup", "shut", "done", "join" >>,
                    << "hangup", "shut", "done", "join" >>,
                    << "shut", "done", "join" >>, << "done", "join" >>,
                    << "join" >>, << "hangup", "fail" >>, << "fail" >>}
WarmRefused     == {<< "done", "join" >>, << "join" >>}
TcpRefused      == {<< "shut", "done", "join", "fail" >>,
                    << "done", "join", "fail" >>, << "join", "fail" >>,
                    << "fail" >>}
LatencyRefused  == {<< "done", "join", "fail" >>, << "join", "fail" >>,
                    << "fail" >>}
CopyWarmRefused == {<< "shut", "done", "join", "relisten" >>,
                    << "done", "join", "relisten" >>,
                    << "join", "relisten" >>, << "relisten" >>}
CopyRefused     == {<< "fail" >>}

ConnectedScripts ==
  CASE SKind = "net-tcp"     -> IF streamPhase = "warmup" THEN TcpWarm ELSE Tcp
    [] SKind = "net-latency" -> Latency
    [] OTHER                 -> IF streamPhase = "warmup" THEN CopyWarm ELSE Copy

RefusedScripts ==
  CASE SKind = "net-tcp"     -> IF streamPhase = "warmup" THEN WarmRefused ELSE TcpRefused
    [] SKind = "net-latency" -> IF streamPhase = "warmup" THEN WarmRefused ELSE LatencyRefused
    [] OTHER                 -> IF streamPhase = "warmup" THEN CopyWarmRefused ELSE CopyRefused

Scripts ==
  CASE SKind = "net-udp" -> Udp
    [] SKind # "net-udp" /\ refused -> RefusedScripts
    [] OTHER -> Before \cup ConnectedScripts

(* The caller has left an end of one of the plans of its callback.          *)
StreamShape ==
  /\ streamPhase \in {"new", "warmup", "measure"}
  /\ script = << >> \/ (streamPhase # "new" /\ script \in Scripts)

(* What remains of a call of net_udp after each step.                       *)
LEMMA UdpTails ==
  ASSUME NEW s \in Udp
  PROVE  /\ s # << >> /\ Tail(s) \in Udp \cup {<< >>}
         /\ \/ StageOf(s) = "spin" /\ StageOf(Tail(s)) = "send"
            \/ StageOf(s) = "send" /\ StageOf(Tail(s)) = "done"
            \/ StageOf(s) = "done" /\ StageOf(Tail(s)) = "join"
            \/ StageOf(s) = "join" /\ StageOf(Tail(s)) = "end"
<1>1. CASE s = << "spin", "send", "done", "join" >>
  BY <1>1 DEF Udp, StageOf
<1>2. CASE s = << "send", "done", "join" >>
  BY <1>2 DEF Udp, StageOf
<1>3. CASE s = << "done", "join" >>
  BY <1>3 DEF Udp, StageOf
<1>4. CASE s = << "join" >>
  BY <1>4 DEF Udp, StageOf
<1> QED
  BY <1>1, <1>2, <1>3, <1>4 DEF Udp

(* What remains before the connect.                                         *)
LEMMA BeforeTails ==
  ASSUME NEW s \in Before, s # << "connect" >>
  PROVE  /\ s # << >> /\ Tail(s) \in Before \cup {<< >>}
         /\ \/ StageOf(s) = "spin" /\ StageOf(Tail(s)) = "connect"
<1>1. CASE s = << "spin", "connect" >>
  BY <1>1 DEF Before, StageOf
<1> QED
  BY <1>1 DEF Before

(* What remains of warmup of net_tcp once it is connected.                  *)
LEMMA TcpWarmTails ==
  ASSUME NEW s \in TcpWarm
  PROVE  /\ s # << >> /\ Tail(s) \in TcpWarm \cup {<< >>}
         /\ \/ StageOf(s) = "send" /\ StageOf(Tail(s)) = "hangup"
            \/ StageOf(s) = "hangup" /\ StageOf(Tail(s)) = "done"
            \/ StageOf(s) = "done" /\ StageOf(Tail(s)) = "join"
            \/ StageOf(s) = "join" /\ StageOf(Tail(s)) = "end"
<1>1. CASE s = << "send", "hangup", "done", "join" >>
  BY <1>1 DEF TcpWarm, StageOf
<1>2. CASE s = << "hangup", "done", "join" >>
  BY <1>2 DEF TcpWarm, StageOf
<1>3. CASE s = << "done", "join" >>
  BY <1>3 DEF TcpWarm, StageOf
<1>4. CASE s = << "join" >>
  BY <1>4 DEF TcpWarm, StageOf
<1> QED
  BY <1>1, <1>2, <1>3, <1>4 DEF TcpWarm

(* What remains of measure of net_tcp once it is connected.                 *)
LEMMA TcpTails ==
  ASSUME NEW s \in Tcp
  PROVE  /\ s # << >> /\ Tail(s) \in Tcp \cup {<< >>}
         /\ \/ StageOf(s) = "send" /\ StageOf(Tail(s)) = "hangup"
            \/ StageOf(s) = "hangup" /\ StageOf(Tail(s)) = "join"
            \/ StageOf(s) = "join" /\ StageOf(Tail(s)) = "end"
<1>1. CASE s = << "send", "hangup", "join" >>
  BY <1>1 DEF Tcp, StageOf
<1>2. CASE s = << "hangup", "join" >>
  BY <1>2 DEF Tcp, StageOf
<1>3. CASE s = << "join" >>
  BY <1>3 DEF Tcp, StageOf
<1> QED
  BY <1>1, <1>2, <1>3 DEF Tcp

(* What remains of a call of net_latency once it is connected.              *)
LEMMA LatencyTails ==
  ASSUME NEW s \in Latency
  PROVE  /\ s # << >> /\ Tail(s) \in Latency \cup {<< >>}
         /\ \/ StageOf(s) = "exchange" /\ StageOf(Tail(s)) = "hangup"
            \/ StageOf(s) = "hangup" /\ StageOf(Tail(s)) = "done"
            \/ StageOf(s) = "done" /\ StageOf(Tail(s)) = "join"
            \/ StageOf(s) = "join" /\ StageOf(Tail(s)) = "end"
<1>1. CASE s = << "exchange", "hangup", "done", "join" >>
  BY <1>1 DEF Latency, StageOf
<1>2. CASE s = << "hangup", "done", "join" >>
  BY <1>2 DEF Latency, StageOf
<1>3. CASE s = << "done", "join" >>
  BY <1>3 DEF Latency, StageOf
<1>4. CASE s = << "join" >>
  BY <1>4 DEF Latency, StageOf
<1> QED
  BY <1>1, <1>2, <1>3, <1>4 DEF Latency

(* What remains of warmup of net_zero_copy once it is connected.            *)
LEMMA CopyWarmTails ==
  ASSUME NEW s \in CopyWarm
  PROVE  /\ s # << >> /\ Tail(s) \in CopyWarm \cup {<< >>}
         /\ \/ StageOf(s) = "send" /\ StageOf(Tail(s)) = "hangup"
            \/ StageOf(s) = "hangup" /\ StageOf(Tail(s)) = "shut"
            \/ StageOf(s) = "shut" /\ StageOf(Tail(s)) = "done"
            \/ StageOf(s) = "done" /\ StageOf(Tail(s)) = "join"
            \/ StageOf(s) = "join" /\ StageOf(Tail(s)) = "relisten"
            \/ StageOf(s) = "relisten" /\ StageOf(Tail(s)) = "end"
<1>1. CASE s = << "send", "hangup", "shut", "done", "join", "relisten" >>
  BY <1>1 DEF CopyWarm, StageOf
<1>2. CASE s = << "hangup", "shut", "done", "join", "relisten" >>
  BY <1>2 DEF CopyWarm, StageOf
<1>3. CASE s = << "shut", "done", "join", "relisten" >>
  BY <1>3 DEF CopyWarm, StageOf
<1>4. CASE s = << "done", "join", "relisten" >>
  BY <1>4 DEF CopyWarm, StageOf
<1>5. CASE s = << "join", "relisten" >>
  BY <1>5 DEF CopyWarm, StageOf
<1>6. CASE s = << "relisten" >>
  BY <1>6 DEF CopyWarm, StageOf
<1> QED
  BY <1>1, <1>2, <1>3, <1>4, <1>5, <1>6 DEF CopyWarm

(* What remains of measure of net_zero_copy once it is connected.           *)
LEMMA CopyTails ==
  ASSUME NEW s \in Copy
  PROVE  /\ s # << >> /\ Tail(s) \in Copy \cup {<< >>}
         /\ \/ StageOf(s) = "send" /\ StageOf(Tail(s)) = "hangup"
            \/ StageOf(s) = "hangup" /\ StageOf(Tail(s)) = "shut"
            \/ StageOf(s) = "shut" /\ StageOf(Tail(s)) = "done"
            \/ StageOf(s) = "done" /\ StageOf(Tail(s)) = "join"
            \/ StageOf(s) = "join" /\ StageOf(Tail(s)) = "end"
            \/ StageOf(s) = "gone" /\ StageOf(Tail(s)) = "fail"
            \/ StageOf(s) = "fail" /\ StageOf(Tail(s)) = "end"
<1>1. CASE s = << "send", "hangup", "shut", "done", "join" >>
  BY <1>1 DEF Copy, StageOf
<1>2. CASE s = << "hangup", "shut", "done", "join" >>
  BY <1>2 DEF Copy, StageOf
<1>3. CASE s = << "shut", "done", "join" >>
  BY <1>3 DEF Copy, StageOf
<1>4. CASE s = << "done", "join" >>
  BY <1>4 DEF Copy, StageOf
<1>5. CASE s = << "join" >>
  BY <1>5 DEF Copy, StageOf
<1>6. CASE s = << "hangup", "fail" >>
  BY <1>6 DEF Copy, StageOf
<1>7. CASE s = << "fail" >>
  BY <1>7 DEF Copy, StageOf
<1> QED
  BY <1>1, <1>2, <1>3, <1>4, <1>5, <1>6, <1>7 DEF Copy

(* What remains of a warmup whose connect was refused.                      *)
LEMMA WarmRefusedTails ==
  ASSUME NEW s \in WarmRefused
  PROVE  /\ s # << >> /\ Tail(s) \in WarmRefused \cup {<< >>}
         /\ \/ StageOf(s) = "done" /\ StageOf(Tail(s)) = "join"
            \/ StageOf(s) = "join" /\ StageOf(Tail(s)) = "end"
<1>1. CASE s = << "done", "join" >>
  BY <1>1 DEF WarmRefused, StageOf
<1>2. CASE s = << "join" >>
  BY <1>2 DEF WarmRefused, StageOf
<1> QED
  BY <1>1, <1>2 DEF WarmRefused

(* What remains of measure of net_tcp after a refused connect.              *)
LEMMA TcpRefusedTails ==
  ASSUME NEW s \in TcpRefused
  PROVE  /\ s # << >> /\ Tail(s) \in TcpRefused \cup {<< >>}
         /\ \/ StageOf(s) = "shut" /\ StageOf(Tail(s)) = "done"
            \/ StageOf(s) = "done" /\ StageOf(Tail(s)) = "join"
            \/ StageOf(s) = "join" /\ StageOf(Tail(s)) = "fail"
            \/ StageOf(s) = "fail" /\ StageOf(Tail(s)) = "end"
<1>1. CASE s = << "shut", "done", "join", "fail" >>
  BY <1>1 DEF TcpRefused, StageOf
<1>2. CASE s = << "done", "join", "fail" >>
  BY <1>2 DEF TcpRefused, StageOf
<1>3. CASE s = << "join", "fail" >>
  BY <1>3 DEF TcpRefused, StageOf
<1>4. CASE s = << "fail" >>
  BY <1>4 DEF TcpRefused, StageOf
<1> QED
  BY <1>1, <1>2, <1>3, <1>4 DEF TcpRefused

(* What remains of measure of net_latency after a refused connect.          *)
LEMMA LatencyRefusedTails ==
  ASSUME NEW s \in LatencyRefused
  PROVE  /\ s # << >> /\ Tail(s) \in LatencyRefused \cup {<< >>}
         /\ \/ StageOf(s) = "done" /\ StageOf(Tail(s)) = "join"
            \/ StageOf(s) = "join" /\ StageOf(Tail(s)) = "fail"
            \/ StageOf(s) = "fail" /\ StageOf(Tail(s)) = "end"
<1>1. CASE s = << "done", "join", "fail" >>
  BY <1>1 DEF LatencyRefused, StageOf
<1>2. CASE s = << "join", "fail" >>
  BY <1>2 DEF LatencyRefused, StageOf
<1>3. CASE s = << "fail" >>
  BY <1>3 DEF LatencyRefused, StageOf
<1> QED
  BY <1>1, <1>2, <1>3 DEF LatencyRefused

(* What remains of warmup of net_zero_copy after a refused connect.         *)
LEMMA CopyWarmRefusedTails ==
  ASSUME NEW s \in CopyWarmRefused
  PROVE  /\ s # << >> /\ Tail(s) \in CopyWarmRefused \cup {<< >>}
         /\ \/ StageOf(s) = "shut" /\ StageOf(Tail(s)) = "done"
            \/ StageOf(s) = "done" /\ StageOf(Tail(s)) = "join"
            \/ StageOf(s) = "join" /\ StageOf(Tail(s)) = "relisten"
            \/ StageOf(s) = "relisten" /\ StageOf(Tail(s)) = "end"
<1>1. CASE s = << "shut", "done", "join", "relisten" >>
  BY <1>1 DEF CopyWarmRefused, StageOf
<1>2. CASE s = << "done", "join", "relisten" >>
  BY <1>2 DEF CopyWarmRefused, StageOf
<1>3. CASE s = << "join", "relisten" >>
  BY <1>3 DEF CopyWarmRefused, StageOf
<1>4. CASE s = << "relisten" >>
  BY <1>4 DEF CopyWarmRefused, StageOf
<1> QED
  BY <1>1, <1>2, <1>3, <1>4 DEF CopyWarmRefused

(* What remains of measure of net_zero_copy after a refused connect.        *)
LEMMA CopyRefusedTails ==
  ASSUME NEW s \in CopyRefused
  PROVE  /\ s # << >> /\ Tail(s) \in CopyRefused \cup {<< >>}
         /\ \/ StageOf(s) = "fail" /\ StageOf(Tail(s)) = "end"
<1>1. CASE s = << "fail" >>
  BY <1>1 DEF CopyRefused, StageOf
<1> QED
  BY <1>1 DEF CopyRefused

(* What the next step of the caller is.                                     *)
Follows ==
  \/ Stage = "spin" /\ Stage' = IF SKind = "net-udp" THEN "send" ELSE "connect"
  \/ Stage \in {"send", "exchange"} /\ Stage' = IF SKind = "net-udp" THEN "done" ELSE "hangup"
  \/ Stage = "hangup" /\ Stage' = CASE SKind = "net-zero-copy" -> "shut"
                                    [] SKind = "net-tcp" /\ streamPhase = "measure" -> "join"
                                    [] OTHER -> "done"
  \/ Stage = "gone" /\ Stage' = "fail"
  \/ Stage = "shut" /\ Stage' = "done"
  \/ Stage = "done" /\ Stage' = "join"
  \/ Stage = "join" /\ Stage' = CASE SKind = "net-udp" -> "end"
                                  [] SKind = "net-zero-copy" /\ streamPhase = "warmup" -> "relisten"
                                  [] SKind # "net-udp" /\ refused /\ streamPhase = "measure" -> "fail"
                                  [] OTHER -> "end"
  \/ Stage \in {"relisten", "fail"} /\ Stage' = "end"

(* Which benchmark is at which step.                                        *)
StageFacts ==
  /\ Stage = "end" <=> script = << >>
  /\ Stage # "end" => streamPhase # "new"
  /\ script # << >> => Stage = Head(script) \/ (Stage = "gone" /\ Head(script) = "hangup")
  /\ Stage = "exchange" => SKind = "net-latency" /\ ~refused
  /\ Stage = "send" => SKind # "net-latency"
  /\ Stage \in {"connect", "hangup", "gone"} => SKind # "net-udp" /\ ~refused
  /\ Stage = "send" /\ SKind # "net-udp" => ~refused
  /\ Stage = "shut" => SKind = "net-zero-copy" \/ (SKind = "net-tcp" /\ refused)
  /\ Stage = "gone" => SKind = "net-zero-copy"
  /\ Stage = "relisten" => SKind = "net-zero-copy" /\ streamPhase = "warmup"
  /\ Stage = "fail" => streamPhase = "measure" /\ SKind # "net-udp" /\ (refused \/ SKind = "net-zero-copy")

(* A caller with nothing left is between calls.                             *)
LEMMA EndIsEmpty == StageOf(<< >>) = "end"
  BY DEF StageOf

(* A stream that does not run counts as net_tcp.                            *)
LEMMA StreamKind == SKind \in {"net-tcp", "net-latency", "net-zero-copy", "net-udp"}
  BY DEF SKind, StreamKinds

(* Which of the tables a caller is in.                                      *)
LEMMA InATable ==
  ASSUME script \in Scripts, streamPhase \in {"warmup", "measure"}
  PROVE  \/ SKind = "net-udp" /\ script \in Udp
         \/ SKind # "net-udp" /\ ~refused /\ script \in Before
         \/ SKind = "net-tcp" /\ ~refused /\ streamPhase = "warmup" /\ script \in TcpWarm
         \/ SKind = "net-tcp" /\ ~refused /\ streamPhase = "measure" /\ script \in Tcp
         \/ SKind = "net-latency" /\ ~refused /\ script \in Latency
         \/ SKind = "net-zero-copy" /\ ~refused /\ streamPhase = "warmup" /\ script \in CopyWarm
         \/ SKind = "net-zero-copy" /\ ~refused /\ streamPhase = "measure" /\ script \in Copy
         \/ SKind \in {"net-tcp", "net-latency"} /\ refused /\ streamPhase = "warmup"
            /\ script \in WarmRefused
         \/ SKind = "net-tcp" /\ refused /\ streamPhase = "measure" /\ script \in TcpRefused
         \/ SKind = "net-latency" /\ refused /\ streamPhase = "measure" /\ script \in LatencyRefused
         \/ SKind = "net-zero-copy" /\ refused /\ streamPhase = "warmup" /\ script \in CopyWarmRefused
         \/ SKind = "net-zero-copy" /\ refused /\ streamPhase = "measure" /\ script \in CopyRefused
  BY StreamKind DEF Scripts, ConnectedScripts, RefusedScripts

(* The tables say which benchmark is at which step.                         *)
LEMMA Stages == ASSUME StreamShape PROVE StageFacts
<1>1. CASE script = << >>
  <2>1. Stage = "end"
    BY <1>1 DEF Stage, StageOf
  <2> QED
    BY <1>1, <2>1 DEF StageFacts
<1>2. CASE script # << >>
  <2>1. script \in Scripts /\ streamPhase \in {"warmup", "measure"}
    BY <1>2 DEF StreamShape
  <2>2. Head(<< "hangup", "fail" >>) = "hangup"
    OBVIOUS
  <2>3. Stage = Head(script) \/ (Stage = "gone" /\ Head(script) = "hangup")
    BY <1>2, <2>2 DEF Stage, StageOf
  <2>4. StageOf(<< "connect" >>) = "connect"
    BY DEF StageOf
  <2> USE <1>2, <2>1, <2>3
  <2>5. CASE SKind = "net-udp" /\ script \in Udp
    BY <2>5, UdpTails DEF StageFacts, Stage
  <2>6. CASE SKind # "net-udp" /\ ~refused /\ script \in Before
    BY <2>4, <2>6, BeforeTails DEF StageFacts, Stage
  <2>7. CASE SKind = "net-tcp" /\ ~refused /\ streamPhase = "warmup" /\ script \in TcpWarm
    BY <2>7, TcpWarmTails DEF StageFacts, Stage
  <2>8. CASE SKind = "net-tcp" /\ ~refused /\ streamPhase = "measure" /\ script \in Tcp
    BY <2>8, TcpTails DEF StageFacts, Stage
  <2>9. CASE SKind = "net-latency" /\ ~refused /\ script \in Latency
    BY <2>9, LatencyTails DEF StageFacts, Stage
  <2>10. CASE SKind = "net-zero-copy" /\ ~refused /\ streamPhase = "warmup" /\ script \in CopyWarm
    BY <2>10, CopyWarmTails DEF StageFacts, Stage
  <2>11. CASE SKind = "net-zero-copy" /\ ~refused /\ streamPhase = "measure" /\ script \in Copy
    BY <2>11, CopyTails DEF StageFacts, Stage
  <2>12. CASE SKind \in {"net-tcp", "net-latency"} /\ refused /\ streamPhase = "warmup"
              /\ script \in WarmRefused
    BY <2>12, WarmRefusedTails DEF StageFacts, Stage
  <2>13. CASE SKind = "net-tcp" /\ refused /\ streamPhase = "measure" /\ script \in TcpRefused
    BY <2>13, TcpRefusedTails DEF StageFacts, Stage
  <2>14. CASE SKind = "net-latency" /\ refused /\ streamPhase = "measure" /\ script \in LatencyRefused
    BY <2>14, LatencyRefusedTails DEF StageFacts, Stage
  <2>15. CASE SKind = "net-zero-copy" /\ refused /\ streamPhase = "warmup" /\ script \in CopyWarmRefused
    BY <2>15, CopyWarmRefusedTails DEF StageFacts, Stage
  <2>16. CASE SKind = "net-zero-copy" /\ refused /\ streamPhase = "measure" /\ script \in CopyRefused
    BY <2>16, CopyRefusedTails DEF StageFacts, Stage
  <2> QED
    BY <2>1, <2>5, <2>6, <2>7, <2>8, <2>9, <2>10, <2>11, <2>12, <2>13, <2>14, <2>15, <2>16, InATable
<1> QED
  BY <1>1, <1>2

(* The next step of the caller is the next of its table.                    *)
LEMMA StageMoves ==
  ASSUME StreamShape, script # << >>, Stage # "connect", script' = Tail(script),
         UNCHANGED << bench, streamPhase, refused >>
  PROVE  StreamShape' /\ Follows
<1>1. /\ Stage' = StageOf(Tail(script)) /\ Stage = StageOf(script) /\ script \in Scripts
      /\ streamPhase \in {"warmup", "measure"} /\ streamPhase' = streamPhase
  BY DEF Stage, StreamShape
<1>2. StageOf(<< "connect" >>) = "connect"
  BY DEF StageOf
<1>3. SKind' = SKind /\ Scripts' = Scripts
  BY DEF SKind, Scripts, ConnectedScripts, RefusedScripts
<1>4. SUFFICES (Tail(script) \in Scripts \cup {<< >>}) /\ Follows
  BY <1>1, <1>3 DEF StreamShape
<1> USE <1>1, <1>2
<1>5. CASE SKind = "net-udp" /\ script \in Udp
  BY <1>5, UdpTails DEF Follows, Scripts
<1>6. CASE SKind # "net-udp" /\ ~refused /\ script \in Before
  BY <1>6, BeforeTails DEF Follows, Scripts
<1>7. CASE SKind = "net-tcp" /\ ~refused /\ streamPhase = "warmup" /\ script \in TcpWarm
  BY <1>7, TcpWarmTails DEF Follows, Scripts, ConnectedScripts
<1>8. CASE SKind = "net-tcp" /\ ~refused /\ streamPhase = "measure" /\ script \in Tcp
  BY <1>8, TcpTails DEF Follows, Scripts, ConnectedScripts
<1>9. CASE SKind = "net-latency" /\ ~refused /\ script \in Latency
  BY <1>9, LatencyTails DEF Follows, Scripts, ConnectedScripts
<1>10. CASE SKind = "net-zero-copy" /\ ~refused /\ streamPhase = "warmup" /\ script \in CopyWarm
  BY <1>10, CopyWarmTails DEF Follows, Scripts, ConnectedScripts
<1>11. CASE SKind = "net-zero-copy" /\ ~refused /\ streamPhase = "measure" /\ script \in Copy
  BY <1>11, CopyTails DEF Follows, Scripts, ConnectedScripts
<1>12. CASE SKind \in {"net-tcp", "net-latency"} /\ refused /\ streamPhase = "warmup"
            /\ script \in WarmRefused
  BY <1>12, WarmRefusedTails DEF Follows, Scripts, RefusedScripts
<1>13. CASE SKind = "net-tcp" /\ refused /\ streamPhase = "measure" /\ script \in TcpRefused
  BY <1>13, TcpRefusedTails DEF Follows, Scripts, RefusedScripts
<1>14. CASE SKind = "net-latency" /\ refused /\ streamPhase = "measure" /\ script \in LatencyRefused
  BY <1>14, LatencyRefusedTails DEF Follows, Scripts, RefusedScripts
<1>15. CASE SKind = "net-zero-copy" /\ refused /\ streamPhase = "warmup" /\ script \in CopyWarmRefused
  BY <1>15, CopyWarmRefusedTails DEF Follows, Scripts, RefusedScripts
<1>16. CASE SKind = "net-zero-copy" /\ refused /\ streamPhase = "measure" /\ script \in CopyRefused
  BY <1>16, CopyRefusedTails DEF Follows, Scripts, RefusedScripts
<1> QED
  BY <1>5, <1>6, <1>7, <1>8, <1>9, <1>10, <1>11, <1>12, <1>13, <1>14, <1>15, <1>16, InATable

-----------------------------------------------------------------------------
(* Where the messages of a stream are.                                      *)

Drains == SKind \in {"net-tcp", "net-zero-copy"}

Waiting == spc \in {"start", "accept"}

(* Between calls nothing is under way, and a measure has moved everything.  *)
(* A sendfile larger than the socket buffers cannot end before the sink has *)
(* accepted, whose connection the shutdown would drop otherwise.            *)
Between ==
  Stage = "end" /\ streamRet = 0 =>
    /\ up = 0 /\ down = 0 /\ pending = 0 /\ spc = "none"
    /\ streamPhase = "measure" =>
         /\ SKind = "net-latency" => total = NumMsgs
         /\ SKind = "net-tcp" => count = NumMsgs
         /\ SKind = "net-zero-copy" /\ Buffer < NumMsgs => count = NumMsgs

Unconnected ==
  Stage \in {"spin", "connect"} =>
    /\ up = 0 /\ down = 0 /\ pending = 0 /\ count = 0 /\ sends = 0 /\ total = 0 /\ ~told
    /\ Waiting \/ (spc = "exit" /\ ~listens)

Refusal ==
  refused /\ Stage # "end" =>
    up = 0 /\ down = 0 /\ pending = 0 /\ (Waiting \/ spc \in {"exit", "none"})

(* From the connect to the hang-up the server is on its way to the          *)
(* connection, or reads from it.                                            *)
Talking ==
  ~refused /\ Stage \in {"send", "exchange", "hangup"} =>
    /\ listens /\ ~eof /\ ~told /\ spc \notin {"none", "exit"}
    /\ pending = 1 <=> Waiting
    /\ Drains => count + up = sends
    /\ pending = 1 => count = 0
    /\ Stage = "hangup" => sends = Stream!PerCall /\ (SKind = "net-latency" => total = sends)

(* The sink of net_zero_copy before the shutdown.                           *)
Closing ==
  ~refused /\ Stage = "shut" =>
    /\ listens /\ count + up = sends /\ sends = Stream!PerCall
    /\ pending = 1 <=> Waiting
    /\ pending = 1 => count = 0
    /\ spc # "none" /\ (spc = "exit" => up = 0)

Stopping ==
  ~refused /\ Stage \in {"done", "join"} =>
    /\ sends = Stream!PerCall /\ spc # "none"
    /\ SKind = "net-latency" => total = sends /\ listens /\ (pending = 1 <=> Waiting)
    /\ SKind = "net-tcp" =>
         listens /\ (pending = 1 <=> Waiting) /\ count + up = sends /\ (spc = "exit" => up = 0)
    /\ SKind = "net-zero-copy" =>
         /\ ~listens /\ pending = 0 /\ (spc = "exit" \/ Waiting => up = 0)
         /\ streamPhase = "measure" /\ Buffer < NumMsgs => count + up = sends /\ ~Waiting

Rejoined == Stage = "relisten" => up = 0 /\ down = 0 /\ pending = 0 /\ spc = "none"

(* Every datagram counted or still in the buffer was sent, in this call or  *)
(* before it; at most one request is without its echo.                      *)
Traffic ==
  /\ SKind = "net-udp" =>
       count + up <= left + sends /\ spc \in {"none", "start", "check", "recv", "exit"}
  /\ SKind # "net-latency" => total = 0 /\ down = 0 /\ spc # "reply"
  /\ SKind \in {"net-tcp", "net-zero-copy"} => spc # "check"
  /\ SKind = "net-latency" =>
       total + up + down + (IF spc = "reply" THEN 1 ELSE 0) <= sends /\ sends <= total + 1

Connection ==
  SKind # "net-udp" =>
    Between /\ Unconnected /\ Refusal /\ Talking /\ Closing /\ Stopping /\ Rejoined

StreamInv ==
  /\ Stream!TypeOK /\ StreamShape
  /\ streamRet = -1 => script = << >>
  /\ Traffic /\ Connection

(* A caller that does not move stays at its step.                           *)
LEMMA StageSame ==
  ASSUME StreamShape, UNCHANGED << bench, script, streamPhase, refused >>
  PROVE  StreamShape' /\ Stage' = Stage /\ SKind' = SKind
  BY DEF StreamShape, Stage, SKind, Scripts, ConnectedScripts, RefusedScripts

(* What the constants of the streams are.                                   *)
LEMMA StreamSizes ==
  /\ WarmMsgs \in Nat \ {0} /\ NumMsgs \in Nat \ {0} /\ Buffer \in Nat \ {0} /\ MaxRefused \in Nat
  /\ Stream!PerCall \in Nat \ {0}
  BY StreamAssumption DEF Stream!StreamAssumption, Stream!PerCall

(* A message or its echo goes out or comes in; the caller stays where it is. *)
LEMMA SendStep ==
  ASSUME StreamInv, bench' = bench, Stream!Send \/ Stream!Request \/ Stream!Echo
  PROVE  StreamInv'
<1>1. StageFacts /\ StreamShape /\ script # << >>
  BY Stages DEF StreamInv, Stream!Send, Stream!Request, Stream!Echo, Stream!At
<1>2. /\ UNCHANGED << streamPhase, script, streamRet, refused, streamFailed, left, spc, told, count,
                      listens, pending, eof >>
      /\ StreamShape' /\ Stage' = Stage /\ SKind' = SKind /\ Stream!PerCall' = Stream!PerCall
  BY <1>1, StageSame DEF Stream!Send, Stream!Request, Stream!Echo, Stream!serverVars, Stream!PerCall
<1>3. CASE Stream!Send
  <2>1. /\ Stage = "send" /\ sends < Stream!PerCall /\ sends' = sends + 1
        /\ UNCHANGED << total, down >>
        /\ IF up < Buffer THEN up' = up + 1 ELSE SKind = "net-udp" /\ up' = up
    BY <1>1, <1>3 DEF StageFacts, Stream!Send, Stream!At, SKind
  <2>2. SKind # "net-latency" /\ (SKind # "net-udp" => ~refused)
    BY <1>1, <2>1 DEF StageFacts
  <2>3. Stream!TypeOK'
    BY <1>2, <2>1, <2>2, StreamSizes DEF StreamInv, Traffic, Stream!TypeOK
  <2>4. Traffic'
    BY <1>2, <2>1, <2>2, StreamSizes DEF StreamInv, Traffic, Stream!TypeOK
  <2>5. Connection'
    BY <1>2, <2>1, <2>2, StreamSizes
    DEF StreamInv, Connection, Between, Unconnected, Refusal, Talking, Closing, Stopping, Rejoined,
        Drains, Waiting, Stream!TypeOK
  <2> QED
    BY <1>2, <2>3, <2>4, <2>5 DEF StreamInv
<1>4. CASE Stream!Request
  <2>1. /\ Stage = "exchange" /\ sends < Stream!PerCall /\ total = sends
        /\ sends' = sends + 1 /\ up' = up + 1 /\ UNCHANGED << total, down >>
    BY <1>1, <1>4 DEF StageFacts, Stream!Request, Stream!At
  <2>2. SKind = "net-latency" /\ ~refused /\ up = 0 /\ down = 0 /\ spc # "reply"
    BY <1>1, <2>1 DEF StageFacts, StreamInv, Traffic, Stream!TypeOK
  <2>3. Stream!TypeOK'
    BY <1>2, <2>1, <2>2, StreamSizes DEF StreamInv, Stream!TypeOK
  <2>4. Traffic'
    BY <1>2, <2>1, <2>2, StreamSizes DEF StreamInv, Traffic, Stream!TypeOK
  <2>5. Connection'
    BY <1>2, <2>1, <2>2, StreamSizes
    DEF StreamInv, Connection, Between, Unconnected, Refusal, Talking, Closing, Stopping, Rejoined,
        Drains, Waiting, Stream!TypeOK
  <2> QED
    BY <1>2, <2>3, <2>4, <2>5 DEF StreamInv
<1>5. CASE Stream!Echo
  <2>1. /\ Stage = "exchange" /\ down > 0
        /\ down' = down - 1 /\ total' = total + 1 /\ UNCHANGED << sends, up >>
    BY <1>1, <1>5 DEF StageFacts, Stream!Echo, Stream!At
  <2>2. SKind = "net-latency" /\ ~refused
    BY <1>1, <2>1 DEF StageFacts
  <2>3. Stream!TypeOK'
    BY <1>2, <2>1, <2>2, StreamSizes DEF StreamInv, Traffic, Stream!TypeOK
  <2>4. Traffic'
    BY <1>2, <2>1, <2>2, StreamSizes DEF StreamInv, Traffic, Stream!TypeOK
  <2>5. Connection'
    BY <1>2, <2>1, <2>2, StreamSizes
    DEF StreamInv, Connection, Between, Unconnected, Refusal, Talking, Closing, Stopping, Rejoined,
        Drains, Waiting, Stream!TypeOK
  <2> QED
    BY <1>2, <2>3, <2>4, <2>5 DEF StreamInv
<1> QED
  BY <1>3, <1>4, <1>5

(* The caller takes a step and goes on to the next.                         *)
LEMMA MoveStep ==
  ASSUME StreamInv, bench' = bench,
         \/ Stream!SpinReady \/ Stream!AllSent \/ Stream!Hangup \/ Stream!Shutdown \/ Stream!SetDone
         \/ Stream!Join \/ Stream!Relisten
  PROVE  StreamInv'
<1>1. StageFacts /\ StreamShape /\ script # << >>
  BY Stages DEF StreamInv, Stream!At, Stream!SpinReady, Stream!AllSent, Stream!Hangup,
                Stream!Shutdown, Stream!SetDone, Stream!Join, Stream!Relisten
<1>2. /\ UNCHANGED << streamPhase, sends, total, streamRet, refused, streamFailed, left, count, down >>
      /\ script' = Tail(script)
  BY DEF Stream!SpinReady, Stream!AllSent, Stream!Hangup, Stream!Shutdown, Stream!SetDone,
         Stream!Join, Stream!Relisten, Stream!serverVars, Stream!kernelVars
<1>3. Stage # "connect"
  BY <1>1 DEF StageFacts, Stream!At, Stream!SpinReady, Stream!AllSent, Stream!Hangup,
              Stream!Shutdown, Stream!SetDone, Stream!Join, Stream!Relisten
<1>4. StreamShape' /\ Follows /\ SKind' = SKind /\ Stream!PerCall' = Stream!PerCall
  BY <1>1, <1>2, <1>3, StageMoves DEF SKind, Stream!PerCall
<1>5. streamRet # -1
  BY <1>1 DEF StreamInv
<1>6. script' \in Seq({"spin", "connect", "send", "exchange", "hangup", "shut", "done", "join",
                      "relisten", "fail"})
  BY <1>1, <1>2 DEF StreamInv, Stream!TypeOK
<1>7. SUFFICES Stream!TypeOK' /\ Traffic' /\ Connection'
  BY <1>2, <1>4, <1>5 DEF StreamInv
<1> USE <1>2, <1>4, <1>6, StreamSizes
<1>8. CASE Stream!SpinReady
  <2>1. Stage = "spin" /\ UNCHANGED << spc, told, listens, pending, up, eof >>
    BY <1>1, <1>8 DEF StageFacts, Stream!SpinReady, Stream!At, Stream!serverVars, Stream!kernelVars
  <2>2. Stream!TypeOK' /\ Traffic'
    BY <2>1 DEF StreamInv, Stream!TypeOK, Traffic
  <2>3. Connection'
    BY <2>1 DEF StreamInv, Follows, Connection, Between, Unconnected, Refusal, Talking, Closing,
                Stopping, Rejoined, Waiting
  <2> QED
    BY <2>2, <2>3
<1>9. CASE Stream!AllSent
  <2>1. /\ Stage \in {"send", "exchange"} /\ sends = Stream!PerCall
        /\ Stage = "exchange" => total = sends
        /\ UNCHANGED << spc, told, listens, pending, up, eof >>
    BY <1>1, <1>9 DEF StageFacts, Stream!AllSent, Stream!At, Stream!serverVars, Stream!kernelVars
  <2>2. Stream!TypeOK' /\ Traffic'
    BY <2>1 DEF StreamInv, Stream!TypeOK, Traffic
  <2>3. SKind # "net-udp" => ~refused
    BY <1>1, <2>1 DEF StageFacts
  <2>4. SKind = "net-latency" => total = sends
    BY <1>1, <2>1 DEF StageFacts
  <2>5. Connection'
    BY <2>1, <2>3, <2>4 DEF StreamInv, Follows, Connection, Between, Unconnected, Refusal, Talking,
                            Closing, Stopping, Rejoined, Waiting, Drains
  <2> QED
    BY <2>2, <2>5
<1>10. CASE Stream!Hangup
  <2>1. Stage \in {"hangup", "gone"} /\ eof' = TRUE /\ UNCHANGED << spc, told, listens, pending, up >>
    BY <1>1, <1>10 DEF StageFacts, Stream!Hangup, Stream!At, Stream!serverVars
  <2>2. Stream!TypeOK' /\ Traffic'
    BY <2>1 DEF StreamInv, Stream!TypeOK, Traffic
  <2>3. SKind # "net-udp" /\ ~refused
    BY <1>1, <2>1 DEF StageFacts
  <2>4. Connection'
    BY <2>1, <2>3, StreamKind DEF StreamInv, Follows, Connection, Between, Unconnected, Refusal,
         Talking, Closing, Stopping, Rejoined, Waiting, Drains
  <2> QED
    BY <2>2, <2>4
<1>11. CASE Stream!Shutdown
  <2>1. /\ Stage = "shut" /\ listens' = FALSE /\ pending' = 0
        /\ up' = (IF pending = 1 THEN 0 ELSE up) /\ UNCHANGED << spc, told, eof >>
    BY <1>1, <1>11 DEF StageFacts, Stream!Shutdown, Stream!At, Stream!serverVars
  <2>2. Stream!TypeOK' /\ Traffic'
    <3>1. up \in 0..Buffer /\ up' \in 0..Buffer /\ up' <= up
      BY <2>1 DEF StreamInv, Stream!TypeOK
    <3>2. Stream!TypeOK'
      <4>1. pending' \in {0, 1} /\ listens' \in BOOLEAN
        BY <2>1
      <4> QED
        BY <2>1, <3>1, <4>1 DEF StreamInv, Stream!TypeOK
    <3>3. Traffic'
      BY <2>1, <3>1 DEF StreamInv, Stream!TypeOK, Traffic
    <3> QED
      BY <3>2, <3>3
  <2>3. SKind # "net-udp" /\ (SKind = "net-zero-copy" \/ refused)
    BY <1>1, <2>1 DEF StageFacts
  <2>4. Connection'
    BY <2>1, <2>3, StreamKind
    DEF StreamInv, Follows, Connection, Between, Unconnected, Refusal, Talking, Closing, Stopping,
        Rejoined, Waiting, Stream!TypeOK, Stream!PerCall
  <2> QED
    BY <2>2, <2>4
<1>12. CASE Stream!SetDone
  <2>1. Stage = "done" /\ told' = TRUE /\ UNCHANGED << spc, listens, pending, up, eof >>
    BY <1>1, <1>12 DEF StageFacts, Stream!SetDone, Stream!At, Stream!kernelVars
  <2>2. Stream!TypeOK' /\ Traffic'
    BY <2>1 DEF StreamInv, Stream!TypeOK, Traffic
  <2>3. Connection'
    BY <2>1 DEF StreamInv, Follows, Connection, Between, Unconnected, Refusal, Talking, Closing,
                Stopping, Rejoined, Waiting
  <2> QED
    BY <2>2, <2>3
<1>13. CASE Stream!Join
  <2>1. /\ Stage = "join" /\ spc = "exit" /\ spc' = "none"
        /\ UNCHANGED << told, listens, pending, up, eof >>
    BY <1>1, <1>13 DEF StageFacts, Stream!Join, Stream!At, Stream!kernelVars
  <2>2. Stream!TypeOK' /\ Traffic'
    BY <2>1 DEF StreamInv, Stream!TypeOK, Traffic
  <2>3. Connection'
    BY <2>1, StreamKind, SMTT(60)
    DEF StreamInv, Follows, Connection, Between, Unconnected, Refusal, Talking, Closing, Stopping,
        Rejoined, Waiting, Stream!TypeOK, Stream!PerCall, Traffic
  <2> QED
    BY <2>2, <2>3
<1>14. CASE Stream!Relisten
  <2>1. Stage = "relisten" /\ listens' \in BOOLEAN /\ UNCHANGED << spc, told, pending, up, eof >>
    BY <1>1, <1>14 DEF StageFacts, Stream!Relisten, Stream!At, Stream!serverVars
  <2>2. Stream!TypeOK' /\ Traffic'
    BY <2>1 DEF StreamInv, Stream!TypeOK, Traffic
  <2>3. streamPhase = "warmup"
    BY <1>1, <2>1 DEF StageFacts
  <2>4. Connection'
    BY <2>1, <2>3 DEF StreamInv, Follows, Connection, Between, Unconnected, Refusal, Talking, Closing,
                      Stopping, Rejoined, Waiting
  <2> QED
    BY <2>2, <2>4
<1> QED
  BY <1>8, <1>9, <1>10, <1>11, <1>12, <1>13, <1>14

Steps == {"spin", "connect", "send", "exchange", "hangup", "shut", "done", "join", "relisten", "fail"}

(* The plan of a call after ready, and after its connect.                   *)
LEMMA SpinFirst ==
  /\ << "spin" >> \o << "send", "done", "join" >> = << "spin", "send", "done", "join" >>
  /\ << "spin" >> \o << "connect" >> = << "spin", "connect" >>
<1>1. /\ << "spin" >> \in Seq(Steps) /\ << "connect" >> \in Seq(Steps)
      /\ << "send", "done", "join" >> \in Seq(Steps)
      /\ << "spin", "send", "done", "join" >> \in Seq(Steps) /\ << "spin", "connect" >> \in Seq(Steps)
  <2>1. << "spin" >> \in Seq(Steps) /\ << "connect" >> \in Seq(Steps)
    BY DEF Steps
  <2>2. << "send", "done", "join" >> \in Seq(Steps)
    BY DEF Steps
  <2>3. << "spin", "send", "done", "join" >> \in Seq(Steps)
    BY DEF Steps
  <2>4. << "spin", "connect" >> \in Seq(Steps)
    BY DEF Steps
  <2> QED
    BY <2>1, <2>2, <2>3, <2>4
<1>2. << "spin" >> \o << "send", "done", "join" >> = << "spin", "send", "done", "join" >>
  <2> DEFINE s == << "spin" >> \o << "send", "done", "join" >>
             r == << "spin", "send", "done", "join" >>
  <2>1. s \in Seq(Steps) /\ r \in Seq(Steps) /\ Len(s) = 4 /\ Len(r) = 4
    BY <1>1
  <2>2. s[1] = "spin" /\ s[2] = "send" /\ s[3] = "done" /\ s[4] = "join"
    OBVIOUS
  <2>3. r[1] = "spin" /\ r[2] = "send" /\ r[3] = "done" /\ r[4] = "join"
    OBVIOUS
  <2> HIDE DEF s, r
  <2>4. s = r
    BY <2>1, <2>2, <2>3, SeqEqual
  <2> QED
    BY <2>4 DEF s, r
<1>3. << "spin" >> \o << "connect" >> = << "spin", "connect" >>
  <2> DEFINE s == << "spin" >> \o << "connect" >>
             r == << "spin", "connect" >>
  <2>1. s \in Seq(Steps) /\ r \in Seq(Steps) /\ Len(s) = 2 /\ Len(r) = 2
    BY <1>1
  <2>2. s[1] = "spin" /\ s[2] = "connect" /\ r[1] = "spin" /\ r[2] = "connect"
    OBVIOUS
  <2> HIDE DEF s, r
  <2>3. s = r
    BY <2>1, <2>2, SeqEqual
  <2> QED
    BY <2>3 DEF s, r
<1> QED
  BY <1>2, <1>3

(* Every plan is made of steps of a caller.                                 *)
LEMMA PlansAreSteps ==
  ConnectedScripts \cup RefusedScripts \cup Udp \cup Before \subseteq Seq(Steps)
<1>1. Udp \subseteq Seq(Steps)
  BY DEF Udp, Steps
<1>2. Before \subseteq Seq(Steps)
  BY DEF Before, Steps
<1>3. TcpWarm \subseteq Seq(Steps) /\ Tcp \subseteq Seq(Steps)
  BY DEF TcpWarm, Tcp, Steps
<1>4. Latency \subseteq Seq(Steps)
  BY DEF Latency, Steps
<1>5. CopyWarm \subseteq Seq(Steps)
  BY DEF CopyWarm, Steps
<1>6. Copy \subseteq Seq(Steps)
  BY DEF Copy, Steps
<1>7. WarmRefused \subseteq Seq(Steps) /\ TcpRefused \subseteq Seq(Steps)
  BY DEF WarmRefused, TcpRefused, Steps
<1>8. LatencyRefused \subseteq Seq(Steps) /\ CopyRefused \subseteq Seq(Steps)
  BY DEF LatencyRefused, CopyRefused, Steps
<1>9. CopyWarmRefused \subseteq Seq(Steps)
  BY DEF CopyWarmRefused, Steps
<1>10. ConnectedScripts \subseteq Seq(Steps)
  BY <1>3, <1>4, <1>5, <1>6 DEF ConnectedScripts
<1>11. RefusedScripts \subseteq Seq(Steps)
  BY <1>7, <1>8, <1>9 DEF RefusedScripts
<1> QED
  BY <1>1, <1>2, <1>10, <1>11

(* The plan after a connect that succeeds.                                  *)
LEMMA ConnectPlans ==
  ASSUME Stream!Connect, SKind # "net-udp", streamPhase \in {"warmup", "measure"}
  PROVE  /\ script' \in ConnectedScripts
         /\ StageOf(script') \in {IF SKind = "net-latency" THEN "exchange" ELSE "send", "gone"}
<1>1. PICK outcome \in {"ok", "unreadable"} \cap DOMAIN Stream!Plan(streamPhase) :
        script' = Stream!Plan(streamPhase)[outcome]
  BY DEF Stream!Connect
<1> USE <1>1
<1>2. CASE SKind = "net-tcp" /\ streamPhase = "warmup"
  <2>1. Stream!Plan(streamPhase) = Stream!nt_warmup
    BY <1>2 DEF SKind, Stream!Plan
  <2>2. script' = << "send", "hangup", "done", "join" >>
    BY <2>1 DEF Stream!nt_warmup
  <2> QED
    BY <1>2, <2>2 DEF ConnectedScripts, TcpWarm, StageOf
<1>3. CASE SKind = "net-tcp" /\ streamPhase = "measure"
  <2>1. Stream!Plan(streamPhase) = Stream!nt_measure
    BY <1>3 DEF SKind, Stream!Plan
  <2>2. script' = << "send", "hangup", "join" >>
    BY <2>1 DEF Stream!nt_measure
  <2> QED
    BY <1>3, <2>2 DEF ConnectedScripts, Tcp, StageOf
<1>4. CASE SKind = "net-latency"
  <2>1. Stream!Plan(streamPhase) \in {Stream!nl_warmup, Stream!nl_measure}
    BY <1>4 DEF SKind, Stream!Plan
  <2>2. script' = << "exchange", "hangup", "done", "join" >>
    BY <2>1 DEF Stream!nl_warmup, Stream!nl_measure
  <2> QED
    BY <1>4, <2>2 DEF ConnectedScripts, Latency, StageOf
<1>5. CASE SKind = "net-zero-copy" /\ streamPhase = "warmup"
  <2>1. Stream!Plan(streamPhase) = Stream!zc_warmup
    BY <1>5 DEF SKind, Stream!Plan
  <2>2. script' = << "send", "hangup", "shut", "done", "join", "relisten" >>
    BY <2>1 DEF Stream!zc_warmup
  <2> QED
    BY <1>5, <2>2 DEF ConnectedScripts, CopyWarm, StageOf
<1>6. CASE SKind = "net-zero-copy" /\ streamPhase = "measure"
  <2>1. Stream!Plan(streamPhase) = Stream!zc_measure
    BY <1>6 DEF SKind, Stream!Plan
  <2>2. script' \in {<< "send", "hangup", "shut", "done", "join" >>, << "hangup", "fail" >>}
    BY <2>1 DEF Stream!zc_measure
  <2> QED
    BY <1>6, <2>2 DEF ConnectedScripts, Copy, StageOf
<1> QED
  BY <1>2, <1>3, <1>4, <1>5, <1>6, StreamKind

(* The plan after one that is refused.                                      *)
LEMMA RefusedPlans ==
  ASSUME Stream!ConnectFails, SKind # "net-udp", streamPhase \in {"warmup", "measure"}
  PROVE  script' \in RefusedScripts /\ StageOf(script') \in {"shut", "done", "fail"}
<1>1. script' = Stream!Plan(streamPhase).refused
  BY DEF Stream!ConnectFails
<1>2. CASE streamPhase = "warmup" /\ SKind \in {"net-tcp", "net-latency"}
  <2>1. Stream!Plan(streamPhase) \in {Stream!nt_warmup, Stream!nl_warmup}
    BY <1>2 DEF SKind, Stream!Plan
  <2>2. script' = << "done", "join" >>
    BY <1>1, <2>1 DEF Stream!nt_warmup, Stream!nl_warmup
  <2> QED
    BY <1>2, <2>2 DEF RefusedScripts, WarmRefused, StageOf
<1>3. CASE streamPhase = "measure" /\ SKind = "net-tcp"
  <2>1. Stream!Plan(streamPhase) = Stream!nt_measure
    BY <1>3 DEF SKind, Stream!Plan
  <2>2. script' = << "shut", "done", "join", "fail" >>
    BY <1>1, <2>1 DEF Stream!nt_measure
  <2> QED
    BY <1>3, <2>2 DEF RefusedScripts, TcpRefused, StageOf
<1>4. CASE streamPhase = "measure" /\ SKind = "net-latency"
  <2>1. Stream!Plan(streamPhase) = Stream!nl_measure
    BY <1>4 DEF SKind, Stream!Plan
  <2>2. script' = << "done", "join", "fail" >>
    BY <1>1, <2>1 DEF Stream!nl_measure
  <2> QED
    BY <1>4, <2>2 DEF RefusedScripts, LatencyRefused, StageOf
<1>5. CASE streamPhase = "warmup" /\ SKind = "net-zero-copy"
  <2>1. Stream!Plan(streamPhase) = Stream!zc_warmup
    BY <1>5 DEF SKind, Stream!Plan
  <2>2. script' = << "shut", "done", "join", "relisten" >>
    BY <1>1, <2>1 DEF Stream!zc_warmup
  <2> QED
    BY <1>5, <2>2 DEF RefusedScripts, CopyWarmRefused, StageOf
<1>6. CASE streamPhase = "measure" /\ SKind = "net-zero-copy"
  <2>1. Stream!Plan(streamPhase) = Stream!zc_measure
    BY <1>6 DEF SKind, Stream!Plan
  <2>2. script' = << "fail" >>
    BY <1>1, <2>1 DEF Stream!zc_measure
  <2> QED
    BY <1>6, <2>2 DEF RefusedScripts, CopyRefused, StageOf
<1> QED
  BY <1>2, <1>3, <1>4, <1>5, <1>6, StreamKind

(* A call begins, connects or not, or returns a failure.                    *)
LEMMA CallStep ==
  ASSUME StreamInv, bench' = bench,
         Stream!Call \/ Stream!Connect \/ Stream!ConnectFails \/ Stream!Fail
  PROVE  StreamInv'
<1>1. StageFacts /\ StreamShape
  BY Stages DEF StreamInv
<1>2. SKind' = SKind
  BY DEF SKind
<1> USE <1>2, StreamSizes
<1>3. CASE Stream!Call
  <2>1. /\ script = << >> /\ streamRet = 0 /\ streamPhase' \in {"warmup", "measure"}
        /\ sends' = 0 /\ total' = 0 /\ count' = 0 /\ told' = FALSE /\ refused' = FALSE /\ left' = up
        /\ spc' = "start" /\ UNCHANGED << streamRet, streamFailed, listens, pending, up, down, eof >>
    BY <1>3 DEF Stream!Call, Stream!Idle, Stream!kernelVars
  <2>2. script' = IF SKind = "net-udp" THEN << "spin", "send", "done", "join" >>
                  ELSE << "spin", "connect" >>
    <3>1. CASE SKind = "net-udp"
      <4>1. << "spin" >> \o << "send", "done", "join" >> = << "spin", "send", "done", "join" >>
        BY SpinFirst
      <4>2. script' = << "spin" >> \o << "send", "done", "join" >>
        BY <1>3, <3>1 DEF SKind, Stream!Call, Stream!Plan, Stream!nu_warmup, Stream!nu_measure
      <4> QED
        BY <3>1, <4>1, <4>2
    <3>2. CASE SKind # "net-udp"
      <4>1. script' = << "spin" >> \o << "connect" >>
        BY <1>3, <3>2 DEF SKind, Stream!Call
      <4> QED
        BY <3>2, <4>1, SpinFirst
    <3> QED
      BY <3>1, <3>2
  <2>3. StreamShape' /\ Stage' = "spin" /\ script' # << >>
    <3>1. script' \in Scripts'
      BY <2>1, <2>2 DEF Scripts, Udp, Before
    <3>2. StageOf(script') = "spin" /\ script' # << >>
      BY <2>2 DEF StageOf
    <3> QED
      BY <2>1, <3>1, <3>2 DEF StreamShape, Stage
  <2>4. /\ Stage = "end"
        /\ up \in 0..Buffer
        /\ SKind # "net-udp" => up = 0 /\ down = 0 /\ pending = 0
    BY <1>1, <2>1 DEF StageFacts, StreamInv, Connection, Between, Stream!TypeOK
  <2>5. script' \in Seq(Steps)
    BY <2>2, PlansAreSteps DEF Udp, Before
  <2>6. Stream!TypeOK'
    <3>1. sends' \in 0..Stream!PerCall' /\ total' \in 0..sends'
      BY <2>1 DEF Stream!PerCall
    <3>2. count' \in Nat /\ left' \in 0..Buffer
      BY <2>1, <2>4
    <3>3. refused' \in BOOLEAN /\ told' \in BOOLEAN
      BY <2>1
    <3> QED
      BY <2>1, <2>5, <3>1, <3>2, <3>3 DEF StreamInv, Stream!TypeOK, Steps
  <2>7. Traffic'
    BY <2>1, <2>4 DEF StreamInv, Traffic, Stream!TypeOK
  <2>8. Connection'
    <3>1. Unconnected' \/ SKind = "net-udp"
      BY <2>1, <2>4 DEF Unconnected, Waiting
    <3>2. Between' /\ Refusal' /\ Talking' /\ Closing' /\ Stopping' /\ Rejoined'
      BY <2>1, <2>3 DEF Between, Refusal, Talking, Closing, Stopping, Rejoined
    <3> QED
      BY <3>1, <3>2 DEF Connection
  <2> QED
    BY <2>1, <2>3, <2>6, <2>7, <2>8 DEF StreamInv
<1>4. CASE Stream!Connect
  <2>1. /\ script # << >> /\ Stage = "connect" /\ listens /\ pending = 0 /\ pending' = 1 /\ eof' = FALSE
        /\ UNCHANGED << streamPhase, sends, total, streamRet, refused, streamFailed, left, spc, told,
                        count, listens, up, down >>
    BY <1>1, <1>4 DEF StageFacts, Stream!Connect, Stream!At, Stream!serverVars
  <2>2. SKind # "net-udp" /\ ~refused /\ streamPhase \in {"warmup", "measure"}
    BY <1>1, <2>1 DEF StageFacts, StreamShape
  <2>3. \/ script' \in ConnectedScripts
           /\ StageOf(script') = IF SKind = "net-latency" THEN "exchange" ELSE "send"
        \/ script' \in ConnectedScripts /\ StageOf(script') = "gone"
    BY <1>4, <2>2, ConnectPlans
  <2>4. StreamShape' /\ script' # << >>
    <3>1. Scripts' = Before \cup ConnectedScripts
      BY <2>1, <2>2 DEF Scripts, ConnectedScripts
    <3>2. script' # << >>
      BY <2>3, EndIsEmpty
    <3> QED
      BY <2>1, <2>2, <2>3, <3>1, <3>2 DEF StreamShape
  <2>5. script' \in Seq(Steps)
    BY <2>3, PlansAreSteps
  <2>6. Stream!TypeOK' /\ Traffic'
    BY <2>1, <2>5, ZenonT(60) DEF StreamInv, Stream!TypeOK, Traffic, Stream!PerCall, Steps
  <2>7. Connection'
    BY <2>1, <2>2, <2>3, StreamKind
    DEF Stage, StreamInv, Connection, Between, Unconnected, Refusal, Talking, Closing, Stopping, Rejoined,
        Waiting, Drains
  <2>8. streamRet # -1
    BY <2>1 DEF StreamInv
  <2> QED
    BY <2>1, <2>4, <2>6, <2>7, <2>8 DEF StreamInv
<1>5. CASE Stream!ConnectFails
  <2>1. /\ script # << >> /\ Stage = "connect" /\ refused' = TRUE /\ streamFailed' \in 0..MaxRefused
        /\ UNCHANGED << streamPhase, sends, total, streamRet, left, spc, told, count, listens, pending,
                        up, down, eof >>
    BY <1>1, <1>5 DEF StageFacts, Stream!ConnectFails, Stream!At, Stream!serverVars,
                      Stream!kernelVars, StreamInv, Stream!TypeOK
  <2>2. SKind # "net-udp" /\ ~refused /\ streamPhase \in {"warmup", "measure"}
    BY <1>1, <2>1 DEF StageFacts, StreamShape
  <2>3. script' \in RefusedScripts /\ StageOf(script') \in {"shut", "done", "fail"}
    BY <1>5, <2>2, RefusedPlans
  <2>4. StreamShape' /\ script' # << >>
    <3>1. Scripts' = RefusedScripts
      BY <2>1, <2>2 DEF Scripts, RefusedScripts
    <3>2. script' # << >>
      BY <2>3, EndIsEmpty
    <3> QED
      BY <2>1, <2>2, <2>3, <3>1, <3>2 DEF StreamShape
  <2>5. script' \in Seq(Steps)
    BY <2>3, PlansAreSteps
  <2>6. Stream!TypeOK' /\ Traffic'
    BY <2>1, <2>5 DEF StreamInv, Stream!TypeOK, Traffic, Stream!PerCall, Steps
  <2>7. Connection'
    BY <2>1, <2>2, <2>3
    DEF Stage, StreamInv, Connection, Between, Unconnected, Refusal, Talking, Closing, Stopping, Rejoined,
        Waiting
  <2>8. streamRet # -1
    BY <2>1 DEF StreamInv
  <2> QED
    BY <2>1, <2>4, <2>6, <2>7, <2>8 DEF StreamInv
<1>6. CASE Stream!Fail
  <2>1. /\ script' = << >> /\ streamRet' = -1
        /\ UNCHANGED << streamPhase, sends, total, refused, streamFailed, left, spc, told, count,
                        listens, pending, up, down, eof >>
    BY <1>6 DEF Stream!Fail, Stream!serverVars, Stream!kernelVars
  <2>2. Stage' = "end" /\ StreamShape'
    BY <1>1, <2>1 DEF Stage, StageOf, StreamShape
  <2>3. << >> \in Seq({"spin", "connect", "send", "exchange", "hangup", "shut", "done", "join",
                       "relisten", "fail"})
    OBVIOUS
  <2>4. Stream!TypeOK' /\ Traffic'
    BY <2>1, <2>3 DEF StreamInv, Stream!TypeOK, Traffic, Stream!PerCall
  <2>5. Connection'
    BY <2>1, <2>2 DEF Connection, Between, Unconnected, Refusal, Talking, Closing, Stopping, Rejoined
  <2> QED
    BY <2>1, <2>2, <2>4, <2>5 DEF StreamInv
<1> QED
  BY <1>3, <1>4, <1>5, <1>6

(* A step of the server thread: the caller stays where it is.               *)
LEMMA ServerStep ==
  ASSUME StreamInv, bench' = bench, Stream!ServerStep
  PROVE  StreamInv'
<1>1. StageFacts /\ StreamShape
  BY Stages DEF StreamInv
<1>2. /\ UNCHANGED << streamPhase, script, sends, total, streamRet, refused, streamFailed, left, told,
                      listens, eof >>
      /\ StreamShape' /\ Stage' = Stage /\ SKind' = SKind /\ Stream!PerCall' = Stream!PerCall
  BY <1>1, StageSame
  DEF Stream!ServerStep, Stream!ServerStart, Stream!Accept, Stream!AcceptFails, Stream!CheckDone,
      Stream!Receive, Stream!Reply, Stream!EndOfStream, Stream!Timeout, Stream!callerVars,
      Stream!kernelVars, Stream!PerCall
<1>3. Stream!Loop = IF SKind \in {"net-latency", "net-udp"} THEN "check" ELSE "recv"
  BY DEF Stream!Loop, SKind
<1> USE <1>2, StreamSizes
<1>4. CASE Stream!ServerStart
  <2>1. spc = "start" /\ UNCHANGED << count, pending, up, down >>
    BY <1>4 DEF Stream!ServerStart, Stream!kernelVars
  <2>2. spc' = IF SKind = "net-udp" THEN "check" ELSE "accept"
    BY <1>3, <1>4 DEF Stream!ServerStart, SKind
  <2>3. Stream!TypeOK' /\ Traffic'
    BY <2>1, <2>2 DEF StreamInv, Stream!TypeOK, Traffic
  <2>4. Connection'
    <3> SUFFICES ASSUME SKind # "net-udp"
                 PROVE  Between' /\ Unconnected' /\ Refusal' /\ Talking' /\ Closing' /\ Stopping' /\ Rejoined'
      BY DEF Connection
    <3>1. /\ Between /\ Unconnected /\ Refusal /\ Talking /\ Closing /\ Stopping /\ Rejoined
          /\ Stream!TypeOK /\ Traffic /\ StageFacts
      BY <1>1 DEF StreamInv, Connection
    <3>2. Between' /\ Rejoined'
      BY <2>1, <2>2, <3>1 DEF Between, Rejoined, Stream!TypeOK
    <3>3. Unconnected'
      BY <2>1, <2>2, <3>1 DEF Unconnected, Waiting, Stream!TypeOK
    <3>4. Refusal'
      BY <2>1, <2>2, <3>1 DEF Refusal, Waiting, Stream!TypeOK
    <3>5. Talking'
      BY <2>1, <2>2, <3>1 DEF Talking, Waiting, Drains, Stream!TypeOK
    <3>6. Closing'
      BY <2>1, <2>2, <3>1 DEF Closing, Waiting, Stream!TypeOK, StageFacts
    <3>7. Stopping'
      BY <2>1, <2>2, <3>1 DEF Stopping, Waiting, Stream!TypeOK, Traffic
    <3> QED
      BY <3>2, <3>3, <3>4, <3>5, <3>6, <3>7
  <2> QED
    BY <2>3, <2>4 DEF StreamInv
<1>5. CASE Stream!Accept
  <2>1. /\ spc = "accept" /\ spc' = Stream!Loop /\ pending = 1 /\ pending' = 0
        /\ UNCHANGED << count, up, down >>
    BY <1>5 DEF Stream!Accept
  <2>2. Stream!TypeOK' /\ Traffic'
    BY <1>3, <2>1 DEF StreamInv, Stream!TypeOK, Traffic
  <2>3. Connection'
    <3> SUFFICES ASSUME SKind # "net-udp"
                 PROVE  Between' /\ Unconnected' /\ Refusal' /\ Talking' /\ Closing' /\ Stopping' /\ Rejoined'
      BY DEF Connection
    <3>1. /\ Between /\ Unconnected /\ Refusal /\ Talking /\ Closing /\ Stopping /\ Rejoined
          /\ Stream!TypeOK /\ Traffic /\ StageFacts
      BY <1>1 DEF StreamInv, Connection
    <3>2. Between' /\ Rejoined'
      BY <1>3, <2>1, <3>1 DEF Between, Rejoined, Stream!TypeOK
    <3>3. Unconnected'
      BY <1>3, <2>1, <3>1 DEF Unconnected, Waiting, Stream!TypeOK
    <3>4. Refusal'
      BY <1>3, <2>1, <3>1 DEF Refusal, Waiting, Stream!TypeOK
    <3>5. Talking'
      BY <1>3, <2>1, <3>1 DEF Talking, Waiting, Drains, Stream!TypeOK
    <3>6. Closing'
      BY <1>3, <2>1, <3>1 DEF Closing, Waiting, Stream!TypeOK, StageFacts
    <3>7. Stopping'
      BY <1>3, <2>1, <3>1 DEF Stopping, Waiting, Stream!TypeOK, Traffic
    <3> QED
      BY <3>2, <3>3, <3>4, <3>5, <3>6, <3>7
  <2> QED
    BY <2>2, <2>3 DEF StreamInv
<1>6. CASE Stream!AcceptFails
  <2>1. /\ spc = "accept" /\ spc' = "exit" /\ ~listens
        /\ UNCHANGED << count, pending, up, down >>
    BY <1>6 DEF Stream!AcceptFails, Stream!kernelVars
  <2>2. Stream!TypeOK' /\ Traffic'
    BY <2>1 DEF StreamInv, Stream!TypeOK, Traffic
  <2>3. Connection'
    <3> SUFFICES ASSUME SKind # "net-udp"
                 PROVE  Between' /\ Unconnected' /\ Refusal' /\ Talking' /\ Closing' /\ Stopping' /\ Rejoined'
      BY DEF Connection
    <3>1. /\ Between /\ Unconnected /\ Refusal /\ Talking /\ Closing /\ Stopping /\ Rejoined
          /\ Stream!TypeOK /\ Traffic /\ StageFacts
      BY <1>1 DEF StreamInv, Connection
    <3>2. Between' /\ Rejoined'
      BY <2>1, <3>1 DEF Between, Rejoined, Stream!TypeOK
    <3>3. Unconnected'
      BY <2>1, <3>1 DEF Unconnected, Waiting, Stream!TypeOK
    <3>4. Refusal'
      BY <2>1, <3>1 DEF Refusal, Waiting, Stream!TypeOK
    <3>5. Talking'
      BY <2>1, <3>1 DEF Talking, Waiting, Drains, Stream!TypeOK
    <3>6. Closing'
      BY <2>1, <3>1 DEF Closing, Waiting, Stream!TypeOK, StageFacts, Traffic
    <3>7. Stopping'
      BY <2>1, <3>1 DEF Stopping, Waiting, Stream!TypeOK, Traffic
    <3> QED
      BY <3>2, <3>3, <3>4, <3>5, <3>6, <3>7
  <2> QED
    BY <2>2, <2>3 DEF StreamInv
<1>7. CASE Stream!CheckDone
  <2>1. /\ spc = "check" /\ spc' = IF told THEN "exit" ELSE "recv"
        /\ UNCHANGED << count, pending, up, down >>
    BY <1>7 DEF Stream!CheckDone, Stream!kernelVars
  <2>2. Stream!TypeOK' /\ Traffic'
    BY <2>1 DEF StreamInv, Stream!TypeOK, Traffic
  <2>3. Connection'
    <3> SUFFICES ASSUME SKind # "net-udp"
                 PROVE  Between' /\ Unconnected' /\ Refusal' /\ Talking' /\ Closing' /\ Stopping' /\ Rejoined'
      BY DEF Connection
    <3>1. /\ Between /\ Unconnected /\ Refusal /\ Talking /\ Closing /\ Stopping /\ Rejoined
          /\ Stream!TypeOK /\ Traffic /\ StageFacts
      BY <1>1 DEF StreamInv, Connection
    <3>2. Between' /\ Rejoined'
      BY <2>1, <3>1 DEF Between, Rejoined, Stream!TypeOK
    <3>3. Unconnected'
      BY <2>1, <3>1 DEF Unconnected, Waiting, Stream!TypeOK
    <3>4. Refusal'
      BY <2>1, <3>1 DEF Refusal, Waiting, Stream!TypeOK
    <3>5. Talking'
      BY <2>1, <3>1 DEF Talking, Waiting, Drains, Stream!TypeOK
    <3>6. Closing'
      BY <2>1, <3>1 DEF Closing, Waiting, Stream!TypeOK, StageFacts, Traffic
    <3>7. Stopping'
      BY <2>1, <3>1 DEF Stopping, Waiting, Stream!TypeOK, Traffic
    <3> QED
      BY <3>2, <3>3, <3>4, <3>5, <3>6, <3>7
  <2> QED
    BY <2>2, <2>3 DEF StreamInv
<1>8. CASE Stream!Receive
  <2>1. /\ spc = "recv" /\ up > 0 /\ up' = up - 1 /\ UNCHANGED << pending, down >>
        /\ IF SKind = "net-latency" THEN spc' = "reply" /\ count' = count
           ELSE spc' = Stream!Loop /\ count' = count + 1
    BY <1>8 DEF Stream!Receive, SKind
  <2>2. Stream!TypeOK' /\ Traffic'
    BY <1>3, <2>1 DEF StreamInv, Stream!TypeOK, Traffic
  <2>3. Connection'
    <3> SUFFICES ASSUME SKind # "net-udp"
                 PROVE  Between' /\ Unconnected' /\ Refusal' /\ Talking' /\ Closing' /\ Stopping' /\ Rejoined'
      BY DEF Connection
    <3>1. /\ Between /\ Unconnected /\ Refusal /\ Talking /\ Closing /\ Stopping /\ Rejoined
          /\ Stream!TypeOK /\ Traffic /\ StageFacts
      BY <1>1 DEF StreamInv, Connection
    <3>2. Between' /\ Rejoined'
      BY <1>3, <2>1, <3>1 DEF Between, Rejoined, Stream!TypeOK
    <3>3. Unconnected'
      BY <1>3, <2>1, <3>1 DEF Unconnected, Waiting, Stream!TypeOK
    <3>4. Refusal'
      BY <1>3, <2>1, <3>1 DEF Refusal, Waiting, Stream!TypeOK
    <3>5. Talking'
      BY <1>3, <2>1, <3>1 DEF Talking, Waiting, Drains, Stream!TypeOK
    <3>6. Closing'
      BY <1>3, <2>1, <3>1 DEF Closing, Waiting, Stream!TypeOK, StageFacts
    <3>7. Stopping'
      BY <1>3, <2>1, <3>1 DEF Stopping, Waiting, Stream!TypeOK, Traffic
    <3> QED
      BY <3>2, <3>3, <3>4, <3>5, <3>6, <3>7
  <2> QED
    BY <2>2, <2>3 DEF StreamInv
<1>9. CASE Stream!Reply
  <2>1. /\ spc = "reply" /\ spc' = Stream!Loop /\ down' = down + 1
        /\ UNCHANGED << count, pending, up >>
    BY <1>9 DEF Stream!Reply
  <2>2. Stream!TypeOK' /\ Traffic'
    BY <1>3, <2>1 DEF StreamInv, Stream!TypeOK, Traffic
  <2>3. Connection'
    <3> SUFFICES ASSUME SKind # "net-udp"
                 PROVE  Between' /\ Unconnected' /\ Refusal' /\ Talking' /\ Closing' /\ Stopping' /\ Rejoined'
      BY DEF Connection
    <3>1. /\ Between /\ Unconnected /\ Refusal /\ Talking /\ Closing /\ Stopping /\ Rejoined
          /\ Stream!TypeOK /\ Traffic /\ StageFacts
      BY <1>1 DEF StreamInv, Connection
    <3>2. Between' /\ Rejoined'
      BY <1>3, <2>1, <3>1 DEF Between, Rejoined, Stream!TypeOK
    <3>3. Unconnected'
      BY <1>3, <2>1, <3>1 DEF Unconnected, Waiting, Stream!TypeOK
    <3>4. Refusal'
      BY <1>3, <2>1, <3>1 DEF Refusal, Waiting, Stream!TypeOK
    <3>5. Talking'
      BY <1>3, <2>1, <3>1 DEF Talking, Waiting, Drains, Stream!TypeOK
    <3>6. Closing'
      BY <1>3, <2>1, <3>1 DEF Closing, Waiting, Stream!TypeOK, StageFacts
    <3>7. Stopping'
      BY <1>3, <2>1, <3>1 DEF Stopping, Waiting, Stream!TypeOK, Traffic
    <3> QED
      BY <3>2, <3>3, <3>4, <3>5, <3>6, <3>7
  <2> QED
    BY <2>2, <2>3 DEF StreamInv
<1>10. CASE Stream!EndOfStream
  <2>1. /\ spc = "recv" /\ spc' = "exit" /\ up = 0 /\ eof /\ SKind # "net-udp"
        /\ UNCHANGED << count, pending, up, down >>
    BY <1>10 DEF Stream!EndOfStream, Stream!kernelVars, SKind
  <2>2. Stream!TypeOK' /\ Traffic'
    BY <2>1 DEF StreamInv, Stream!TypeOK, Traffic
  <2>3. Connection'
    <3> SUFFICES ASSUME SKind # "net-udp"
                 PROVE  Between' /\ Unconnected' /\ Refusal' /\ Talking' /\ Closing' /\ Stopping' /\ Rejoined'
      BY DEF Connection
    <3>1. /\ Between /\ Unconnected /\ Refusal /\ Talking /\ Closing /\ Stopping /\ Rejoined
          /\ Stream!TypeOK /\ Traffic /\ StageFacts
      BY <1>1 DEF StreamInv, Connection
    <3>2. Between' /\ Rejoined'
      BY <2>1, <3>1 DEF Between, Rejoined, Stream!TypeOK
    <3>3. Unconnected'
      BY <2>1, <3>1 DEF Unconnected, Waiting, Stream!TypeOK
    <3>4. Refusal'
      BY <2>1, <3>1 DEF Refusal, Waiting, Stream!TypeOK
    <3>5. Talking'
      BY <2>1, <3>1 DEF Talking, Waiting, Drains, Stream!TypeOK
    <3>6. Closing'
      BY <2>1, <3>1 DEF Closing, Waiting, Stream!TypeOK, StageFacts, Traffic
    <3>7. Stopping'
      BY <2>1, <3>1 DEF Stopping, Waiting, Stream!TypeOK, Traffic
    <3> QED
      BY <3>2, <3>3, <3>4, <3>5, <3>6, <3>7
  <2> QED
    BY <2>2, <2>3 DEF StreamInv
<1>11. CASE Stream!Timeout
  <2>1. /\ spc = "recv" /\ spc' = Stream!Loop /\ SKind = "net-udp"
        /\ UNCHANGED << count, pending, up, down >>
    BY <1>11 DEF Stream!Timeout, Stream!kernelVars, SKind
  <2>2. Stream!TypeOK' /\ Traffic'
    BY <1>3, <2>1 DEF StreamInv, Stream!TypeOK, Traffic
  <2>3. Connection'
    BY <2>1 DEF Connection
  <2> QED
    BY <2>2, <2>3 DEF StreamInv
<1> QED
  BY <1>4, <1>5, <1>6, <1>7, <1>8, <1>9, <1>10, <1>11 DEF Stream!ServerStep

(* Every step of caller, server and kernel keeps the account of a stream.   *)
LEMMA StreamStep == ASSUME StreamInv, bench' = bench, Stream!Next PROVE StreamInv'
  BY SendStep, MoveStep, CallStep, ServerStep DEF Stream!Next, Stream!CallerStep

(* The streams before the first call.                                       *)
LEMMA StreamInit == Init => StreamInv
<1>1. SUFFICES ASSUME Init PROVE StreamInv
  OBVIOUS
<1>2. /\ streamPhase = "new" /\ script = << >> /\ sends = 0 /\ total = 0 /\ streamRet = 0
      /\ refused = FALSE /\ streamFailed = 0 /\ spc = "none" /\ told = FALSE /\ count = 0
      /\ pending = 0 /\ up = 0 /\ down = 0 /\ eof = FALSE /\ left = 0
      /\ listens \in BOOLEAN
  BY <1>1 DEF Init, Stream!Init
<1>3. Stage = "end" /\ StreamShape
  BY <1>2, EndIsEmpty DEF Stage, StreamShape
<1>4. << >> \in Seq({"spin", "connect", "send", "exchange", "hangup", "shut", "done", "join",
                     "relisten", "fail"})
  OBVIOUS
<1>5. SKind \in Stream!Kinds
  BY StreamKind DEF Stream!Kinds
<1>6. Stream!TypeOK
  <2>1. sends \in 0..Stream!PerCall /\ total \in 0..sends
    BY <1>2, StreamSizes
  <2>2. streamFailed \in 0..MaxRefused /\ up \in 0..Buffer /\ left \in 0..Buffer
    BY <1>2, StreamSizes
  <2>3. script \in Seq({"spin", "connect", "send", "exchange", "hangup", "shut", "done", "join",
                        "relisten", "fail"})
    BY <1>2, <1>4
  <2>4. refused \in BOOLEAN /\ told \in BOOLEAN /\ eof \in BOOLEAN
    BY <1>2
  <2> QED
    BY <1>2, <1>5, <2>1, <2>2, <2>3, <2>4 DEF Stream!TypeOK, SKind
<1>7. Traffic
  BY <1>2 DEF Traffic
<1>8. Connection
  BY <1>2, <1>3 DEF Connection, Between, Unconnected, Refusal, Talking, Closing, Stopping, Rejoined
<1> QED
  BY <1>2, <1>3, <1>6, <1>7, <1>8 DEF StreamInv

(* A transfer larger than the socket buffers has arrived when it is         *)
(* reported.                                                                *)
LEMMA StreamReports ==
  ASSUME StreamInv, Buffer < NumMsgs
  PROVE  Stream!ReportsWhatArrived
<1>1. (SKind = "net-udp") => count + up <= left + sends
  BY DEF StreamInv, Traffic
<1>2. ASSUME Stream!Idle, streamPhase = "measure", SKind # "net-udp"
      PROVE  /\ up = 0 /\ down = 0 /\ (SKind = "net-latency" => total = NumMsgs)
             /\ SKind \in {"net-tcp", "net-zero-copy"} => count = NumMsgs
  <2>1. Stage = "end" /\ streamRet = 0
    BY <1>2, EndIsEmpty DEF Stage, Stream!Idle
  <2> QED
    BY <1>2, <2>1 DEF StreamInv, Connection, Between
<1> QED
  BY <1>1, <1>2, StreamKind DEF Stream!ReportsWhatArrived, SKind

-----------------------------------------------------------------------------
(* ipc_pipe.                                                                *)

Reading(p) == Ipc!End("r", p)
Writing(p) == Ipc!End("w", p)

(* What the two numbers of the state mean.                                  *)
Ends(a, b) == table[rfd] = a /\ table[wfd] = b

(* The pipe of init or of warmup until a call has closed it; after that     *)
(* nothing, or the two perf counters.                                       *)
FoundPipe ==
  IF calls <= 1 THEN Ends(Reading(made), Writing(made))
  ELSE Ends(Ipc!Free, Ipc!Free) \/ Ends(Ipc!Perf, Ipc!Perf)

InCall == pc \in {"close", "write", "wait"}

(* The lowest two numbers, unless warmup forgot the pipe it found there.    *)
Numbers ==
  /\ IF orphan /\ made = 2 THEN rfd = 2 /\ wfd = 3
     ELSE rfd = 0 /\ (wfd = 1 \/ (pc \in {"init", "done"} /\ wfd = 0))
  /\ \A f \in Ipc!Fds \ {rfd, wfd} :
       table[f] = IF f < rfd THEN (IF f = 0 THEN Reading(1) ELSE Writing(1)) ELSE Ipc!Free

Descriptors ==
  /\ pc \in {"init", "wait", "done"} => Ends(Ipc!Free, Ipc!Free)
  /\ pc = "next" => IF orphan THEN Ends(Reading(1), Writing(1)) ELSE Ends(Ipc!Free, Ipc!Free)
  /\ pc \in {"fork", "close"} => FoundPipe
  /\ pc = "write" =>
       /\ table[rfd] = Ipc!Free
       /\ IF calls <= 1 THEN table[wfd] = Writing(made) ELSE table[wfd] \in {Ipc!Free, Ipc!Perf}
  /\ pc = "call" => IF calls = 0 THEN Ends(Reading(2), Writing(2)) ELSE Ends(Ipc!Free, Ipc!Free)
  /\ pc = "stop" /\ ret = 0 => Ends(Ipc!Free, Ipc!Free)

(* How far the run is.                                                      *)
Progress ==
  /\ pc = "init" => made = 0 /\ calls = 0 /\ ~orphan
  /\ pc = "fork" \/ InCall => IF calls = 0 THEN made = 1 /\ ~orphan ELSE made = 2
  /\ pc = "next" => made = 1 /\ calls = 0
  /\ pc \in {"call", "stop"} => made = 2
  /\ pc = "stop" => calls > 0
  /\ pc \notin {"stop", "cleanup", "done"} => ret = 0
  /\ pc = "close" => sent = 0
  /\ pc = "wait" => sent = Msgs
  /\ InCall => cpc # "none" /\ (fresh <=> calls <= 1)
  /\ pc \notin {"close", "write", "wait", "killed"} => cpc = "none"
  /\ pc \in {"init", "fork", "stop"} \/ InCall =>
       (fdi = -1 /\ fdc = -1) \/ (calls > 2 /\ fdi = rfd /\ fdc = wfd)

(* A message of a call that found its pipe open is in the pipe or was read. *)
Transfer ==
  /\ got <= seen
  /\ pc = "init" \/ (pc = "fork" /\ calls = 0) => content[1] = 0
  /\ calls = 0 \/ (pc = "fork" /\ calls = 1) => content[2] = 0
  /\ InCall /\ fresh =>
       /\ content[made] + got = sent /\ seen = got
       /\ cpc \in {"shut", "read"} => ctable[rfd] = Reading(made)
       /\ cpc \in {"end", "dead"} => got = Msgs
  /\ pc = "stop" /\ ret = 0 /\ fresh => got = sent

IpcInv == Ipc!TypeOK /\ Numbers /\ Descriptors /\ Progress /\ Transfer

(* What the constants of ipc_pipe are.                                      *)
LEMMA IpcSizes ==
  Msgs \in Nat \ {0} /\ PipeMsgs \in Nat \ {0} /\ Calls \in Nat /\ Calls >= 3
  BY IpcAssumption DEF Ipc!MsgsAssumption, Ipc!CallsAssumption

(* The kernel gives out the lowest free number.                             *)
LEMMA LowestFree ==
  ASSUME NEW t, NEW f \in Ipc!Fds, t[f] = Ipc!Free,
         \A g \in Ipc!Fds : g < f => t[g] # Ipc!Free
  PROVE  Ipc!Lowest(t) = f
<1>1. Ipc!Lowest(t) = CHOOSE x \in {g \in Ipc!Fds : t[g] = Ipc!Free} :
                        \A y \in {g \in Ipc!Fds : t[g] = Ipc!Free} : x <= y
  BY DEF Ipc!Lowest, Ipc!Min
<1>2. \A x \in {g \in Ipc!Fds : t[g] = Ipc!Free} :
        (\A y \in {g \in Ipc!Fds : t[g] = Ipc!Free} : x <= y) => x = f
  BY DEF Ipc!Fds
<1>3. f \in {g \in Ipc!Fds : t[g] = Ipc!Free} /\
      \A y \in {g \in Ipc!Fds : t[g] = Ipc!Free} : f <= y
  BY DEF Ipc!Fds
<1> QED
  BY <1>1, <1>2, <1>3

(* What a descriptor of ipc_pipe may be.                                    *)
LEMMA ObjectKinds ==
  /\ Ipc!Free \in Ipc!Objects /\ Ipc!Perf \in Ipc!Objects
  /\ \A p \in {1, 2} : Reading(p) \in Ipc!Objects /\ Writing(p) \in Ipc!Objects
  /\ Ipc!Free # Ipc!Perf
  /\ \A p \in {1, 2} : /\ Reading(p) # Ipc!Free /\ Writing(p) # Ipc!Free
                       /\ Reading(p).kind = "r" /\ Reading(p).pipe = p
                       /\ Writing(p).kind = "w" /\ Writing(p).pipe = p
  /\ Ipc!Free.kind = "free" /\ Ipc!Perf.kind = "perf"
  /\ \A o \in Ipc!Objects : o.kind \in {"r", "w"} => o.pipe \in {1, 2}
  BY DEF Ipc!Free, Ipc!Perf, Ipc!Objects, Reading, Writing, Ipc!End, Ipc!Pipes

(* Two numbers that a pipe or a pair of counters gets in an empty place.    *)
LEMMA TwoLowest ==
  ASSUME NEW t \in [Ipc!Fds -> Ipc!Objects], NEW r \in {0, 2}, NEW o \in Ipc!Objects,
         o # Ipc!Free, t[r] = Ipc!Free, t[r + 1] = Ipc!Free,
         \A f \in Ipc!Fds : f < r => t[f] # Ipc!Free
  PROVE  Ipc!Lowest(t) = r /\ Ipc!Lowest([t EXCEPT ![r] = o]) = r + 1
<1>1. r \in Ipc!Fds /\ r + 1 \in Ipc!Fds
  BY DEF Ipc!Fds
<1>2. Ipc!Lowest(t) = r
  BY <1>1, LowestFree
<1> DEFINE u == [t EXCEPT ![r] = o]
<1>3. u[r + 1] = Ipc!Free /\ \A f \in Ipc!Fds : f < r + 1 => u[f] # Ipc!Free
  BY <1>1 DEF Ipc!Fds
<1> HIDE DEF u
<1>4. Ipc!Lowest(u) = r + 1
  BY <1>1, <1>3, LowestFree
<1> QED
  BY <1>2, <1>4 DEF u

(* The pipe of init takes 0 and 1; that of warmup takes them again, or 2    *)
(* and 3 if the first was forgotten.                                        *)
LEMMA PipeMade ==
  ASSUME IpcInv, pc \in {"init", "next"}, Ipc!MakePipe
  PROVE  /\ rfd' = (IF orphan THEN 2 ELSE 0) /\ wfd' = rfd' + 1 /\ made' = made + 1
         /\ table' \in [Ipc!Fds -> Ipc!Objects]
         /\ table'[rfd'] = Reading(made') /\ table'[wfd'] = Writing(made')
         /\ \A f \in Ipc!Fds \ {rfd', wfd'} :
              table'[f] = IF f < rfd' THEN (IF f = 0 THEN Reading(1) ELSE Writing(1)) ELSE Ipc!Free
<1>1. PICK r : r = IF orphan THEN 2 ELSE 0
  OBVIOUS
<1>2. table \in [Ipc!Fds -> Ipc!Objects] /\ made + 1 \in {1, 2} /\ r \in {0, 2}
      /\ r \in Ipc!Fds /\ r + 1 \in Ipc!Fds
  BY <1>1 DEF IpcInv, Ipc!TypeOK, Progress, Ipc!Fds
<1>3. \A f \in Ipc!Fds :
        table[f] = IF f < r THEN (IF f = 0 THEN Reading(1) ELSE Writing(1)) ELSE Ipc!Free
  BY <1>1 DEF IpcInv, Numbers, Descriptors, Progress, Ends, Ipc!Fds, Ipc!TypeOK
<1>4. table[r] = Ipc!Free /\ table[r + 1] = Ipc!Free
      /\ \A f \in Ipc!Fds : f < r => table[f] # Ipc!Free
  BY <1>2, <1>3, ObjectKinds DEF Ipc!Fds
<1>5. Reading(made + 1) \in Ipc!Objects /\ Reading(made + 1) # Ipc!Free /\ Writing(made + 1) \in Ipc!Objects
  BY <1>2, ObjectKinds
<1>6. Ipc!Lowest(table) = r /\ Ipc!Lowest([table EXCEPT ![r] = Reading(made + 1)]) = r + 1
  BY <1>2, <1>4, <1>5, TwoLowest, ZenonT(60)
<1>7. /\ rfd' = r /\ wfd' = r + 1 /\ made' = made + 1
      /\ table' = [[table EXCEPT ![r] = Reading(made + 1)] EXCEPT ![r + 1] = Writing(made + 1)]
  BY <1>6 DEF Ipc!MakePipe, Reading, Writing
<1>8. table' \in [Ipc!Fds -> Ipc!Objects]
  BY <1>2, <1>5, <1>7
<1>9. /\ table'[r] = Reading(made + 1) /\ table'[r + 1] = Writing(made + 1)
      /\ \A f \in Ipc!Fds \ {r, r + 1} : table'[f] = table[f]
  BY <1>2, <1>7
<1> QED
  BY <1>1, <1>2, <1>3, <1>7, <1>8, <1>9

(* ipc_pipe before init.                                                    *)
LEMMA IpcInit == Init => IpcInv
<1>1. SUFFICES ASSUME Init PROVE IpcInv
  OBVIOUS
<1>2. /\ pc = "init" /\ table = [f \in Ipc!Fds |-> Ipc!Free] /\ rfd = 0 /\ wfd = 0 /\ made = 0
      /\ content = [p \in Ipc!Pipes |-> 0] /\ sent = 0 /\ fdi = -1 /\ fdc = -1 /\ calls = 0
      /\ ret = 0 /\ fresh = TRUE /\ orphan = FALSE /\ cpc = "none"
      /\ ctable = [f \in Ipc!Fds |-> Ipc!Free] /\ seen = 0 /\ got = 0
  BY <1>1 DEF Init, Ipc!Init
<1>3. content[1] = 0 /\ content[2] = 0 /\ content \in [Ipc!Pipes -> 0..PipeMsgs]
  BY <1>2, IpcSizes DEF Ipc!Pipes
<1>4. Ipc!TypeOK
  <2>1. table \in [Ipc!Fds -> Ipc!Objects] /\ ctable \in [Ipc!Fds -> Ipc!Objects]
    BY <1>2, ObjectKinds
  <2>2. rfd \in Ipc!Fds /\ wfd \in Ipc!Fds /\ made \in 0..2
    BY <1>2 DEF Ipc!Fds
  <2>3. sent \in 0..Msgs /\ calls \in 0..Calls /\ seen \in 0..Msgs /\ got \in 0..Msgs
    BY <1>2, IpcSizes
  <2>4. fresh \in BOOLEAN /\ orphan \in BOOLEAN
    BY <1>2
  <2> QED
    BY <1>2, <1>3, <2>1, <2>2, <2>3, <2>4 DEF Ipc!TypeOK, Ipc!Labels
<1>5. Numbers
  BY <1>2 DEF Numbers, Ipc!Fds
<1>6. Descriptors
  BY <1>2 DEF Descriptors, Ends, Ipc!Fds
<1>7. Progress
  BY <1>2 DEF Progress, InCall
<1>8. Transfer
  BY <1>2, <1>3 DEF Transfer, InCall
<1> QED
  BY <1>4, <1>5, <1>6, <1>7, <1>8 DEF IpcInv

(* Closing a number leaves the others alone.                                *)
LEMMA Closed ==
  ASSUME NEW t \in [Ipc!Fds -> Ipc!Objects], NEW f \in Ipc!Fds \cup {-1}
  PROVE  /\ Ipc!Close(t, f) \in [Ipc!Fds -> Ipc!Objects]
         /\ \A g \in Ipc!Fds : Ipc!Close(t, f)[g] = IF g = f THEN Ipc!Free ELSE t[g]
  BY ObjectKinds DEF Ipc!Close, Ipc!Fds

(* What the steps need to know of the numbers.                              *)
LEMMA NumberFacts ==
  ASSUME IpcInv
  PROVE  /\ rfd \in Ipc!Fds /\ wfd \in Ipc!Fds
         /\ pc \notin {"init", "done"} => wfd = rfd + 1 /\ rfd \in {0, 2}
         /\ table \in [Ipc!Fds -> Ipc!Objects] /\ ctable \in [Ipc!Fds -> Ipc!Objects]
         /\ table[rfd] \in Ipc!Objects /\ table[wfd] \in Ipc!Objects
  BY DEF IpcInv, Ipc!TypeOK, Numbers

(* init and warmup make their pipes.                                        *)
LEMMA PipeStep ==
  ASSUME IpcInv, Ipc!InitPipe \/ Ipc!FreshPipe
  PROVE  IpcInv'
<1> USE IpcSizes, NumberFacts
<1>1. /\ UNCHANGED << content, sent, fdi, fdc, calls, fresh, orphan, cpc, ctable, seen, got >>
      /\ calls = 0 /\ cpc = "none" /\ content[2] = 0 /\ (pc = "init" => content[1] = 0)
      /\ made = (IF pc = "init" THEN 0 ELSE 1) /\ pc \in {"init", "next"} /\ ret = 0
      /\ (pc = "init" => ~orphan)
  BY DEF Ipc!InitPipe, Ipc!FreshPipe, IpcInv, Progress, Transfer, Ipc!perfVars, Ipc!childVars
<1>2. CASE Ipc!MakePipe
  <2>1. /\ rfd' = (IF orphan THEN 2 ELSE 0) /\ wfd' = rfd' + 1 /\ made' = made + 1
        /\ table' \in [Ipc!Fds -> Ipc!Objects]
        /\ table'[rfd'] = Reading(made') /\ table'[wfd'] = Writing(made')
        /\ \A f \in Ipc!Fds \ {rfd', wfd'} :
             table'[f] = IF f < rfd' THEN (IF f = 0 THEN Reading(1) ELSE Writing(1)) ELSE Ipc!Free
    BY <1>1, <1>2, PipeMade
  <2>2. pc' = (IF pc = "init" THEN "fork" ELSE "call") /\ ret' = ret
    BY <1>1, <1>2, <2>1 DEF Ipc!InitPipe, Ipc!FreshPipe, IpcInv, Ipc!TypeOK
  <2>3. Ipc!TypeOK'
    BY <1>1, <2>1, <2>2 DEF IpcInv, Ipc!TypeOK, Ipc!Labels, Ipc!Fds
  <2>4. Numbers'
    BY <1>1, <2>1, <2>2 DEF Numbers
  <2>5. Descriptors'
    BY <1>1, <2>1, <2>2 DEF Descriptors, FoundPipe, Ends
  <2>6. Progress'
    BY <1>1, <2>1, <2>2 DEF IpcInv, Progress, InCall
  <2>7. Transfer'
    BY <1>1, <2>1, <2>2 DEF IpcInv, Transfer, InCall
  <2> QED
    BY <2>3, <2>4, <2>5, <2>6, <2>7 DEF IpcInv
<1>3. CASE ~Ipc!MakePipe
  <2>1. /\ UNCHANGED << table, rfd, wfd, made >>
        /\ pc' = (IF pc = "init" THEN "done" ELSE "cleanup") /\ ret' \in {0, -1}
    BY <1>1, <1>3 DEF Ipc!InitPipe, Ipc!FreshPipe
  <2>2. Ipc!TypeOK'
    BY <1>1, <2>1 DEF IpcInv, Ipc!TypeOK, Ipc!Labels
  <2>3. Numbers' /\ Descriptors'
    BY <1>1, <2>1 DEF IpcInv, Numbers, Descriptors, Ends
  <2>4. Progress' /\ Transfer'
    BY <1>1, <2>1 DEF IpcInv, Progress, Transfer, InCall
  <2> QED
    BY <2>2, <2>3, <2>4 DEF IpcInv
<1> QED
  BY <1>2, <1>3

(* fork gives the child the descriptors of its parent, or fails and leaves  *)
(* all as it is.                                                            *)
LEMMA ForkStep ==
  ASSUME IpcInv, Ipc!Fork \/ Ipc!ForkFails
  PROVE  IpcInv'
<1> USE IpcSizes, NumberFacts
<1>1. /\ UNCHANGED << table, rfd, wfd, made, content, fdi, fdc, calls >>
      /\ pc = "fork" /\ FoundPipe /\ ret = 0 /\ cpc = "none" /\ calls \in Nat
      /\ IF calls = 0 THEN made = 1 /\ ~orphan ELSE made = 2
      /\ wfd = rfd + 1
      /\ (fdi = -1 /\ fdc = -1) \/ (calls > 2 /\ fdi = rfd /\ fdc = wfd)
      /\ got <= seen
      /\ (calls = 0 => content[1] = 0) /\ (calls <= 1 => content[2] = 0)
  BY DEF Ipc!Fork, Ipc!ForkFails, IpcInv, Ipc!TypeOK, Progress, Descriptors, Transfer, Ipc!perfVars,
         Ipc!childVars
<1>2. CASE Ipc!Fork
  <2>1. /\ pc' = "close" /\ cpc' = "shut" /\ ctable' = table /\ seen' = 0 /\ got' = 0 /\ sent' = 0
        /\ fresh' = (table[wfd].kind = "w") /\ UNCHANGED << ret, orphan >>
    BY <1>2 DEF Ipc!Fork
  <2>2. fresh' <=> calls <= 1
    BY <1>1, <2>1, ObjectKinds DEF FoundPipe, Ends
  <2>3. content'[made] = 0 \/ calls > 1
    BY <1>1
  <2>4. Ipc!TypeOK'
    <3>1. fresh' \in BOOLEAN
      BY <2>1
    <3>2. sent' \in 0..Msgs /\ seen' \in 0..Msgs /\ got' \in 0..Msgs
      BY <2>1
    <3> QED
      BY <1>1, <2>1, <3>1, <3>2 DEF IpcInv, Ipc!TypeOK, Ipc!Labels
  <2>5. Numbers' /\ Descriptors'
    BY <1>1, <2>1 DEF IpcInv, Numbers, Descriptors, Ends, FoundPipe
  <2>6. Progress'
    BY <1>1, <2>1, <2>2 DEF Progress, InCall
  <2>7. Transfer'
    BY <1>1, <2>1, <2>2, <2>3 DEF Transfer, InCall, FoundPipe, Ends
  <2> QED
    BY <2>4, <2>5, <2>6, <2>7 DEF IpcInv
<1>3. CASE Ipc!ForkFails
  <2>1. /\ UNCHANGED << sent, fresh, cpc, ctable, seen, got >>
        /\ IF calls = 0 THEN pc' = "next" /\ orphan' = TRUE /\ UNCHANGED ret
           ELSE pc' = "stop" /\ ret' = -1 /\ UNCHANGED orphan
    BY <1>3 DEF Ipc!ForkFails, Ipc!childVars
  <2>2. Ipc!TypeOK'
    BY <1>1, <2>1 DEF IpcInv, Ipc!TypeOK, Ipc!Labels
  <2>3. Numbers' /\ Descriptors'
    BY <1>1, <2>1 DEF IpcInv, Numbers, Descriptors, Ends, FoundPipe
  <2>4. Progress' /\ Transfer'
    BY <1>1, <2>1 DEF Progress, Transfer, InCall
  <2> QED
    BY <2>2, <2>3, <2>4 DEF IpcInv
<1> QED
  BY <1>2, <1>3

(* The parent closes its ends.                                              *)
LEMMA CloseStep ==
  ASSUME IpcInv, Ipc!CloseReadEnd \/ Ipc!WritesDone
  PROVE  IpcInv'
<1> USE IpcSizes, NumberFacts
<1>1. /\ UNCHANGED << rfd, wfd, made, content, sent, fdi, fdc, calls, ret, fresh, orphan, cpc, ctable,
                      seen, got >>
      /\ wfd = rfd + 1 /\ rfd \in {0, 2}
  BY DEF Ipc!CloseReadEnd, Ipc!WritesDone, Ipc!perfVars, Ipc!childVars
<1>2. CASE Ipc!CloseReadEnd
  <2>1. /\ pc = "close" /\ pc' = "write" /\ table' \in [Ipc!Fds -> Ipc!Objects]
        /\ \A g \in Ipc!Fds : table'[g] = IF g = rfd THEN Ipc!Free ELSE table[g]
    BY <1>2, Closed DEF Ipc!CloseReadEnd
  <2>2. Ipc!TypeOK'
    BY <1>1, <2>1 DEF IpcInv, Ipc!TypeOK, Ipc!Labels
  <2>3. Numbers'
    BY <1>1, <2>1 DEF IpcInv, Numbers
  <2>4. Descriptors'
    BY <1>1, <2>1 DEF IpcInv, Descriptors, Ends, FoundPipe
  <2>5. Progress' /\ Transfer'
    BY <1>1, <2>1 DEF IpcInv, Progress, Transfer, InCall
  <2> QED
    BY <2>2, <2>3, <2>4, <2>5 DEF IpcInv
<1>3. CASE Ipc!WritesDone
  <2>1. /\ pc = "write" /\ pc' = "wait" /\ sent = Msgs /\ table' \in [Ipc!Fds -> Ipc!Objects]
        /\ \A g \in Ipc!Fds : table'[g] = IF g = wfd THEN Ipc!Free ELSE table[g]
    BY <1>3, Closed DEF Ipc!WritesDone, Ipc!WriteTarget
  <2>2. Ipc!TypeOK'
    BY <1>1, <2>1 DEF IpcInv, Ipc!TypeOK, Ipc!Labels
  <2>3. Numbers'
    BY <1>1, <2>1 DEF IpcInv, Numbers
  <2>4. Descriptors'
    BY <1>1, <2>1 DEF IpcInv, Descriptors, Ends, FoundPipe
  <2>5. Progress' /\ Transfer'
    BY <1>1, <2>1 DEF IpcInv, Progress, Transfer, InCall
  <2> QED
    BY <2>2, <2>3, <2>4, <2>5 DEF IpcInv
<1> QED
  BY <1>2, <1>3

(* The parent writes a message into the pipe, or is killed by SIGPIPE, or   *)
(* fails on what is not a pipe.                                             *)
LEMMA WriteStep ==
  ASSUME IpcInv, Ipc!Write
  PROVE  IpcInv'
<1> USE IpcSizes, NumberFacts
<1>1. /\ UNCHANGED << table, rfd, wfd, made, fdi, fdc, calls, ret, fresh, orphan, cpc, ctable, seen, got >>
      /\ pc = "write" /\ sent < Msgs /\ sent \in Nat /\ content \in [Ipc!Pipes -> 0..PipeMsgs]
  BY DEF Ipc!Write, Ipc!WriteTarget, Ipc!perfVars, Ipc!childVars, IpcInv, Ipc!TypeOK
<1>2. /\ calls = 0 => made = 1
      /\ calls # 0 => made = 2
      /\ calls <= 1 => table[wfd] = Writing(made)
      /\ calls > 1 => table[wfd].kind # "w"
      /\ calls \in Nat
  BY <1>1, ObjectKinds DEF IpcInv, Ipc!TypeOK, Progress, Descriptors, InCall
<1>3. CASE table[wfd].kind # "w"
  <2>1. sent' = sent + 1 /\ UNCHANGED << pc, content >>
    BY <1>3 DEF Ipc!Write
  <2>2. calls > 1
    BY <1>2, <1>3, ObjectKinds
  <2>3. Ipc!TypeOK'
    BY <1>1, <2>1 DEF IpcInv, Ipc!TypeOK
  <2>4. Numbers' /\ Descriptors'
    BY <1>1, <2>1 DEF IpcInv, Numbers, Descriptors, Ends, FoundPipe
  <2>5. ~fresh
    BY <1>1, <1>2, <2>2 DEF IpcInv, Progress, InCall
  <2>6. Progress'
    BY <1>1, <1>2, <2>1 DEF IpcInv, Progress, InCall
  <2>7. Transfer'
    BY <1>1, <1>2, <2>1, <2>2, <2>5 DEF IpcInv, Transfer, InCall
  <2> QED
    BY <2>3, <2>4, <2>6, <2>7 DEF IpcInv
<1>4. CASE table[wfd].kind = "w" /\ pc' = "killed"
  <2>1. UNCHANGED << sent, content >>
    BY <1>1, <1>4 DEF Ipc!Write
  <2>2. Ipc!TypeOK'
    BY <1>1, <1>4, <2>1 DEF IpcInv, Ipc!TypeOK, Ipc!Labels
  <2>3. Numbers' /\ Descriptors'
    BY <1>1, <1>4, <2>1 DEF IpcInv, Numbers, Descriptors, Ends, FoundPipe
  <2>4. Progress' /\ Transfer'
    BY <1>1, <1>4, <2>1 DEF IpcInv, Progress, Transfer, InCall
  <2> QED
    BY <2>2, <2>3, <2>4 DEF IpcInv
<1>5. CASE table[wfd].kind = "w" /\ pc' # "killed"
  <2>1. table[wfd] = Writing(made) /\ calls <= 1
    BY <1>2, <1>5
  <2>2. table[wfd].pipe = made /\ made \in Ipc!Pipes
    BY <1>2, <2>1, ObjectKinds DEF Ipc!Pipes
  <2>3. /\ sent' = sent + 1 /\ pc' = pc /\ content[made] < PipeMsgs
        /\ content' = [content EXCEPT ![made] = @ + 1]
    BY <1>1, <1>5, <2>2 DEF Ipc!Write
  <2>4. /\ content' \in [Ipc!Pipes -> 0..PipeMsgs] /\ content'[made] = content[made] + 1
        /\ \A p \in Ipc!Pipes : p # made => content'[p] = content[p]
    BY <1>1, <2>2, <2>3
  <2>5. Ipc!TypeOK'
    BY <1>1, <2>3, <2>4 DEF IpcInv, Ipc!TypeOK
  <2>6. Numbers' /\ Descriptors'
    BY <1>1, <2>3 DEF IpcInv, Numbers, Descriptors, Ends, FoundPipe
  <2>7. Progress'
    BY <1>1, <2>3 DEF IpcInv, Progress, InCall
  <2>8. Transfer'
    <3>1. calls = 0 => content'[2] = 0
      BY <1>2, <2>4 DEF IpcInv, Transfer, Ipc!Pipes
    <3>2. fresh => content'[made] + got = sent'
      BY <1>1, <2>2, <2>3, <2>4 DEF IpcInv, Transfer, InCall, Ipc!TypeOK
    <3> QED
      BY <1>1, <2>3, <3>1, <3>2 DEF IpcInv, Transfer, InCall
  <2> QED
    BY <2>5, <2>6, <2>7, <2>8 DEF IpcInv
<1> QED
  BY <1>3, <1>4, <1>5

(* The parent waits for the reader.                                         *)
LEMMA WaitStep ==
  ASSUME IpcInv, Ipc!WaitReader
  PROVE  IpcInv'
<1> USE IpcSizes, NumberFacts
<1>1. /\ UNCHANGED << table, rfd, wfd, made, content, sent, fdi, fdc, calls, ret, fresh, orphan, ctable,
                      seen, got >>
      /\ pc = "wait" /\ cpc = "dead" /\ cpc' = "none" /\ pc' = IF calls = 0 THEN "next" ELSE "stop"
  BY DEF Ipc!WaitReader, Ipc!perfVars
<1>2. calls \in Nat /\ sent = Msgs /\ (fresh => got = Msgs) /\ (calls = 0 => ~orphan /\ made = 1)
      /\ (calls # 0 => made = 2)
  BY <1>1 DEF IpcInv, Ipc!TypeOK, Progress, Transfer, InCall
<1>3. Ipc!TypeOK'
  BY <1>1 DEF IpcInv, Ipc!TypeOK, Ipc!Labels
<1>4. Numbers' /\ Descriptors'
  BY <1>1, <1>2 DEF IpcInv, Numbers, Descriptors, Ends, FoundPipe
<1>5. Progress' /\ Transfer'
  BY <1>1, <1>2 DEF IpcInv, Progress, Transfer, InCall
<1> QED
  BY <1>3, <1>4, <1>5 DEF IpcInv

(* The reader, which runs only while its parent is in the call or was       *)
(* killed in it.                                                            *)
LEMMA ReaderStep ==
  ASSUME IpcInv, Ipc!ChildStep
  PROVE  IpcInv'
<1> USE IpcSizes, NumberFacts
<1>1. /\ UNCHANGED << pc, table, rfd, wfd, made, sent, fdi, fdc, calls, ret, fresh, orphan >>
      /\ InCall \/ pc = "killed"
      /\ content \in [Ipc!Pipes -> 0..PipeMsgs] /\ seen \in 0..Msgs /\ got \in 0..Msgs /\ got <= seen
      /\ cpc # "none" /\ cpc' # "none"
  BY DEF Ipc!ChildStep, Ipc!ChildCloses, Ipc!ChildReads, Ipc!ChildExits, Ipc!perfVars, IpcInv, Progress,
         InCall, Ipc!TypeOK, Transfer
<1>2. Numbers' /\ Descriptors'
  BY <1>1 DEF IpcInv, Numbers, Descriptors, Ends, FoundPipe
<1>3. Progress'
  BY <1>1 DEF IpcInv, Progress, InCall
<1>4. SUFFICES Ipc!TypeOK' /\ Transfer'
  BY <1>2, <1>3 DEF IpcInv
<1>5. CASE Ipc!ChildCloses
  <2>1. /\ cpc = "shut" /\ cpc' = "read" /\ UNCHANGED << content, seen, got >>
        /\ ctable' \in [Ipc!Fds -> Ipc!Objects]
        /\ \A g \in Ipc!Fds : ctable'[g] = IF g = wfd THEN Ipc!Free ELSE ctable[g]
    BY <1>5, Closed DEF Ipc!ChildCloses
  <2>2. ctable'[rfd] = ctable[rfd] \/ pc \in {"init", "done"}
    BY <2>1
  <2>3. Ipc!TypeOK'
    BY <1>1, <2>1 DEF IpcInv, Ipc!TypeOK
  <2>4. Transfer'
    BY <1>1, <2>1, <2>2 DEF IpcInv, Transfer, InCall
  <2> QED
    BY <2>3, <2>4
<1>6. CASE Ipc!ChildExits
  <2>1. /\ cpc' = "dead" /\ UNCHANGED << content, seen, got >>
        /\ cpc = "end" \/ (cpc = "read" /\ seen = Msgs)
        /\ ctable' \in [Ipc!Fds -> Ipc!Objects]
    BY <1>6, ObjectKinds DEF Ipc!ChildExits, Ipc!ChildTarget
  <2>2. Ipc!TypeOK'
    BY <1>1, <2>1 DEF IpcInv, Ipc!TypeOK
  <2>3. Transfer'
    BY <1>1, <2>1 DEF IpcInv, Transfer, InCall
  <2> QED
    BY <2>2, <2>3
<1>7. CASE Ipc!ChildReads
  <2> DEFINE o == ctable[rfd]
  <2>1. /\ cpc = "read" /\ seen < Msgs /\ UNCHANGED ctable /\ o \in Ipc!Objects
        /\ o.kind = "r" => o.pipe \in Ipc!Pipes
    BY <1>7, ObjectKinds DEF Ipc!ChildReads, Ipc!ChildTarget, Ipc!Pipes
  <2>2. CASE o.kind = "r" /\ content[o.pipe] > 0
    <3>1. /\ content' = [content EXCEPT ![o.pipe] = @ - 1] /\ seen' = seen + 1 /\ got' = got + 1
          /\ cpc' = cpc
      BY <1>7, <2>2 DEF Ipc!ChildReads
    <3>2. /\ content' \in [Ipc!Pipes -> 0..PipeMsgs] /\ content'[o.pipe] = content[o.pipe] - 1
          /\ \A p \in Ipc!Pipes : p # o.pipe => content'[p] = content[p]
      BY <1>1, <2>1, <2>2, <3>1
    <3>3. Ipc!TypeOK'
      BY <1>1, <2>1, <3>1, <3>2 DEF IpcInv, Ipc!TypeOK
    <3>4. (InCall /\ fresh) => o.pipe = made
      BY <2>1, ObjectKinds DEF IpcInv, Transfer, Progress, InCall
    <3>5. content[2] = 0 => content'[2] = 0
      BY <1>1, <2>1, <2>2, <3>2 DEF Ipc!Pipes
    <3>6. (InCall /\ fresh) => content'[made] + got' = sent /\ seen' = got'
      BY <1>1, <2>1, <3>1, <3>2, <3>4 DEF IpcInv, Transfer, InCall, Ipc!TypeOK
    <3>7. Transfer'
      BY <1>1, <2>1, <3>1, <3>5, <3>6 DEF IpcInv, Transfer, InCall
    <3> QED
      BY <3>3, <3>7
  <2>3. CASE o.kind = "r" /\ content[o.pipe] = 0
    <3>1. cpc' = "end" /\ ~Ipc!Open(o.pipe, "w") /\ UNCHANGED << content, seen, got >>
      BY <1>7, <2>3 DEF Ipc!ChildReads
    <3>2. Ipc!TypeOK'
      BY <1>1, <2>1, <3>1 DEF IpcInv, Ipc!TypeOK
    <3>3. (InCall /\ fresh) => o.pipe = made /\ table[wfd] # Writing(made)
      BY <2>1, <3>1, ObjectKinds DEF IpcInv, Transfer, Progress, InCall, Ipc!Open, Writing
    <3>4. (InCall /\ fresh) => got = Msgs
      BY <1>1, <2>3, <3>3 DEF IpcInv, Transfer, Progress, Descriptors, FoundPipe, Ends, InCall, Ipc!TypeOK
    <3>5. Transfer'
      BY <1>1, <2>1, <3>1, <3>4 DEF IpcInv, Transfer, InCall
    <3> QED
      BY <3>2, <3>5
  <2>4. CASE o.kind # "r"
    <3>1. /\ UNCHANGED << content, got >> /\ seen' \in {seen, seen + 1} /\ cpc' \in {"read", "end"}
      BY <1>7, <2>1, <2>4 DEF Ipc!ChildReads
    <3>2. ~(InCall /\ fresh)
      BY <2>1, <2>4, ObjectKinds DEF IpcInv, Transfer, Progress, InCall, Ipc!TypeOK
    <3>3. Ipc!TypeOK'
      BY <1>1, <2>1, <3>1 DEF IpcInv, Ipc!TypeOK
    <3>4. Transfer'
      BY <1>1, <2>1, <3>1, <3>2 DEF IpcInv, Transfer, InCall
    <3> QED
      BY <3>3, <3>4
  <2>5. o.kind = "r" => content[o.pipe] > 0 \/ content[o.pipe] = 0
    BY <1>1, <2>1
  <2> QED
    BY <2>2, <2>3, <2>4, <2>5
<1> QED
  BY <1>5, <1>6, <1>7 DEF Ipc!ChildStep

(* The harness around a call.                                               *)
LEMMA HarnessStep ==
  ASSUME IpcInv, Ipc!CallMeasure \/ Ipc!StopPerf \/ Ipc!Cleanup
  PROVE  IpcInv'
<1> USE IpcSizes, NumberFacts
<1>1. /\ UNCHANGED << rfd, wfd, made, content, sent, ret, fresh, orphan, cpc, ctable, seen, got >>
      /\ wfd = rfd + 1 /\ rfd \in {0, 2} /\ calls \in Nat /\ cpc = "none" /\ got <= seen
  BY DEF Ipc!CallMeasure, Ipc!StopPerf, Ipc!Cleanup, Ipc!perfVars, Ipc!childVars, IpcInv, Ipc!TypeOK,
         Progress, Transfer
<1>2. CASE Ipc!CallMeasure
  <2>1. /\ pc = "call" /\ pc' = "fork" /\ calls' = calls + 1 /\ calls' \in 0..Calls /\ made = 2 /\ ret = 0
        /\ IF calls = 0 THEN Ends(Reading(2), Writing(2)) ELSE Ends(Ipc!Free, Ipc!Free)
    BY <1>1, <1>2 DEF Ipc!CallMeasure, IpcInv, Descriptors, Progress
  <2>2. calls = 0 => content[2] = 0
    BY DEF IpcInv, Transfer
  <2>3. Transfer'
    BY <1>1, <2>1, <2>2 DEF IpcInv, Transfer, InCall
  <2>4. CASE fdi' = -1 /\ fdc' = -1 /\ UNCHANGED table
    <3>1. Ipc!TypeOK'
      BY <1>1, <2>1, <2>4 DEF IpcInv, Ipc!TypeOK, Ipc!Labels
    <3>2. Numbers' /\ Descriptors'
      BY <1>1, <2>1, <2>4 DEF IpcInv, Numbers, Descriptors, Ends, FoundPipe
    <3>3. Progress'
      BY <1>1, <2>1, <2>4 DEF IpcInv, Progress, InCall
    <3> QED
      BY <2>3, <3>1, <3>2, <3>3 DEF IpcInv
  <2>5. CASE ~(fdi' = -1 /\ fdc' = -1 /\ UNCHANGED table)
    <3>1. /\ calls >= 2 /\ fdi' = Ipc!Lowest(table)
          /\ fdc' = Ipc!Lowest([table EXCEPT ![Ipc!Lowest(table)] = Ipc!Perf])
          /\ table' = [[table EXCEPT ![Ipc!Lowest(table)] = Ipc!Perf] EXCEPT ![fdc'] = Ipc!Perf]
      BY <1>2, <2>5 DEF Ipc!CallMeasure, Ipc!Discarded
    <3>2. table[rfd] = Ipc!Free /\ table[rfd + 1] = Ipc!Free
      BY <1>1, <2>1, <3>1 DEF Ends
    <3>3. \A f \in Ipc!Fds : f < rfd => table[f] # Ipc!Free
      BY <1>1, ObjectKinds DEF IpcInv, Numbers, Ipc!Fds
    <3>4. Ipc!Lowest(table) = rfd /\ Ipc!Lowest([table EXCEPT ![rfd] = Ipc!Perf]) = rfd + 1
      BY <1>1, <3>2, <3>3, ObjectKinds, TwoLowest, ZenonT(60)
    <3>5. /\ fdi' = rfd /\ fdc' = wfd
          /\ table' = [[table EXCEPT ![rfd] = Ipc!Perf] EXCEPT ![wfd] = Ipc!Perf]
      BY <1>1, <3>1, <3>4
    <3>6. /\ table' \in [Ipc!Fds -> Ipc!Objects] /\ table'[rfd] = Ipc!Perf /\ table'[wfd] = Ipc!Perf
          /\ \A f \in Ipc!Fds \ {rfd, wfd} : table'[f] = table[f]
      BY <3>5, ObjectKinds
    <3>7. Ipc!TypeOK'
      BY <1>1, <2>1, <3>5, <3>6 DEF IpcInv, Ipc!TypeOK, Ipc!Labels
    <3>8. Numbers'
      BY <1>1, <2>1, <3>6 DEF IpcInv, Numbers
    <3>9. Descriptors'
      BY <1>1, <2>1, <3>1, <3>6 DEF IpcInv, Descriptors, Ends, FoundPipe
    <3>10. Progress'
      BY <1>1, <2>1, <3>1, <3>5 DEF IpcInv, Progress, InCall
    <3> QED
      BY <2>3, <3>7, <3>8, <3>9, <3>10 DEF IpcInv
  <2> QED
    BY <2>4, <2>5
<1>3. CASE Ipc!StopPerf
  <2>1. /\ pc = "stop" /\ UNCHANGED << fdi, fdc, calls >> /\ calls > 0 /\ made = 2
        /\ (ret = 0 /\ pc' = "call") \/ pc' = "cleanup"
        /\ (fdi = -1 /\ fdc = -1) \/ (fdi = rfd /\ fdc = wfd)
        /\ ret = 0 => Ends(Ipc!Free, Ipc!Free)
    BY <1>3 DEF Ipc!StopPerf, Ipc!perfVars, IpcInv, Progress, Descriptors
  <2>2. /\ table' \in [Ipc!Fds -> Ipc!Objects]
        /\ \A g \in Ipc!Fds : table'[g] = IF g = fdi \/ g = fdc THEN Ipc!Free ELSE table[g]
    <3>1. fdi \in Ipc!Fds \cup {-1} /\ fdc \in Ipc!Fds \cup {-1}
      BY <2>1
    <3> DEFINE t == Ipc!Close(table, fdi)
    <3>2. t \in [Ipc!Fds -> Ipc!Objects] /\ \A g \in Ipc!Fds : t[g] = IF g = fdi THEN Ipc!Free ELSE table[g]
      BY <3>1, Closed
    <3>3. table' = Ipc!Close(t, fdc)
      BY <1>3 DEF Ipc!StopPerf
    <3> HIDE DEF t
    <3>4. /\ Ipc!Close(t, fdc) \in [Ipc!Fds -> Ipc!Objects]
          /\ \A g \in Ipc!Fds : Ipc!Close(t, fdc)[g] = IF g = fdc THEN Ipc!Free ELSE t[g]
      BY <3>1, <3>2, Closed
    <3> QED
      BY <3>2, <3>3, <3>4
  <2>3. Ipc!TypeOK'
    BY <1>1, <2>1, <2>2 DEF IpcInv, Ipc!TypeOK, Ipc!Labels
  <2>4. Numbers'
    <3>1. \A g \in Ipc!Fds \ {rfd, wfd} : table'[g] = table[g]
      BY <2>1, <2>2 DEF Ipc!Fds
    <3> QED
      BY <1>1, <2>1, <3>1 DEF IpcInv, Numbers
  <2>5. Descriptors'
    BY <1>1, <2>1, <2>2 DEF Descriptors, Ends
  <2>6. Progress' /\ Transfer'
    BY <1>1, <2>1 DEF IpcInv, Progress, Transfer, InCall
  <2> QED
    BY <2>3, <2>4, <2>5, <2>6 DEF IpcInv
<1>4. CASE Ipc!Cleanup
  <2>1. /\ pc = "cleanup" /\ pc' = "done" /\ UNCHANGED << fdi, fdc, calls >>
    BY <1>4 DEF Ipc!Cleanup, Ipc!perfVars
  <2>2. /\ table' \in [Ipc!Fds -> Ipc!Objects]
        /\ \A g \in Ipc!Fds : table'[g] = IF g = rfd \/ g = wfd THEN Ipc!Free ELSE table[g]
    <3> DEFINE t == Ipc!Close(table, rfd)
    <3>1. t \in [Ipc!Fds -> Ipc!Objects] /\ \A g \in Ipc!Fds : t[g] = IF g = rfd THEN Ipc!Free ELSE table[g]
      BY Closed
    <3>2. table' = Ipc!Close(t, wfd)
      BY <1>4 DEF Ipc!Cleanup
    <3> HIDE DEF t
    <3>3. /\ Ipc!Close(t, wfd) \in [Ipc!Fds -> Ipc!Objects]
          /\ \A g \in Ipc!Fds : Ipc!Close(t, wfd)[g] = IF g = wfd THEN Ipc!Free ELSE t[g]
      BY <3>1, Closed
    <3> QED
      BY <3>1, <3>2, <3>3
  <2>3. Ipc!TypeOK'
    BY <1>1, <2>1, <2>2 DEF IpcInv, Ipc!TypeOK, Ipc!Labels
  <2>4. Numbers'
    BY <1>1, <2>1, <2>2 DEF IpcInv, Numbers
  <2>5. Descriptors'
    BY <1>1, <2>1, <2>2 DEF Descriptors, Ends
  <2>6. Progress' /\ Transfer'
    BY <1>1, <2>1 DEF IpcInv, Progress, Transfer, InCall
  <2> QED
    BY <2>3, <2>4, <2>5, <2>6 DEF IpcInv
<1> QED
  BY <1>2, <1>3, <1>4

(* Every step of ipc_pipe keeps the account of its descriptors and          *)
(* messages.                                                                *)
LEMMA IpcStep == ASSUME IpcInv, Ipc!Next PROVE IpcInv'
<1>1. CASE Ipc!Over
  BY <1>1 DEF Ipc!Over, Ipc!vars, Ipc!perfVars, Ipc!childVars, IpcInv, Ipc!TypeOK, Numbers, Descriptors, Progress,
              Transfer, Ends, FoundPipe, InCall
<1> QED
  BY <1>1, PipeStep, ForkStep, CloseStep, WriteStep, WaitStep, ReaderStep, HarnessStep
  DEF Ipc!Next, Ipc!SelfStep

(* From that account: a call that found the pipe open moved every message,  *)
(* and after cleanup nothing is open but what warmup forgot (ipc_pipe.c:30, *)
(* 67-85).                                                                  *)
LEMMA IpcKeepsPromises ==
  ASSUME IpcInv
  PROVE  Ipc!FreshCallMoves /\ Ipc!EndsClean
<1>1. Ipc!FreshCallMoves
  BY DEF IpcInv, Transfer, Ipc!FreshCallMoves
<1>2. Ipc!EndsClean
  <2> SUFFICES ASSUME pc = "done", NEW f \in Ipc!Fds, table[f] # Ipc!Free
               PROVE  orphan /\ table[f].pipe = 1
    BY DEF Ipc!EndsClean
  <2>1. f \notin {rfd, wfd}
    BY DEF IpcInv, Descriptors, Ends
  <2>2. table[f] = IF f < rfd THEN (IF f = 0 THEN Reading(1) ELSE Writing(1)) ELSE Ipc!Free
    BY <2>1 DEF IpcInv, Numbers
  <2>3. f < rfd /\ table[f] \in {Reading(1), Writing(1)}
    BY <2>2
  <2>4. orphan
    BY <2>3 DEF IpcInv, Numbers, Ipc!Fds
  <2> QED
    BY <2>3, <2>4, ObjectKinds
<1> QED
  BY <1>1, <1>2


-----------------------------------------------------------------------------
(* All of them.                                                             *)

IoInv == bench \in Benches /\ ConnInv /\ StreamInv /\ IpcInv /\ FixtureInv

(* All of it holds before init.                                             *)
LEMMA IoInit == Init => IoInv
<1>1. Init => bench \in Benches /\ Fixture!Init
  BY DEF Init
<1> QED
  BY <1>1, ConnInit, StreamInit, IpcInit, FixtureInit DEF IoInv

(* What a benchmark has to keep it keeps while another one runs:            *)
(* net_conn_rate,                                                           *)
LEMMA ConnIdle ==
  ASSUME ConnInv, UNCHANGED connVars
  PROVE  ConnInv'
  BY DEF connVars, ConnInv, Conn!TypeOK, Conn!CountsOwnConnections, Conn!Conns

(* ipc_pipe,                                                                *)
LEMMA IpcIdle ==
  ASSUME IpcInv, UNCHANGED ipcVars
  PROVE  IpcInv'
  BY DEF ipcVars, IpcInv, Ipc!TypeOK, Numbers, Descriptors, Progress, Transfer, Ends, FoundPipe, InCall

(* the streams,                                                             *)
LEMMA StreamIdle ==
  ASSUME StreamInv, UNCHANGED << bench, streamVars >>
  PROVE  StreamInv'
<1> USE DEF streamVars
<1>1. Stage' = Stage /\ SKind' = SKind
  BY DEF Stage, SKind
<1>2. Stream!PerCall' = Stream!PerCall
  BY DEF Stream!PerCall
<1>3. Waiting' = Waiting /\ Drains' = Drains
  BY <1>1 DEF Waiting, Drains
<1>4. Stream!TypeOK'
  BY <1>1, <1>2 DEF StreamInv, Stream!TypeOK, SKind
<1>5. StreamShape' /\ (streamRet = -1 => script = << >>)'
  BY StageSame DEF StreamInv
<1>6. Traffic'
  BY <1>1 DEF StreamInv, Traffic
<1>7. Connection'
  BY <1>1, <1>2, <1>3 DEF StreamInv, Connection, Between, Unconnected, Refusal, Talking, Closing,
                           Stopping, Rejoined
<1> QED
  BY <1>4, <1>5, <1>6, <1>7 DEF StreamInv

(* and the fixtures.                                                        *)
LEMMA FixtureIdle ==
  ASSUME FixtureInv, UNCHANGED << bench, fixtureVars >>
  PROVE  FixtureInv'
<1> USE DEF FixtureInv, fixtureVars
<1>1. FKind' = FKind
  BY DEF FKind
<1>2. Fixture!TypeOK'
  BY DEF Fixture!TypeOK
<1>3. Scripted' /\ Owed' /\ OpenToClose'
  BY <1>1, SMTT(30) DEF Scripted, Owed, OpenToClose, Owes, OwesDir, Pending, Active, Togo, Set, OpAt, FileAt, Longest
<1>4. Counters' /\ Amounts'
  BY <1>1 DEF Counters, Amounts, Copies, InPass, Togo, OpAt, Fixture!At
<1>5. Opened' /\ EntriesApart' /\ SinceSet'
  BY DEF Opened, EntriesApart, SinceSet, Calm
<1>6. Made'
  BY <1>1 DEF Made, Calm, MadeBy, Set, Pending, Togo, OpAt, FileAt
<1>7. Filled'
  BY <1>1 DEF Filled, Filling, Calm, Pending, Togo, OpAt, FileAt, Fixture!At
<1>8. WholeSoFar'
  BY <1>1 DEF WholeSoFar, Undisturbed, SoFar, Togo, InLoop, Holds, InPass, Set
<1> QED
  BY <1>2, <1>3, <1>4, <1>5, <1>6, <1>7, <1>8

(* A step of the benchmark that runs keeps its own part and the others'.    *)
LEMMA IoStep == IoInv /\ [Next]_vars => IoInv'
<1>1. SUFFICES ASSUME IoInv, [Next]_vars PROVE IoInv'
  OBVIOUS
<1>2. CASE UNCHANGED vars
  BY <1>1, <1>2, ConnIdle, IpcIdle, StreamIdle, FixtureIdle DEF vars, IoInv
<1>3. CASE RunsIpc /\ Ipc!Next
  BY <1>1, <1>3, IpcStep, ConnIdle, StreamIdle, FixtureIdle DEF RunsIpc, IoInv
<1>4. CASE RunsConn /\ Conn!Next
  BY <1>1, <1>4, ConnStep, IpcIdle, StreamIdle, FixtureIdle DEF RunsConn, IoInv
<1>5. CASE RunsStream /\ Stream!Next
  BY <1>1, <1>5, StreamStep, IpcIdle, ConnIdle, FixtureIdle DEF RunsStream, IoInv
<1>6. CASE RunsFixture /\ Fixture!Next
  BY <1>1, <1>6, FixtureStep, IpcIdle, ConnIdle, StreamIdle DEF RunsFixture, IoInv
<1> QED
  BY <1>1, <1>2, <1>3, <1>4, <1>5, <1>6 DEF Next

(* So it always holds.                                                      *)
LEMMA AlwaysIoInv == Spec => []IoInv
  BY IoInit, IoStep, PTL DEF Spec

(* Every variable of every one of these benchmarks stays in its type: no    *)
(* step is forgotten by a script, no counter passes its bound, no message,  *)
(* connection, block or inode is more than there are.                       *)
THEOREM TypesStay == Spec => []TypeOK
<1>1. IoInv => TypeOK
  BY DEF IoInv, TypeOK, ConnInv, StreamInv, IpcInv, FixtureInv
<1> QED
  BY <1>1, AlwaysIoInv, PTL

(* Whatever fails and however the instances interleave: after cleanup no    *)
(* descriptor of ipc_pipe is open but the two that warmup forgot when fork  *)
(* failed (ipc_pipe.c:30, 81-85), and after the last instance no file, no   *)
(* directory and no descriptor of the file benchmarks is left               *)
(* (fs_copy.c:90-95, fs_meta.c:70-78 and their like).                       *)
THEOREM NothingIsLeftBehind == Spec => []EndsClean
<1>1. IoInv => EndsClean
  BY IpcKeepsPromises, NothingIsLeft DEF IoInv, FixtureInv, EndsClean
<1> QED
  BY <1>1, AlwaysIoInv, PTL

(* What a successful call reports has moved: the messages of a pipe found   *)
(* open, the connections of net_conn_rate, the bytes of a stream longer     *)
(* than its socket buffer, the echoes, the datagrams, and the whole files   *)
(* of an undisturbed measure (ipc_pipe.c:67-70, net_conn_rate.c:60-80,      *)
(* net_tcp.c:82-87, fs_seq_rw.c:82-86 and their like).                      *)
THEOREM ReportsAreTrue == ASSUME Buffer < NumMsgs PROVE Spec => []ReportsWhatMoved
<1>1. ConnInv => Conn!CountsOwnConnections
  BY DEF ConnInv
<1>2. FixtureInv => Fixture!ShortOnlyIfDisturbed
  BY ShortIsDisturbed DEF FixtureInv
<1>3. IoInv => ReportsWhatMoved
  BY <1>1, <1>2, IpcKeepsPromises, StreamReports DEF IoInv, ReportsWhatMoved
<1> QED
  BY <1>3, AlwaysIoInv, PTL
================================================================================
