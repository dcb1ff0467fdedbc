----------------------------- MODULE SharedFixture -----------------------------
(***************************************************************************)
(* The benchmarks that work on files of fixed names under /tmp: fs_copy.c,  *)
(* fs_fsync.c, fs_meta.c, fs_rand_rw.c, fs_seq_rw.c and fs_uring.c of       *)
(* src/benchmarks/io, script_python.c and script_shell.c of os.  All have   *)
(* num_threads = 1, so harness_run runs one instance per core at the same   *)
(* time (harness.c:726-737), and every instance makes, uses and removes the *)
(* SAME files.                                                              *)
(*                                                                          *)
(* A callback is the list of the system calls it makes.  The two files of   *)
(* an instance are "src" and "dst" (f_0 and f_1 of fs_meta); a file is an   *)
(* inode of so many blocks, which lives on without its name as long as it   *)
(* is open.  What warmup reads is left out, for nobody looks at it.         *)
(***************************************************************************)
EXTENDS Integers, Sequences, FiniteSets

CONSTANTS
  Instances,  (* the processes or threads that run the benchmark            *)
  Blocks,     (* FILE_SIZE / BLOCK_SIZE, NUM_OPS, NUM_FSYNCS, NUM_IOS, ITERS *)
  Passes,     (* COPY_PASSES                                                *)
  Calls,      (* bound: calls of measure                                    *)
  MaxFailed   (* bound: system calls that fail                              *)

FixtureAssumption ==
  /\ IsFiniteSet(Instances)
  /\ Blocks \in Nat \ {0} /\ Passes \in Nat \ {0} /\ Calls \in Nat \ {0}
  /\ MaxFailed \in Nat

Files == {"src", "dst"}

Ops == {"creat", "open", "need", "fill", "rewrite", "read", "pread", "copy", "close",
        "stat", "spawn", "unlink", "mkdir", "rmdir"}

None == 0
Inodes == 1..2 * (Cardinality(Instances) + 1)

VARIABLES
  kind,       (* the benchmark                                              *)
  phase,      (* the callback each instance called last                     *)
  script,     (* what it has left to do in it                               *)
  fd,         (* the inode it has open for each file                        *)
  n, off,     (* loop counter and offset of the step it is at               *)
  moved,      (* what the call has read, written, found or run              *)
  ret, calls,
  since,      (* history: who was set up when its measure began             *)
  entry,      (* the inode of each name                                     *)
  size,       (* of each inode                                              *)
  dir,        (* TEST_DIR exists                                            *)
  failed      (* history: calls that failed                                 *)

instVars == << kind, phase, script, fd, n, off, moved, ret, calls, since >>
diskVars == << entry, size, dir >>
vars == << instVars, diskVars, failed >>

-----------------------------------------------------------------------------
(* The callbacks.                                                           *)

Made  == << << "creat", "src" >>, << "fill", "src" >>, << "close", "src" >> >>

Gone_Stays == << >>
Gone  == << << "unlink", "src" >> >>

Peek  == << << "open", "src" >>, << "close", "src" >> >>

fs_copy ==
  LET copy == << << "open", "src" >>, << "creat", "dst" >>, << "copy", "dst" >>,
                 << "close", "src" >>, << "close", "dst" >> >>
  IN  [init    |-> << << "creat", "src" >>, << "need", "src" >>, << "fill", "src" >>,
                      << "close", "src" >> >>,
       warmup  |-> copy,
       measure |-> [j \in 1..5 * Passes |-> copy[((j - 1) % 5) + 1]],
       cleanup |-> << << "unlink", "src" >>, << "unlink", "dst" >> >>]

fs_fsync ==
  [init    |-> << >>,
   warmup  |-> << << "creat", "src" >>, << "rewrite", "src" >>, << "close", "src" >> >>,
   measure |-> << << "creat", "src" >>, << "need", "src" >>, << "rewrite", "src" >>,
                  << "close", "src" >> >>,
   cleanup |-> Gone]

fs_meta ==
  [init    |-> << << "mkdir", "src" >>, << "creat", "src" >>, << "close", "src" >>,
                  << "creat", "dst" >>, << "close", "dst" >> >>,
   warmup  |-> << >>,
   measure |-> << << "stat", "src" >>, << "stat", "dst" >> >>,
   cleanup |-> << << "unlink", "src" >>, << "unlink", "dst" >>, << "rmdir", "src" >> >>]

Preads == << << "open", "src" >>, << "need", "src" >>, << "pread", "src" >>,
             << "close", "src" >> >>

fs_rand_rw == [init |-> Made, warmup |-> Peek, measure |-> Preads, cleanup |-> Gone]

fs_uring == [init |-> Made, warmup |-> Peek, measure |-> Preads, cleanup |-> Gone]

fs_seq_rw ==
  [init    |-> Made,
   warmup  |-> Peek,
   measure |-> << << "open", "src" >>, << "read", "src" >>, << "close", "src" >> >>,
   cleanup |-> Gone]

script_python ==
  [init    |-> << << "creat", "src" >>, << "need", "src" >>, << "fill", "src" >>,
                  << "close", "src" >> >>,
   warmup  |-> << << "spawn", "src" >> >>,
   measure |-> << << "spawn", "src" >> >>,
   cleanup |-> Gone]

script_shell ==
  [init    |-> << << "creat", "src" >>, << "need", "src" >>, << "fill", "src" >>,
                  << "close", "src" >> >>,
   warmup  |-> << << "spawn", "src" >> >>,
   measure |-> << << "spawn", "src" >> >>,
   cleanup |-> Gone]

Callbacks == [k \in {"fs-copy", "fs-fsync", "fs-meta", "fs-rand-rw", "fs-seq-rw",
                     "fs-uring", "script-python", "script-shell"} |->
  CASE k = "fs-copy"       -> fs_copy
    [] k = "fs-fsync"      -> fs_fsync
    [] k = "fs-meta"       -> fs_meta
    [] k = "fs-rand-rw"    -> fs_rand_rw
    [] k = "fs-seq-rw"     -> fs_seq_rw
    [] k = "fs-uring"      -> fs_uring
    [] k = "script-python" -> script_python
    [] k = "script-shell"  -> script_shell]

Kinds == DOMAIN Callbacks

(* What a measure that nobody disturbs moves.                               *)
Whole == CASE kind = "fs-copy" -> Passes * Blocks
           [] kind = "fs-meta" -> 2
           [] OTHER            -> Blocks

TypeOK ==
  /\ kind \in Kinds
  /\ phase \in [Instances -> {"new", "init", "warmup", "measure", "cleanup", "over"}]
  /\ script \in [Instances -> Seq(Ops \X Files)]
  /\ fd \in [Instances -> [Files -> Inodes \cup {None}]]
  /\ n \in [Instances -> 0..Blocks] /\ off \in [Instances -> 0..Blocks]
  /\ moved \in [Instances -> 0..(Passes + 1) * Blocks]
  /\ ret \in [Instances -> {0, -1}] /\ calls \in [Instances -> 0..Calls]
  /\ since \in [Instances -> SUBSET Instances]
  /\ entry \in [Files -> Inodes \cup {None}] /\ size \in [Inodes -> 0..Blocks]
  /\ dir \in BOOLEAN /\ failed \in 0..MaxFailed

Init ==
  /\ kind \in Kinds
  /\ phase = [me \in Instances |-> "new"]
  /\ script = [me \in Instances |-> << >>]
  /\ fd = [me \in Instances |-> [f \in Files |-> None]]
  /\ n = [me \in Instances |-> 0] /\ off = [me \in Instances |-> 0]
  /\ moved = [me \in Instances |-> 0]
  /\ ret = [me \in Instances |-> 0] /\ calls = [me \in Instances |-> 0]
  /\ since = [me \in Instances |-> {}]
  /\ entry = [f \in Files |-> None] /\ size = [x \in Inodes |-> 0]
  /\ dir = FALSE /\ failed = 0

-----------------------------------------------------------------------------
(* The harness: init, warmup, measure some times, cleanup.  It cleans up    *)
(* after a measure that failed, and not after an init that did; no warmup   *)
(* of these fails.                                                          *)

Following(me) ==
  CASE phase[me] = "new"     -> {"init"}
    [] phase[me] = "init"    -> IF ret[me] = 0 THEN {"warmup"} ELSE {"over"}
    [] phase[me] = "warmup"  -> {"measure"}
    [] phase[me] = "measure" -> IF ret[me] = 0 THEN {"measure", "cleanup"} ELSE {"cleanup"}
    [] phase[me] = "cleanup" -> {"over"}
    [] OTHER                 -> {}

Ready(q) == phase[q] \in {"warmup", "measure"}

Call(me) ==
  /\ script[me] = << >>
  /\ \E p \in Following(me) :
       /\ phase' = [phase EXCEPT ![me] = p]
       /\ script' = [script EXCEPT ![me] = IF p = "over" THEN << >> ELSE Callbacks[kind][p]]
       /\ IF p = "measure"
          THEN /\ calls[me] < Calls /\ calls' = [calls EXCEPT ![me] = @ + 1]
               /\ since' = [since EXCEPT ![me] = {q \in Instances : Ready(q)}]
          ELSE UNCHANGED << calls, since >>
  /\ moved' = [moved EXCEPT ![me] = 0]
  /\ ret' = [ret EXCEPT ![me] = 0]
  /\ UNCHANGED << kind, fd, n, off, diskVars, failed >>

-----------------------------------------------------------------------------
At(me, op) == script[me] # << >> /\ Head(script[me])[1] = op

File(me) == Head(script[me])[2]

Handle(me) == fd[me][File(me)]

Advance(me) ==
  /\ script' = [script EXCEPT ![me] = Tail(@)]
  /\ n' = [n EXCEPT ![me] = 0] /\ off' = [off EXCEPT ![me] = 0]

Continue(me, step) ==
  /\ n' = [n EXCEPT ![me] = @ + 1] /\ off' = [off EXCEPT ![me] = @ + step]
  /\ script' = script

Move(me, more) == moved' = [moved EXCEPT ![me] = @ + more]

Fails == failed < MaxFailed /\ failed' = failed + 1

Grow(x, end) == size' = [size EXCEPT ![x] = IF end > @ THEN end ELSE @]

FreeInode ==
  CHOOSE x \in Inodes : \A f \in Files : entry[f] # x /\ \A q \in Instances : fd[q][f] # x

(* open(O_WRONLY | O_CREAT | O_TRUNC); the files of fs_meta are in TEST_DIR. *)
Creat(me) ==
  /\ At(me, "creat")
  /\ kind = "fs-meta" => dir
  /\ LET old == entry[File(me)]
         x   == IF old = None THEN FreeInode ELSE old
     IN  /\ entry' = [entry EXCEPT ![File(me)] = x]
         /\ size' = [size EXCEPT ![x] = 0]
         /\ fd' = [fd EXCEPT ![me][File(me)] = x]
  /\ Advance(me)
  /\ UNCHANGED << kind, phase, moved, ret, calls, since, dir, failed >>

Open(me) ==
  /\ At(me, "open")
  /\ fd' = [fd EXCEPT ![me][File(me)] = entry[File(me)]]
  /\ Advance(me)
  /\ UNCHANGED << kind, phase, moved, ret, calls, since, diskVars, failed >>

OpenFails(me) ==
  /\ At(me, "creat") \/ At(me, "open")
  /\ IF At(me, "creat") /\ kind = "fs-meta" /\ ~dir THEN failed' = failed ELSE Fails
  /\ Advance(me)
  /\ UNCHANGED << kind, phase, fd, moved, ret, calls, since, diskVars >>

(* if (fd < 0) return -1.                                                   *)
Need(me) ==
  /\ At(me, "need")
  /\ IF Handle(me) # None
     THEN Advance(me) /\ ret' = ret
     ELSE /\ script' = [script EXCEPT ![me] = << >>] /\ UNCHANGED << n, off >>
          /\ ret' = [ret EXCEPT ![me] = -1]
  /\ UNCHANGED << kind, phase, fd, moved, calls, since, diskVars, failed >>

Transfers == {"fill", "rewrite", "read", "pread", "copy"}

(* if (fd >= 0), around a loop.                                             *)
Skip(me) ==
  /\ \E op \in Transfers : At(me, op)
  /\ \/ Handle(me) = None
     \/ At(me, "copy") /\ fd[me]["src"] = None
  /\ Advance(me)
  /\ UNCHANGED << kind, phase, fd, moved, ret, calls, since, diskVars, failed >>

(* write, whose result nobody looks at.                                     *)
Fill(me) ==
  /\ At(me, "fill") /\ Handle(me) # None
  /\ IF n[me] = Blocks
     THEN Advance(me) /\ UNCHANGED << size, failed >>
     ELSE \/ /\ Grow(Handle(me), off[me] + 1) /\ Continue(me, 1)
             /\ failed' = failed
          \/ Fails /\ Continue(me, 0) /\ size' = size
  /\ UNCHANGED << kind, phase, fd, moved, ret, calls, since, entry, dir >>

(* lseek(fd, 0), write, fdatasync.                                          *)
Rewrite(me) ==
  /\ At(me, "rewrite") /\ Handle(me) # None
  /\ IF n[me] = Blocks
     THEN Advance(me) /\ UNCHANGED << moved, size, failed >>
     ELSE \/ /\ Grow(Handle(me), 1) /\ Continue(me, 0) /\ Move(me, 1)
             /\ failed' = failed
          \/ Fails /\ Continue(me, 0) /\ UNCHANGED << moved, size >>
  /\ UNCHANGED << kind, phase, fd, ret, calls, since, entry, dir >>

Read(me) ==
  /\ At(me, "read") /\ Handle(me) # None
  /\ IF off[me] >= size[Handle(me)]
     THEN Advance(me) /\ moved' = moved
     ELSE Continue(me, 1) /\ Move(me, 1)
  /\ UNCHANGED << kind, phase, fd, ret, calls, since, diskVars, failed >>

(* At an offset of init's choice.                                           *)
Pread(me) ==
  /\ At(me, "pread") /\ Handle(me) # None
  /\ IF n[me] = Blocks
     THEN Advance(me) /\ moved' = moved
     ELSE /\ Continue(me, 0)
          /\ \E o \in 0..Blocks-1 : Move(me, IF o < size[Handle(me)] THEN 1 ELSE 0)
  /\ UNCHANGED << kind, phase, fd, ret, calls, since, diskVars, failed >>

(* fs_copy counts what it read, written or not.                             *)
Copy(me) ==
  LET from == fd[me]["src"] IN
  /\ At(me, "copy") /\ Handle(me) # None /\ from # None
  /\ IF n[me] >= size[from]
     THEN Advance(me) /\ UNCHANGED << moved, size, failed >>
     ELSE /\ Move(me, 1)
          /\ \/ /\ Grow(Handle(me), off[me] + 1) /\ Continue(me, 1)
                /\ failed' = failed
             \/ Fails /\ Continue(me, 0) /\ size' = size
  /\ UNCHANGED << kind, phase, fd, ret, calls, since, entry, dir >>

Close(me) ==
  /\ At(me, "close")
  /\ fd' = [fd EXCEPT ![me][File(me)] = None]
  /\ Advance(me)
  /\ UNCHANGED << kind, phase, moved, ret, calls, since, diskVars, failed >>

Stat(me) ==
  /\ At(me, "stat")
  /\ Move(me, IF entry[File(me)] = None THEN 0 ELSE 1)
  /\ Advance(me)
  /\ UNCHANGED << kind, phase, fd, ret, calls, since, diskVars, failed >>

(* fork, exec, waitpid.  The code counts a run whenever the fork succeeds;  *)
(* moved counts those that found the whole script.                          *)
Spawn(me) ==
  /\ At(me, "spawn")
  /\ IF n[me] = Blocks
     THEN Advance(me) /\ UNCHANGED << moved, failed >>
     ELSE /\ Continue(me, 0)
          /\ \/ /\ failed' = failed
                /\ Move(me, IF entry["src"] # None /\ size[entry["src"]] = Blocks
                            THEN 1 ELSE 0)
             \/ Fails /\ moved' = moved
  /\ UNCHANGED << kind, phase, fd, ret, calls, since, diskVars >>

Unlink(me) ==
  /\ At(me, "unlink")
  /\ entry' = [entry EXCEPT ![File(me)] = None]
  /\ Advance(me)
  /\ UNCHANGED << kind, phase, fd, moved, ret, calls, since, size, dir, failed >>

Mkdir(me) ==
  /\ At(me, "mkdir")
  /\ \/ dir' = TRUE /\ failed' = failed
     \/ ~dir /\ Fails /\ dir' = dir
  /\ Advance(me)
  /\ UNCHANGED << kind, phase, fd, moved, ret, calls, since, entry, size >>

(* Only an empty directory goes.                                            *)
Rmdir(me) ==
  /\ At(me, "rmdir")
  /\ dir' = (dir /\ \E f \in Files : entry[f] # None)
  /\ Advance(me)
  /\ UNCHANGED << kind, phase, fd, moved, ret, calls, since, entry, size, failed >>

Step(me) ==
  \/ Call(me) \/ Creat(me) \/ Open(me) \/ OpenFails(me) \/ Need(me) \/ Skip(me)
  \/ Fill(me) \/ Rewrite(me) \/ Read(me) \/ Pread(me) \/ Copy(me) \/ Close(me)
  \/ Stat(me) \/ Spawn(me) \/ Unlink(me) \/ Mkdir(me) \/ Rmdir(me)

Next == \E me \in Instances : Step(me)

Spec == Init /\ [][Next]_vars

-----------------------------------------------------------------------------
(* When every instance is over nothing of the fixture is left under /tmp    *)
(* and nothing is open, whoever removed or remade whose files on the way    *)
(* and whatever failed.                                                     *)
NothingLeftBehind ==
  (\A me \in Instances : phase[me] = "over") =>
    /\ \A f \in Files : entry[f] = None
    /\ ~dir
    /\ \A me \in Instances, f \in Files : fd[me][f] = None

(* A measure that succeeded has worked on whole files, unless a system call *)
(* failed or another instance began to make the files or to remove them     *)
(* after this one had been set up.                                          *)
ShortOnlyIfDisturbed ==
  \A me \in Instances :
    /\ phase[me] = "measure" /\ script[me] = << >> /\ ret[me] = 0
    /\ failed = 0
    /\ \A q \in Instances \ {me} :
         \/ phase[q] = "new"
         \/ q \in since[me] /\ Ready(q)
    => moved[me] = Whole
=============================================================================
