----------------------------- MODULE FrequencyLock -----------------------------
(***************************************************************************)
(* system_lock_frequency, system_lock_frequency_peak and                    *)
(* system_restore_frequency of src/core/system.c: the governor of every CPU *)
(* is remembered in a static table and replaced by performance, then the    *)
(* lowest frequency is raised to the highest; restoring writes the table    *)
(* back, and leaves the frequencies.  A caller may call them in any order.  *)
(*                                                                          *)
(* Each file of sysfs may be absent, unreadable or refuse what is written,  *)
(* anew at every access; what fclose reports is not looked at.  While the   *)
(* frequency is not locked other programs may set a governor too.           *)
(***************************************************************************)
EXTENDS Integers

CONSTANTS
  Ncpu,        (* sysconf(_SC_NPROCESSORS_CONF), if it is in 1..4096        *)
  Governors,   (* the governors of the kernel                               *)
  Performance, (* the one that lock writes                                  *)
  Empty        (* an entry of the table that nothing was written to         *)

LockAssumption ==
  /\ Ncpu \in Nat \ {0}
  /\ Performance \in Governors
  /\ Empty \notin Governors

Cpus == 0..Ncpu - 1

VARIABLES
  gov,         (* scaling_governor of each CPU                              *)
  pinned,      (* the CPUs whose scaling_min_freq was raised                *)
  saved,       (* _saved_governors                                          *)
  count,       (* _saved_governor_count                                     *)
  pc, cpu,     (* the loop that runs, "idle" between calls, and its index   *)
  locks,       (* calls of lock since the last restore: 0, 1 or 2 for more  *)
  found,       (* the governors when the first of them, or restore, began   *)
  kept         (* the CPUs no read of or restore to which failed since then *)

table == << saved, count >>
history == << locks, found, kept >>
vars == << gov, pinned, table, pc, cpu, history >>

TypeOK ==
  /\ gov \in [Cpus -> Governors]
  /\ pinned \subseteq Cpus
  /\ saved \in [Cpus -> Governors \cup {Empty}]
  /\ count \in 0..Ncpu
  /\ pc \in {"idle", "lock", "pin", "restore"}
  /\ cpu \in 0..Ncpu
  /\ locks \in 0..2
  /\ found \in [Cpus -> Governors]
  /\ kept \subseteq Cpus

Init ==
  /\ gov \in [Cpus -> Governors]
  /\ pinned = {}
  /\ saved = [c \in Cpus |-> Empty]
  /\ count = 0
  /\ pc = "idle" /\ cpu = 0
  /\ locks = 0 /\ found = gov /\ kept = {}

-----------------------------------------------------------------------------
(* Another program sets a governor.                                         *)
SetGovernor ==
  /\ pc = "idle" /\ locks = 0
  /\ \E c \in Cpus, g \in Governors : gov' = [gov EXCEPT ![c] = g]
  /\ UNCHANGED << pinned, table, pc, cpu, history >>

(* What a call finds, unless the frequency is locked already.               *)
Begin ==
  IF locks = 0 THEN found' = gov /\ kept' = Cpus ELSE UNCHANGED << found, kept >>

(* The table is not cleared, only its count.                                *)
Lock ==
  /\ pc = "idle"
  /\ pc' = "lock" /\ cpu' = 0
  /\ count' = 0
  /\ locks' = IF locks = 0 THEN 1 ELSE 2
  /\ Begin
  /\ UNCHANGED << gov, pinned, saved >>

(* What the table holds for a CPU when its governor could be read, or not.  *)
Remembered(read) == IF read THEN gov[cpu] ELSE saved[cpu]

(* A CPU whose governor opens for writing is counted, whatever the write    *)
(* did.                                                                     *)
LockCpu ==
  /\ pc = "lock"
  /\ cpu < Ncpu
  /\ \E read, written \in BOOLEAN :
       /\ saved' = [saved EXCEPT ![cpu] = Remembered(read)]
       /\ gov' = IF written THEN [gov EXCEPT ![cpu] = Performance] ELSE gov
       /\ kept' = IF read THEN kept ELSE kept \ {cpu}
  /\ count' = count + 1
  /\ cpu' = cpu + 1
  /\ UNCHANGED << pinned, pc, locks, found >>

(* The first CPU that does not open for writing ends the loop.              *)
LockStops ==
  /\ pc = "lock"
  /\ IF cpu < Ncpu
     THEN \E read \in BOOLEAN : saved' = [saved EXCEPT ![cpu] = Remembered(read)]
     ELSE UNCHANGED saved
  /\ pc' = "pin" /\ cpu' = 0
  /\ UNCHANGED << gov, pinned, count, history >>

(* scaling_min_freq = scaling_max_freq, for every CPU there is.             *)
PinCpu ==
  /\ pc = "pin"
  /\ IF cpu < Ncpu
     THEN pinned' \in {pinned, pinned \cup {cpu}} /\ cpu' = cpu + 1 /\ pc' = pc
     ELSE pinned' = pinned /\ cpu' = 0 /\ pc' = "idle"
  /\ UNCHANGED << gov, table, history >>

Restore ==
  /\ pc = "idle"
  /\ pc' = "restore" /\ cpu' = 0
  /\ Begin
  /\ UNCHANGED << gov, pinned, table, locks >>

(* An empty entry is passed over.                                           *)
RestoreCpu ==
  /\ pc = "restore"
  /\ cpu < count
  /\ \/ saved[cpu] # Empty /\ gov' = [gov EXCEPT ![cpu] = saved[cpu]] /\ kept' = kept
     \/ gov' = gov /\ kept' = kept \ {cpu}
  /\ cpu' = cpu + 1
  /\ UNCHANGED << pinned, table, pc, locks, found >>

RestoreEnds_KeepsCount ==
  /\ pc = "restore"
  /\ cpu = count
  /\ locks' = 0
  /\ pc' = "idle" /\ cpu' = 0
  /\ UNCHANGED << gov, pinned, table, found, kept >>

RestoreEnds ==
  /\ pc = "restore"
  /\ cpu = count
  /\ count' = 0
  /\ locks' = 0
  /\ pc' = "idle" /\ cpu' = 0
  /\ UNCHANGED << gov, pinned, saved, found, kept >>

Next ==
  \/ SetGovernor
  \/ Lock \/ LockCpu \/ LockStops \/ PinCpu
  \/ Restore \/ RestoreCpu \/ RestoreEnds

Spec == Init /\ [][Next]_vars

-----------------------------------------------------------------------------
(* A restore puts back the governor that each CPU had before the lock, if   *)
(* there was one call of lock and no access to that CPU failed, and changes *)
(* none if there was no lock.  After two calls of lock a CPU may stay in    *)
(* performance, but no governor of an earlier lock comes back               *)
(* (system.c:354-377, 403-415).                                             *)
RestoreUndoesLock ==
  pc = "restore" /\ cpu = count =>
    \A c \in kept : gov[c] = found[c] \/ (locks = 2 /\ gov[c] = Performance)
=============================================================================
