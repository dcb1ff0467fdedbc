--------------------------------- MODULE Startup ---------------------------------
(***************************************************************************)
(* What is settled before the first benchmark runs: main.c arrives at a     *)
(* configuration (Config), system.c finds out about the machine             *)
(* (SystemProbe) and offers to fix its frequency (FrequencyLock), and       *)
(* harness.c turns the three settings about placement into CPUs and memory  *)
(* policies (Topology).  The four share the number of CPUs and nothing      *)
(* else, since Config knows every setting only as a value, and Topology the *)
(* nodes only by their CPUs; a behaviour is one of one of them.             *)
(***************************************************************************)
EXTENDS Integers, Sequences

CONSTANTS
  Values, Names, MaxFilter, Contents, ArgLists,     (* of Config            *)
  Ncpu, NumInstances, MaxPins,                      (* of Topology          *)
  Machines, PinSpecs, TopoSpecs, Membinds,
  Boxes, MaxNodes, MaxDistances, MaxLevels,         (* of SystemProbe       *)
  FreqCpus, Governors, Performance, Empty           (* of FrequencyLock     *)

VARIABLES
  part,
  args, env, fs, pc, path, parsed, next, settings, filter, flags,   (* Config *)
  machine, pin, topo, membind, tpc, nodes, phys, pins, numa,        (* Topology *)
  cpu, policy,
  box, ppc, probed, cpus, pnodes, nodeCount, caches, failed, overrun, (* SystemProbe *)
  gov, pinned, saved, count, fpc, fcpu, locks, found, kept       (* FrequencyLock *)

Conf  == INSTANCE Config WITH Cpus <- Ncpu
Place == INSTANCE Topology WITH pc <- tpc
Probe == INSTANCE SystemProbe WITH pc <- ppc, next <- probed, nodes <- pnodes
Freq  == INSTANCE FrequencyLock WITH Ncpu <- FreqCpus, pc <- fpc, cpu <- fcpu

ASSUME ConfigAssumption == Conf!ConfigAssumption
ASSUME TopologyAssumption == Place!TopologyAssumption
ASSUME ProbeAssumption == Probe!ProbeAssumption
ASSUME LockAssumption == Freq!LockAssumption

confVars  == << args, env, fs, pc, path, parsed, next, settings, filter, flags >>
placeVars == << machine, pin, topo, membind, tpc, nodes, phys, pins, numa, cpu, policy >>
probeVars == << box, ppc, probed, cpus, pnodes, nodeCount, caches, failed, overrun >>
freqVars  == << gov, pinned, saved, count, fpc, fcpu, locks, found, kept >>

TypeOK ==
  /\ part \in {"main", "harness", "probe", "governor"}
  /\ part = "main" => Conf!TypeOK
  /\ part = "harness" => Place!TypeOK
  /\ part = "probe" => Probe!TypeOK
  /\ part = "governor" => Freq!TypeOK

(* A part that does not run has no values.                                  *)
NoConf ==
  /\ args = "none" /\ env = "none" /\ fs = "none" /\ pc = "none" /\ path = "none"
  /\ parsed = "none" /\ next = "none" /\ settings = "none" /\ filter = "none"
  /\ flags = "none"

NoPlace ==
  /\ machine = "none" /\ pin = "none" /\ topo = "none" /\ membind = "none"
  /\ tpc = "none" /\ nodes = "none" /\ phys = "none" /\ pins = "none" /\ numa = "none"
  /\ cpu = "none" /\ policy = "none"

NoProbe ==
  /\ box = "none" /\ ppc = "none" /\ probed = "none" /\ cpus = "none" /\ pnodes = "none"
  /\ nodeCount = "none" /\ caches = "none" /\ failed = "none" /\ overrun = "none"

NoFreq ==
  /\ gov = "none" /\ pinned = "none" /\ saved = "none" /\ count = "none" /\ fpc = "none"
  /\ fcpu = "none" /\ locks = "none" /\ found = "none" /\ kept = "none"

Init ==
  \/ part = "main" /\ Conf!Init /\ NoPlace /\ NoProbe /\ NoFreq
  \/ part = "harness" /\ Place!Init /\ NoConf /\ NoProbe /\ NoFreq
  \/ part = "probe" /\ Probe!Init /\ NoConf /\ NoPlace /\ NoFreq
  \/ part = "governor" /\ Freq!Init /\ NoConf /\ NoPlace /\ NoProbe

Next ==
  \/ part = "main" /\ Conf!Next /\ UNCHANGED << part, placeVars, probeVars, freqVars >>
  \/ part = "harness" /\ Place!Next /\ UNCHANGED << part, confVars, probeVars, freqVars >>
  \/ part = "probe" /\ Probe!Next /\ UNCHANGED << part, confVars, placeVars, freqVars >>
  \/ part = "governor" /\ Freq!Next /\ UNCHANGED << part, confVars, placeVars, probeVars >>

vars == << part, confVars, placeVars, probeVars, freqVars >>

Spec == Init /\ [][Next]_vars

-----------------------------------------------------------------------------
(* CLI arguments override config file settings (default.cfg:5), the file    *)
(* overrides the defaults, the last of several wins, and no value at all or *)
(* a value that is not positive means one instance per CPU; the filter      *)
(* holds the first names of the file and then of the arguments, and never   *)
(* more than its array takes (main.c:56-135, 196-303).                      *)
Precedence == part = "main" => Conf!Precedence /\ Conf!FilterInOrder

(* --cpu-pin auto means physical cores (README.md:51): no core gets a       *)
(* second instance before every core has one; a list is used in turn        *)
(* (harness.c:340-385, 491-502).                                            *)
InstancesApart == part = "harness" => Place!InstancesApart

(* The two parses of one --numa-topo agree: an instance gets its memory     *)
(* from the node that the rebuilt topology shows its CPU in                 *)
(* (harness.c:425-434, 508-538 and 632-696).                                *)
MemoryWhereShown == part = "harness" => Place!MemoryWhereShown

(* What --list-topology prints is the machine's as far as it could be read, *)
(* and a default where it could not, from one allocation to the next        *)
(* (system.c:28-330, main.c:247-274).                                       *)
ProbeShowsMachine == part = "probe" => Probe!ProbeShowsMachine

(* Restoring the frequency undoes one call of lock on every CPU that could  *)
(* be read and written (system.c:346-415).                                  *)
RestoreUndoesLock == part = "governor" => Freq!RestoreUndoesLock
=============================================================================
