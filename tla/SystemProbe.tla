------------------------------ MODULE SystemProbe ------------------------------
(***************************************************************************)
(* system_probe of src/core/system.c and --list-topology of main.c, which   *)
(* prints what it found: the CPUs and their threads, the NUMA nodes and the *)
(* levels of cache, each counted in sysfs up to the first number that is    *)
(* missing and then read one by one, with defaults for what is not there.   *)
(*                                                                          *)
(* Every file may fail to be read, anew at every access, and every array to *)
(* be allocated.  Names, frequencies and sizes of memory are left out, and  *)
(* so is what distances written past their array overwrite.                 *)
(***************************************************************************)
EXTENDS Integers, Sequences, FiniteSets, FiniteSetsExt

CONSTANTS
  Boxes,          (* machines: how many CPUs are online and configured, the
                     sibling list of CPU 0 as CPUs << c >> and ranges
                     << a, b >>, the number of CPUs of each node, and the
                     levels of cache                                        *)
  MaxNodes,       (* 64                                                     *)
  MaxDistances,   (* the distances a numa_node_t has room for: 16           *)
  MaxLevels       (* 8                                                      *)

(* The CPUs of one part of a sibling list.                                  *)
Numbers(part) == IF Len(part) = 2 THEN part[1]..part[2] ELSE {part[1]}

(* The kernel writes no CPU twice, and no range that could be a CPU.        *)
SiblingList(list) ==
  /\ list \in Seq([1..1 -> Nat] \cup [1..2 -> Nat]) /\ list # << >>
  /\ \A j \in DOMAIN list : Len(list[j]) = 2 => list[j][1] < list[j][2]
  /\ \A j, k \in DOMAIN list : j < k => \A a \in Numbers(list[j]), b \in Numbers(list[k]) : a < b

ProbeAssumption ==
  /\ MaxNodes \in Nat \ {0} /\ MaxDistances \in Nat /\ MaxLevels \in Nat \ {0}
  /\ \A b \in Boxes : /\ b.online \in Nat \ {0}
                      /\ b.configured \in Nat /\ b.configured >= b.online
                      /\ SiblingList(b.siblings) /\ b.levels \subseteq Nat
                      /\ \A n \in DOMAIN b.nodes : n \in Nat /\ b.nodes[n] \in Nat

VARIABLES
  box,            (* the machine                                            *)
  pc, next,       (* the step of the probe and the index of its loop        *)
  cpus,           (* cpu_cores_physical, cpu_threads_logical,
                     smt_siblings_per_core                                  *)
  nodes,          (* numa_nodes: the CPUs counted on each, node n at n + 1  *)
  nodeCount,
  caches,         (* what is known of each level, from sysfs or by default  *)
  failed,         (* allocations that failed                                *)
  overrun         (* distances were written past their array                *)

found == << cpus, nodes, nodeCount, caches >>
vars == << box, pc, next, found, failed, overrun >>

Labels == {"cpus", "count-nodes", "nodes", "no-nodes", "count-caches", "caches",
           "no-caches", "show", "end", "crashed"}

TypeOK ==
  /\ box \in Boxes
  /\ pc \in Labels
  /\ next \in Nat
  /\ cpus \in [physical : Nat, logical : Nat, perCore : Nat]
  /\ nodes \in Seq(Nat) /\ nodeCount \in 0..MaxNodes
  /\ caches \in Seq({"sysfs", "default", "unset"})
  /\ failed \in 0..4 /\ overrun \in BOOLEAN

Init ==
  /\ box \in Boxes
  /\ pc = "cpus" /\ next = 0
  /\ cpus = [physical |-> 0, logical |-> 0, perCore |-> 1]
  /\ nodes = << >> /\ nodeCount = 0 /\ caches = << >>
  /\ failed = 0 /\ overrun = FALSE

(* How many numbers, from 0, are there without a gap.                       *)
Leading(numbers, limit) == Min({limit} \cup {n \in 0..limit : n \notin numbers})

Blank(n) == [j \in 1..n |-> 0]

-----------------------------------------------------------------------------
NoRoom ==
  /\ pc = "cpus"
  /\ failed' = failed + 1 /\ pc' = "end"
  /\ UNCHANGED << box, next, found, overrun >>

(* A range is looked for at the start of the list only; otherwise the       *)
(* commas count.                                                            *)
SiblingCount(list) ==
  IF Len(list[1]) = 2 THEN list[1][2] - list[1][1] + 1 ELSE Len(list)

ProbeCpus ==
  /\ pc = "cpus"
  /\ \E count \in {1, SiblingCount(box.siblings)} :
       cpus' = [physical |-> box.online,
                logical  |-> IF count > 1 THEN box.configured ELSE box.online,
                perCore  |-> count]
  /\ pc' = "count-nodes"
  /\ UNCHANGED << box, next, nodes, nodeCount, caches, failed, overrun >>

CountNodes_BeforeAllocating ==
  LET max == Leading(DOMAIN box.nodes, MaxNodes)
  IN  /\ pc = "count-nodes"
      /\ pc' = IF max = 0 THEN "no-nodes" ELSE "nodes"
      /\ nodeCount' = max
      /\ \/ nodes' = Blank(max) /\ failed' = failed
         \/ max > 0 /\ nodes' = << >> /\ failed' = failed + 1
      /\ UNCHANGED << box, next, cpus, caches, overrun >>

CountNodes ==
  LET max == Leading(DOMAIN box.nodes, MaxNodes)
  IN  /\ pc = "count-nodes"
      /\ \/ /\ max > 0 /\ pc' = "nodes"
            /\ nodes' = Blank(max) /\ nodeCount' = max /\ failed' = failed
         \/ /\ pc' = "no-nodes" /\ failed' = IF max > 0 THEN failed + 1 ELSE failed
            /\ UNCHANGED << nodes, nodeCount >>
      /\ UNCHANGED << box, next, cpus, caches, overrun >>

(* Without a distance file as many distances are made up as there are       *)
(* nodes.                                                                   *)
ReadNode ==
  /\ pc = "nodes" /\ next < nodeCount
  /\ \E map, distance \in BOOLEAN :
       /\ nodes' = IF map /\ nodes # << >>
                   THEN [nodes EXCEPT ![next + 1] = box.nodes[next]] ELSE nodes
       /\ overrun' = (overrun \/ (~distance /\ nodeCount > MaxDistances))
  /\ next' = next + 1
  /\ UNCHANGED << box, pc, cpus, nodeCount, caches, failed >>

NodesRead ==
  /\ pc = "nodes" /\ next = nodeCount
  /\ pc' = "count-caches" /\ next' = 0
  /\ UNCHANGED << box, found, failed, overrun >>

(* One node with every CPU; it counts even when there is no room for it.    *)
SingleNode ==
  /\ pc = "no-nodes"
  /\ nodeCount' = 1
  /\ \/ nodes' = << cpus.logical >> /\ failed' = failed
     \/ nodes' = << >> /\ failed' = failed + 1
  /\ pc' = "count-caches"
  /\ UNCHANGED << box, next, cpus, caches, overrun >>

-----------------------------------------------------------------------------
CountCaches ==
  /\ pc = "count-caches"
  /\ LET max == Leading(box.levels, MaxLevels)
     IN  \/ /\ max > 0 /\ pc' = "caches"
            /\ caches' = [j \in 1..max |-> "unset"] /\ failed' = failed
         \/ /\ pc' = "no-caches" /\ failed' = IF max > 0 THEN failed + 1 ELSE failed
            /\ UNCHANGED caches
  /\ UNCHANGED << box, next, cpus, nodes, nodeCount, overrun >>

(* The level counts whether or not its files can be read.                   *)
ReadCache ==
  /\ pc = "caches" /\ next < Len(caches)
  /\ \E what \in {"sysfs", "unset"} : caches' = [caches EXCEPT ![next + 1] = what]
  /\ next' = next + 1
  /\ UNCHANGED << box, pc, cpus, nodes, nodeCount, failed, overrun >>

CachesRead ==
  /\ pc = "caches" /\ next = Len(caches)
  /\ pc' = "show" /\ next' = 0
  /\ UNCHANGED << box, found, failed, overrun >>

(* The room for the three defaults is taken for granted.                    *)
DefaultCaches ==
  /\ pc = "no-caches"
  /\ \/ /\ caches' = << "default", "default", "default" >>
        /\ pc' = "show" /\ failed' = failed
     \/ caches' = caches /\ pc' = "crashed" /\ failed' = failed + 1
  /\ UNCHANGED << box, next, cpus, nodes, nodeCount, overrun >>

(* main prints as many nodes as there are said to be.                       *)
Show ==
  /\ pc = "show"
  /\ pc' = IF nodeCount <= Len(nodes) THEN "end" ELSE "crashed"
  /\ UNCHANGED << box, next, found, failed, overrun >>

Finished == pc \in {"end", "crashed"} /\ UNCHANGED vars

Next ==
  \/ NoRoom \/ ProbeCpus
  \/ CountNodes \/ ReadNode \/ NodesRead \/ SingleNode
  \/ CountCaches \/ ReadCache \/ CachesRead \/ DefaultCaches
  \/ Show \/ Finished

-----------------------------------------------------------------------------
Named(list) == UNION {Numbers(list[j]) : j \in DOMAIN list}

(* SMT is not seen where it is not, and seen where it is unless the sibling *)
(* list could not be read; the siblings per core may be too few but never   *)
(* too many (system.c:41-61).                                               *)
ThreadsOfACore ==
  pc \notin {"cpus", "end", "crashed"} =>
    /\ cpus.perCore <= Cardinality(Named(box.siblings))
    /\ cpus.perCore > 1 => cpus.logical >= cpus.physical
    /\ SiblingCount(box.siblings) = 1 => Cardinality(Named(box.siblings)) = 1

(* The nodes shown are the machine's, from node 0 on, with their CPUs or    *)
(* none, and all of them where the numbers have no gap; or there is one     *)
(* node with every CPU, and then sysfs has no node 0 or memory was short    *)
(* (system.c:179-268).                                                      *)
NodesOfTheMachine ==
  pc = "show" /\ nodes # << >> =>
    \/ /\ \A j \in DOMAIN nodes : j - 1 \in DOMAIN box.nodes /\ nodes[j] \in {0, box.nodes[j - 1]}
       /\ Len(nodes) = MaxNodes \/ Len(nodes) \notin DOMAIN box.nodes
    \/ nodes = << cpus.logical >> /\ (0 \notin DOMAIN box.nodes \/ failed > 0)

(* An allocation that fails is made up for by a default: one failure alone  *)
(* ends the program only where sysfs has no nodes or no caches at all, and  *)
(* the default is the first attempt (system.c:192-268, 279-327).            *)
SecondFailureCrashes ==
  pc = "crashed" => failed >= IF 0 \in DOMAIN box.nodes /\ 0 \in box.levels THEN 2 ELSE 1

ProbeShowsMachine ==
  ThreadsOfACore /\ (~overrun => NodesOfTheMachine /\ SecondFailureCrashes)
=============================================================================
