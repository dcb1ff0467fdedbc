------------------------------- MODULE Topology -------------------------------
(***************************************************************************)
(* Where harness.c puts the instances of a benchmark: the CPU specification *)
(* (harness_parse_cpu_spec), the NUMA override (harness_parse_numa_bind and *)
(* the part of harness_run that rebuilds sysinfo->numa_nodes), the physical *)
(* cores (harness_get_physical_cores), and what harness_run_parallel makes  *)
(* of them: the CPU each child is pinned to and its memory policy.          *)
(*                                                                          *)
(* A specification is given parsed into its parts: a CPU << c >> or a range *)
(* << a, b >> of non-negative numbers; the file and the inline form of the  *)
(* override are parsed by the same loop.  CPUs are numbered 0..Ncpu-1 as    *)
(* the code assumes, and memory is never short.                             *)
(***************************************************************************)
EXTENDS Integers, Sequences, FiniteSets, SequencesExt, FiniteSetsExt

CONSTANTS
  Ncpu,          (* sysconf(_SC_NPROCESSORS_ONLN)                           *)
  NumInstances,  (* num_instances                                           *)
  MaxPins,       (* 512                                                     *)
  Machines,      (* core and node of each CPU, lists that cannot be read    *)
  PinSpecs,      (* --cpu-pin                                               *)
  TopoSpecs,     (* --numa-topo                                             *)
  Membinds       (* --membind                                               *)

Unset == -1
LocalNode == -1
Striped == -2

(* The nodes a mask has a bit for, which are all there are: ~0UL.           *)
AllNodes == 0..63

(* A CPU, or a range of them.                                               *)
Parts == [1..1 -> Nat] \cup [1..2 -> Nat]

Cpus == 0..Ncpu-1
Insts == 0..NumInstances-1

TopologyAssumption ==
  /\ Ncpu \in Nat \ {0} /\ NumInstances \in Nat \ {0} /\ MaxPins \in Nat \ {0}
  /\ \A m \in Machines : /\ m.core \in [Cpus -> Nat] /\ m.unreadable \subseteq Cpus
                         /\ m.nodes \in Seq(SUBSET Cpus) /\ m.nodes # << >>
  /\ \A s \in PinSpecs : /\ s.mode \in {"auto", "auto-all", "auto-numa", "list"}
                         /\ s.mode = "list" => s.parts \in Seq(Parts)
  /\ \A s \in TopoSpecs : /\ s.mode \in {"none", "split", "list"}
                          /\ s.mode = "split" => s.n \in 1..16
                          /\ s.mode = "list" =>
                               s.parts \in Seq([cpus : Parts, node : AllNodes])
  /\ Membinds \subseteq {LocalNode, Striped} \cup AllNodes

VARIABLES
  machine, pin, topo, membind,    (* what the machine is, what was asked for *)
  pc,
  nodes,      (* sysinfo->numa_nodes                                        *)
  phys,       (* s_phys_map and s_num_phys                                  *)
  pins,       (* s_manual_pins                                              *)
  numa,       (* s_cpu_to_numa                                              *)
  cpu,        (* the CPU each child is pinned to                            *)
  policy      (* its memory policy                                          *)

inputs == << machine, pin, topo, membind >>
statics == << phys, pins, numa >>
vars == << inputs, pc, nodes, statics, cpu, policy >>

-----------------------------------------------------------------------------
(* Parsing.                                                                 *)

Upto(a, b) == [j \in 1..(IF a <= b THEN b - a + 1 ELSE 0) |-> a + j - 1]

(* The CPUs of one part; what does not exist is left out.                   *)
Expand(part) ==
  IF Len(part) = 2
  THEN Upto(part[1], IF part[2] < Ncpu THEN part[2] ELSE Ncpu - 1)
  ELSE IF part[1] < Ncpu THEN part ELSE << >>

Prefix(s) == SubSeq(s, 1, IF Len(s) < MaxPins THEN Len(s) ELSE MaxPins)

harness_parse_cpu_spec(spec) ==
  CASE spec.mode = "auto"      -> << >>
    [] spec.mode = "auto-all"  -> Upto(0, Ncpu - 1)
    [] spec.mode = "auto-numa" ->
         FlattenSeq([j \in DOMAIN machine.nodes |->
                       IF machine.nodes[j] = {} THEN << >> ELSE << Min(machine.nodes[j]) >>])
    [] spec.mode = "list"      ->
         Prefix(FlattenSeq([j \in DOMAIN spec.parts |-> Expand(spec.parts[j])]))

NoNode == [c \in Cpus |-> Unset]

(* The last part that names a CPU says where it is.                         *)
Naming(parts, c) == {j \in DOMAIN parts : c \in ToSet(Expand(parts[j].cpus))}

harness_parse_numa_bind(spec) ==
  CASE spec.mode = "none"  -> NoNode
    [] spec.mode = "split" -> [c \in Cpus |-> c % spec.n]
    [] spec.mode = "list"  ->
         [c \in Cpus |-> IF Naming(spec.parts, c) = {} THEN Unset
                         ELSE spec.parts[Max(Naming(spec.parts, c))].node]

(* thread_siblings_list; empty if the file cannot be read.                  *)
Siblings(c) ==
  IF c \in machine.unreadable THEN {} ELSE {s \in Cpus : machine.core[s] = machine.core[c]}

Nothing == [map |-> [c \in Cpus |-> 0], seen |-> {}, num |-> 0]

(* CPU c and its siblings are the next core.                                *)
Claim(acc, c) ==
  LET mine == {c} \cup Siblings(c)
  IN  [map  |-> [s \in Cpus |-> IF s \in mine THEN acc.num ELSE acc.map[s]],
       seen |-> acc.seen \cup mine,
       num  |-> acc.num + 1]

Scan_Unseen[k \in 0..Ncpu] == IF k = 0 THEN Nothing ELSE Claim(Scan_Unseen[k - 1], k - 1)

harness_get_physical_cores_Unseen == Scan_Unseen[Ncpu]

(* phys_map, seen and phys_id when k CPUs have been looked at.              *)
Scan[k \in 0..Ncpu] ==
  IF k = 0 THEN Nothing
  ELSE LET acc == Scan[k - 1] IN IF k - 1 \in acc.seen THEN acc ELSE Claim(acc, k - 1)

harness_get_physical_cores == Scan[Ncpu]

-----------------------------------------------------------------------------
Detected == [j \in DOMAIN machine.nodes |-> [cpus |-> machine.nodes[j], detected |-> TRUE]]

TypeOK ==
  /\ machine \in Machines /\ pin \in PinSpecs /\ topo \in TopoSpecs /\ membind \in Membinds
  /\ pc \in {"probe", "setup", "fork", "over"}
  /\ nodes \in Seq([cpus : SUBSET Cpus, detected : BOOLEAN])
  /\ phys \in [map : [Cpus -> Nat], seen : SUBSET Cpus, num : Nat]
  /\ pins \in Seq(Cpus) /\ numa \in [Cpus -> AllNodes \cup {Unset}]
  /\ cpu \in Seq(Nat) /\ policy \in Seq([mode : {"default", "bind", "interleave"},
                                         mask : SUBSET AllNodes])

Init ==
  /\ machine \in Machines /\ pin \in PinSpecs /\ topo \in TopoSpecs /\ membind \in Membinds
  /\ pc = "probe"
  /\ nodes = Detected
  /\ phys = Nothing
  /\ pins = << >> /\ numa = NoNode
  /\ cpu = << >> /\ policy = << >>

Rebuilt_DropsLast(c2n) ==
  LET max == Max({c2n[c] : c \in Cpus})
  IN  [j \in 1..max |-> [cpus     |-> {c \in Cpus : c2n[c] = j - 1},
                         detected |-> j \in DOMAIN nodes]]

(* What is known of a detected node of the same number is kept.  Node n is  *)
(* nodes[n + 1].                                                            *)
Rebuilt(c2n) ==
  LET max == Max({c2n[c] : c \in Cpus})
  IN  [j \in 1..max + 1 |-> [cpus     |-> {c \in Cpus : c2n[c] = j - 1},
                             detected |-> j \in DOMAIN nodes]]

(* harness_run replaces the nodes if the override binds any CPU.            *)
Override ==
  /\ pc = "probe"
  /\ LET c2n == harness_parse_numa_bind(topo)
     IN  nodes' = IF c2n = NoNode THEN nodes ELSE Rebuilt(c2n)
  /\ pc' = "setup"
  /\ UNCHANGED << inputs, statics, cpu, policy >>

(* The one-time part of harness_run_parallel.                               *)
Setup ==
  /\ pc = "setup"
  /\ phys' = harness_get_physical_cores
  /\ pins' = harness_parse_cpu_spec(pin)
  /\ numa' = harness_parse_numa_bind(topo)
  /\ pc' = "fork"
  /\ UNCHANGED << inputs, nodes, cpu, policy >>

(* The list given, else the first CPU of the i-th core, else i.             *)
PinOf(i) ==
  LET on == {c \in Cpus : phys.map[c] = i % phys.num}
  IN  IF pins # << >> THEN pins[(i % Len(pins)) + 1]
      ELSE IF on # {} THEN Min(on) ELSE i

PolicyOf(c) ==
  LET used == {numa[d] : d \in Cpus} \ {Unset}
  IN  IF membind = Striped
      THEN [mode |-> "interleave", mask |-> IF used = {} THEN AllNodes ELSE used]
      ELSE IF membind # LocalNode THEN [mode |-> "bind", mask |-> {membind}]
      ELSE IF numa[c] # Unset THEN [mode |-> "bind", mask |-> {numa[c]}]
      ELSE [mode |-> "default", mask |-> {}]

(* If i is taken for a CPU and there is none such, s_cpu_to_numa is read    *)
(* beyond its end (harness.c:525).                                          *)
PolicyBeyond == {[mode |-> "bind", mask |-> {n}] : n \in {0, 1}} \cup
                {[mode |-> "default", mask |-> {}]}

Fork ==
  /\ pc = "fork"
  /\ LET i == Len(cpu)
         c == PinOf(i)
     IN  /\ cpu' = Append(cpu, c)
         /\ IF c \in Cpus \/ membind # LocalNode THEN policy' = Append(policy, PolicyOf(c))
            ELSE \E p \in PolicyBeyond : policy' = Append(policy, p)
         /\ pc' = IF i + 1 = NumInstances THEN "over" ELSE pc
  /\ UNCHANGED << inputs, nodes, statics >>

Finished == pc = "over" /\ UNCHANGED vars

Next == Override \/ Setup \/ Fork \/ Finished

Spec == Init /\ [][Next]_vars

-----------------------------------------------------------------------------
(* --cpu-pin auto means physical cores (README.md:51): if the siblings of   *)
(* every CPU can be read, no core gets a second instance before every core  *)
(* has one.  A list is used in turn, and only CPUs that exist are.          *)
InstancesApart ==
  LET pinned(c) == {i \in DOMAIN cpu : cpu[i] = c}
      load(k)   == Cardinality({i \in DOMAIN cpu : machine.core[cpu[i]] = k})
      cores     == {machine.core[c] : c \in Cpus}
  IN  IF pins = << >>
      THEN machine.unreadable = {} => \A k, l \in cores : load(k) - load(l) <= 1
      ELSE /\ \A i \in DOMAIN cpu : cpu[i] \in Cpus
           /\ \A j \in DOMAIN cpu : j > Len(pins) => cpu[j] = cpu[j - Len(pins)]

(* The two uses of one override agree: an instance without a policy of its  *)
(* own gets its memory from the node that the rebuilt topology shows its    *)
(* CPU in, no CPU is shown in two nodes, and interleaving is over the nodes *)
(* that have a CPU.                                                         *)
MemoryWhereShown ==
  numa # NoNode /\ machine.unreadable = {} =>
    LET shown(c) == {n \in DOMAIN nodes : c \in nodes[n].cpus}
        peopled  == {n - 1 : n \in {m \in DOMAIN nodes : nodes[m].cpus # {}}}
    IN  \A i \in DOMAIN cpu :
          CASE membind = LocalNode ->
                 policy[i] = IF shown(cpu[i]) = {} THEN [mode |-> "default", mask |-> {}]
                             ELSE [mode |-> "bind", mask |-> {n - 1 : n \in shown(cpu[i])}]
            [] membind = Striped   -> policy[i].mask = peopled
            [] OTHER               -> policy[i].mask = {membind}
=============================================================================
