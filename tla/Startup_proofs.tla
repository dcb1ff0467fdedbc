---------------------------- MODULE Startup_proofs ----------------------------
(***************************************************************************)
(* What is settled before the first benchmark is right, proved for any      *)
(* configuration file and argument list, any number of CPUs, cores and      *)
(* nodes, any list of CPUs or nodes on the command line, any number of      *)
(* instances, caches and governors.                                         *)
(*                                                                          *)
(* The four parts have an invariant each, and the numbers in them are       *)
(* reached by induction: every non-empty set of natural numbers has a least *)
(* element, so a set that holds 0 and the next number of each of its own    *)
(* holds all of them.                                                       *)
(***************************************************************************)
EXTENDS Startup, FiniteSetTheorems, SequenceTheorems, WellFoundedInduction, TLAPS

-----------------------------------------------------------------------------
(* Least and greatest numbers, and induction.                               *)

Smallest(S) == CHOOSE x \in S : \A y \in S : x <= y
Greatest(S) == CHOOSE x \in S : \A y \in S : x >= y

(* A set of natural numbers has a least one.                                *)
LEMMA HasSmallest ==
  ASSUME NEW S, S \subseteq Nat, S # {}
  PROVE  Smallest(S) \in S /\ \A y \in S : Smallest(S) <= y
<1>1. PICK x \in S : \A y \in S : ~(<< y, x >> \in OpToRel(<, Nat))
  BY NatLessThanWellFounded, WFMin
<1>2. OpToRel(<, Nat) = {ss \in Nat \X Nat : ss[1] < ss[2]}
  BY DEF OpToRel
<1>3. ASSUME NEW y \in S PROVE x <= y
  <2>1. x \in Nat /\ y \in Nat
    OBVIOUS
  <2>2. ~(<< y, x >> \in {ss \in Nat \X Nat : ss[1] < ss[2]})
    BY <1>1, <1>2
  <2>3. ~(y < x)
    BY <2>1, <2>2
  <2> QED
    BY <2>1, <2>3
<1> QED
  BY <1>3 DEF Smallest

(* A set of integers with a bound has a greatest one.                       *)
LEMMA HasGreatest ==
  ASSUME NEW S, S \subseteq Int, S # {}, NEW b \in Int, \A y \in S : y <= b
  PROVE  Greatest(S) \in S /\ \A y \in S : Greatest(S) >= y
<1>1. PICK T : T = {b - y : y \in S}
  OBVIOUS
<1>2. T \subseteq Nat /\ T # {}
  <2>1. ASSUME NEW y \in S PROVE b - y \in Nat
    <3>1. y \in Int /\ y <= b
      OBVIOUS
    <3> QED
      BY <3>1
  <2> QED
    BY <1>1, <2>1
<1>3. PICK t \in T : \A u \in T : t <= u
  BY <1>2, HasSmallest
<1>4. PICK x \in S : t = b - x
  BY <1>1
<1>5. ASSUME NEW y \in S PROVE x >= y
  <2>1. b - y \in T
    BY <1>1
  <2>2. b - x <= b - y
    BY <1>3, <1>4, <2>1
  <2> QED
    BY <2>2
<1> QED
  BY <1>5 DEF Greatest

(* What holds of 0 and of the next number of each holds of all.             *)
LEMMA ByInduction ==
  ASSUME NEW S, 0 \in S, \A k \in Nat : k \in S => k + 1 \in S
  PROVE  Nat \subseteq S
<1>1. SUFFICES ASSUME Nat \ S # {} PROVE FALSE
  OBVIOUS
<1>2. PICK k : k = Smallest(Nat \ S)
  OBVIOUS
<1>3. k \in Nat /\ k \notin S /\ \A y \in Nat \ S : k <= y
  BY <1>1, <1>2, HasSmallest
<1>4. k - 1 \in Nat
  BY <1>3
<1>5. k - 1 \in S
  BY <1>3, <1>4
<1> QED
  BY <1>3, <1>4, <1>5

-----------------------------------------------------------------------------
(* The system probe.                                                        *)

(* The machine has a NUMA node 0.                                           *)
HasNodes == 0 \in DOMAIN box.nodes

(* What was found of the CPUs is no more than the sibling list names.       *)
CpusInv ==
  ppc \notin {"cpus", "end", "crashed"} =>
       /\ cpus.perCore \in {1, Probe!SiblingCount(box.siblings)}
       /\ cpus.perCore > 1 => cpus.logical >= cpus.physical

(* The nodes counted are those without a gap, and as many are read.         *)
Numbered(m) ==
  /\ \A j \in 1..m : j - 1 \in DOMAIN box.nodes
  /\ m = MaxNodes \/ m \notin DOMAIN box.nodes

(* As many nodes as were counted, each read or still empty.                 *)
ShownFromSysfs ==
  /\ Len(pnodes) = nodeCount /\ Numbered(nodeCount) /\ nodeCount > 0
  /\ \A j \in 1..nodeCount : pnodes[j] \in {0, box.nodes[j - 1]}

(* One node with every CPU, or nothing where there was no memory for it.    *)
ShownByDefault ==
  /\ nodeCount = 1
  /\ \/ pnodes = << cpus.logical >> /\ (~HasNodes \/ failed > 0)
     \/ pnodes = << >> /\ failed >= IF HasNodes THEN 2 ELSE 1

(* From one node to the next.                                               *)
NodesInv ==
  /\ ppc \in {"cpus", "count-nodes", "no-nodes"} => pnodes = << >> /\ probed = 0
  /\ ppc = "nodes" => ShownFromSysfs /\ probed <= nodeCount
  /\ ppc \in {"count-caches", "caches", "no-caches", "show"} => ShownFromSysfs \/ ShownByDefault

(* Where an allocation failed there is a default in its place.              *)
FailedInv ==
  /\ ppc \in {"cpus", "count-nodes", "nodes"} => failed = 0
  /\ ppc = "no-nodes" => failed = IF HasNodes THEN 1 ELSE 0
  /\ ppc \in {"count-caches", "caches"} => failed <= 2
  /\ ppc \in {"no-caches", "show"} => failed <= 3
  /\ ppc = "no-caches" => (0 \in box.levels => failed > 0)

(* What is known of the machine at each point of the probe.                 *)
ProbeInv ==
  /\ Probe!TypeOK /\ CpusInv /\ NodesInv /\ FailedInv
  /\ Probe!SecondFailureCrashes

(* What the kernel and the constants of system.c allow.                     *)
LEMMA Box ==
  ASSUME box \in Boxes
  PROVE  /\ MaxNodes \in Nat \ {0} /\ MaxLevels \in Nat \ {0} /\ MaxDistances \in Nat
         /\ box.online \in Nat \ {0} /\ box.configured \in Nat /\ box.configured >= box.online
         /\ Probe!SiblingList(box.siblings) /\ box.levels \subseteq Nat
         /\ \A m \in DOMAIN box.nodes : m \in Nat /\ box.nodes[m] \in Nat
  BY ProbeAssumption DEF Probe!ProbeAssumption

(* The loop that looks for the first number that is missing.                *)
LEMMA LeadingNumbers ==
  ASSUME NEW numbers, NEW limit \in Nat \ {0}
  PROVE  /\ Probe!Leading(numbers, limit) \in 0..limit
         /\ \A j \in 1..Probe!Leading(numbers, limit) : j - 1 \in numbers
         /\ Probe!Leading(numbers, limit) = limit \/ Probe!Leading(numbers, limit) \notin numbers
         /\ Probe!Leading(numbers, limit) > 0 <=> 0 \in numbers
<1>1. PICK S : S = {limit} \cup {m \in 0..limit : m \notin numbers}
  OBVIOUS
<1>2. PICK l : l = Smallest(S)
  OBVIOUS
<1>3. Probe!Leading(numbers, limit) = l
  BY <1>1, <1>2 DEF Probe!Leading, Probe!Min, Smallest
<1>4. S \subseteq Nat /\ S # {}
  BY <1>1
<1>5. l \in S /\ \A y \in S : l <= y
  BY <1>2, <1>4, HasSmallest
<1>6. l \in 0..limit /\ (l = limit \/ l \notin numbers)
  BY <1>1, <1>5
<1>7. ASSUME NEW j \in 1..l PROVE j - 1 \in numbers
  <2>1. j - 1 \in 0..limit /\ j - 1 < l
    BY <1>6
  <2>2. j - 1 \notin S
    <3>1. ~(l <= j - 1)
      BY <1>6, <2>1
    <3> QED
      BY <1>5, <3>1
  <2> QED
    BY <1>1, <2>1, <2>2
<1>8. l > 0 <=> 0 \in numbers
  <2>1. CASE l = 0
    BY <1>6, <2>1
  <2>2. CASE l > 0
    <3>1. 1 \in 1..l
      BY <1>6, <2>2
    <3> QED
      BY <1>7, <2>2, <3>1
  <2> QED
    BY <1>6, <2>1, <2>2
<1> QED
  BY <1>3, <1>6, <1>7, <1>8

(* As many CPUs are counted as the sibling list names, or fewer.            *)
LEMMA SiblingsCounted ==
  ASSUME NEW list, Probe!SiblingList(list)
  PROVE  /\ IsFiniteSet(Probe!Named(list))
         /\ Probe!SiblingCount(list) \in Nat \ {0}
         /\ Cardinality(Probe!Named(list)) \in Nat
         /\ Probe!SiblingCount(list) <= Cardinality(Probe!Named(list))
         /\ Probe!SiblingCount(list) = 1 => Cardinality(Probe!Named(list)) = 1
<1>1. /\ list \in Seq([1..1 -> Nat] \cup [1..2 -> Nat]) /\ list # << >>
      /\ \A j \in DOMAIN list : Len(list[j]) = 2 => list[j][1] < list[j][2]
      /\ \A j, k \in DOMAIN list : j < k =>
           \A a \in Probe!Numbers(list[j]), b \in Probe!Numbers(list[k]) : a < b
  BY DEF Probe!SiblingList
<1>2. PICK m : m = Len(list)
  OBVIOUS
<1>3. m \in Nat \ {0} /\ DOMAIN list = 1..m
  BY <1>1, <1>2
<1>4. ASSUME NEW j \in 1..m
      PROVE  \/ list[j] \in [1..1 -> Nat] /\ Len(list[j]) = 1
                /\ Probe!Numbers(list[j]) = {list[j][1]} /\ list[j][1] \in Nat
             \/ list[j] \in [1..2 -> Nat] /\ Len(list[j]) = 2 /\ list[j][1] \in Nat
                /\ list[j][2] \in Nat /\ list[j][1] < list[j][2]
                /\ Probe!Numbers(list[j]) = list[j][1]..list[j][2]
  <2>1. list[j] \in [1..1 -> Nat] \cup [1..2 -> Nat]
    BY <1>1, <1>3
  <2>2. CASE list[j] \in [1..1 -> Nat]
    <3>1. Len(list[j]) = 1
      BY <2>2, LenProperties, SeqDef
    <3> QED
      BY <2>2, <3>1 DEF Probe!Numbers
  <2>3. CASE list[j] \in [1..2 -> Nat]
    <3>1. Len(list[j]) = 2
      BY <2>3, LenProperties, SeqDef
    <3> QED
      BY <1>1, <1>3, <2>3, <3>1 DEF Probe!Numbers
  <2> QED
    BY <2>1, <2>2, <2>3
<1>5. \A j \in 1..m : IsFiniteSet(Probe!Numbers(list[j])) /\ list[j][1] \in Probe!Numbers(list[j])
                      /\ list[j][1] \in Nat
  <2> TAKE j \in 1..m
  <2>1. CASE Probe!Numbers(list[j]) = {list[j][1]} /\ list[j][1] \in Nat
    BY <2>1, FS_Singleton
  <2>2. CASE /\ list[j][1] \in Nat /\ list[j][2] \in Nat /\ list[j][1] < list[j][2]
             /\ Probe!Numbers(list[j]) = list[j][1]..list[j][2]
    <3>1. PICK a, b : a = list[j][1] /\ b = list[j][2]
      OBVIOUS
    <3>2. a \in Int /\ b \in Int /\ a \in a..b
      BY <2>2, <3>1
    <3>3. IsFiniteSet(a..b)
      BY <3>2, FS_Interval
    <3> QED
      BY <2>2, <3>1, <3>2, <3>3
  <2> QED
    BY <1>4, <2>1, <2>2
<1>6. PICK N : N = Probe!Named(list)
  OBVIOUS
<1>7. IsFiniteSet(N)
  <2>1. PICK f : f = [j \in 1..m |-> Probe!Numbers(list[j])]
    OBVIOUS
  <2>2. f \in Surjection(1..m, {Probe!Numbers(list[j]) : j \in 1..m})
    BY <2>1 DEF Surjection
  <2>3. IsFiniteSet(1..m)
    BY <1>3, FS_Interval
  <2>4. IsFiniteSet({Probe!Numbers(list[j]) : j \in 1..m})
    BY <2>2, <2>3, FS_Surjection
  <2>5. IsFiniteSet(UNION {Probe!Numbers(list[j]) : j \in 1..m})
    BY <1>5, <2>4, FS_UNION
  <2> QED
    BY <1>3, <1>6, <2>5 DEF Probe!Named
<1>8. Cardinality(N) \in Nat
  BY <1>7, FS_CardinalityType
<1>9. \A j \in 1..m : Probe!Numbers(list[j]) \subseteq N
  BY <1>3, <1>6 DEF Probe!Named
<1>10. 1 \in 1..m
  BY <1>3
<1>11. CASE Len(list[1]) = 2
  <2>1. list[1][1] \in Nat /\ list[1][2] \in Nat /\ list[1][1] < list[1][2]
        /\ Probe!Numbers(list[1]) = list[1][1]..list[1][2]
    BY <1>4, <1>10, <1>11
  <2>2. Cardinality(list[1][1]..list[1][2]) = list[1][2] - list[1][1] + 1
    <3>1. PICK a, b : a = list[1][1] /\ b = list[1][2]
      OBVIOUS
    <3>2. a \in Int /\ b \in Int /\ ~(a > b)
      BY <2>1, <3>1
    <3>3. Cardinality(a..b) = b - a + 1
      BY <3>2, FS_Interval
    <3> QED
      BY <3>1, <3>3
  <2>3. Cardinality(list[1][1]..list[1][2]) <= Cardinality(N)
    BY <1>7, <1>9, <1>10, <2>1, FS_Subset
  <2>4. Probe!SiblingCount(list) = list[1][2] - list[1][1] + 1
    BY <1>11 DEF Probe!SiblingCount
  <2> QED
    BY <1>6, <1>7, <1>8, <2>1, <2>2, <2>3, <2>4
<1>12. CASE Len(list[1]) # 2
  <2>1. Probe!SiblingCount(list) = m
    BY <1>2, <1>12 DEF Probe!SiblingCount
  <2>2. PICK g : g = [j \in 1..m |-> list[j][1]]
    OBVIOUS
  <2>3. g \in [1..m -> N]
    BY <1>5, <1>9, <2>2
  <2>4. \A j, k \in 1..m : j < k => g[j] # g[k]
    <3> TAKE j, k \in 1..m
    <3> HAVE j < k
    <3>1. PICK a, b : a = list[j][1] /\ b = list[k][1]
      OBVIOUS
    <3>2. a \in Nat /\ b \in Nat /\ a < b
      BY <1>1, <1>3, <1>5, <3>1
    <3> QED
      BY <2>2, <3>1, <3>2
  <2>5. Cardinality(1..m) = m
    BY <1>3, FS_Interval
  <2>6. m <= Cardinality(N)
    <3>1. SUFFICES ASSUME Cardinality(N) < Cardinality(1..m) PROVE FALSE
      BY <1>3, <1>8, <2>5
    <3>2. IsFiniteSet(1..m)
      BY <1>3, FS_Interval
    <3>3. PICK j, k \in 1..m : j # k /\ g[j] = g[k]
      BY <1>7, <2>3, <3>1, <3>2, FS_PigeonHole
    <3>4. j < k \/ k < j
      BY <1>3, <3>3
    <3> QED
      BY <2>4, <3>3, <3>4
  <2>7. m = 1 => N = {list[1][1]}
    <3>1. Probe!Numbers(list[1]) = {list[1][1]}
      BY <1>4, <1>10, <1>12
    <3> QED
      BY <1>3, <1>6, <3>1 DEF Probe!Named
  <2>8. m = 1 => Cardinality(N) = 1
    BY <2>7, FS_Singleton
  <2> QED
    BY <1>3, <1>6, <1>7, <1>8, <2>1, <2>8, <2>6
<1> QED
  BY <1>11, <1>12

(* Before the probe.                                                        *)
LEMMA ProbeInit == ASSUME Probe!Init PROVE ProbeInv
<1>1. /\ box \in Boxes /\ ppc = "cpus" /\ probed = 0 /\ pnodes = << >> /\ nodeCount = 0
      /\ cpus = [physical |-> 0, logical |-> 0, perCore |-> 1] /\ caches = << >>
      /\ failed = 0 /\ overrun = FALSE
  BY DEF Probe!Init
<1>2. 0 \in 0..MaxNodes
  BY <1>1, Box
<1>3. Probe!TypeOK
  <2>1. cpus \in [physical : Nat, logical : Nat, perCore : Nat]
    BY <1>1
  <2>2. pnodes \in Seq(Nat) /\ caches \in Seq({"sysfs", "default", "unset"})
    BY <1>1
  <2>3. overrun \in BOOLEAN
    BY <1>1
  <2>4. ppc \in Probe!Labels /\ failed \in 0..4 /\ probed \in Nat /\ nodeCount \in 0..MaxNodes
    BY <1>1, <1>2 DEF Probe!Labels
  <2> QED
    BY <1>1, <2>1, <2>2, <2>3, <2>4 DEF Probe!TypeOK
<1>4. CpusInv
  BY <1>1 DEF CpusInv
<1> QED
  BY <1>1, <1>2, <1>3, <1>4 DEF ProbeInv, NodesInv, FailedInv, Probe!SecondFailureCrashes

(* Every step of the probe, and of the listing that follows it.             *)
LEMMA ProbeStep == ASSUME ProbeInv, Probe!Next PROVE ProbeInv'
<1> USE DEF ProbeInv
<1>0. box \in Boxes /\ failed \in 0..4
  BY DEF Probe!TypeOK
<1>1. CASE Probe!NoRoom
  <2>1. /\ ppc = "cpus" /\ ppc' = "end" /\ failed = 0 /\ failed' = 1 /\ box' = box
        /\ probed' = probed /\ cpus' = cpus /\ pnodes' = pnodes /\ nodeCount' = nodeCount
        /\ caches' = caches /\ overrun' = overrun
    BY <1>1 DEF Probe!NoRoom, Probe!found, FailedInv
  <2>2. Probe!TypeOK'
    BY <2>1 DEF Probe!TypeOK, Probe!Labels
  <2>3. CpusInv'
    BY <2>1 DEF CpusInv
  <2>4. NodesInv'
    BY <2>1 DEF NodesInv
  <2> QED
    BY <2>1, <2>2, <2>3, <2>4 DEF FailedInv, Probe!SecondFailureCrashes
<1>2. CASE Probe!ProbeCpus
  <2>1. /\ ppc = "cpus" /\ ppc' = "count-nodes" /\ failed = 0 /\ failed' = 0 /\ box' = box
        /\ probed' = probed /\ pnodes' = pnodes /\ nodeCount' = nodeCount
        /\ caches' = caches /\ overrun' = overrun
    BY <1>2 DEF Probe!ProbeCpus, FailedInv
  <2>2. PICK c \in {1, Probe!SiblingCount(box.siblings)} :
          cpus' = [physical |-> box.online,
                   logical  |-> IF c > 1 THEN box.configured ELSE box.online,
                   perCore  |-> c]
    BY <1>2 DEF Probe!ProbeCpus
  <2>3. Probe!SiblingCount(box.siblings) \in Nat
    BY <1>0, Box, SiblingsCounted
  <2>4. box.online \in Nat /\ box.configured \in Nat /\ box.configured >= box.online
    BY <1>0, Box
  <2>5. CpusInv'
    <3>1. /\ cpus'.perCore = c /\ cpus'.physical = box.online
          /\ cpus'.logical = IF c > 1 THEN box.configured ELSE box.online
      BY <2>2
    <3>2. cpus'.perCore > 1 => cpus'.logical >= cpus'.physical
      BY <2>4, <3>1
    <3> QED
      BY <2>1, <2>2, <3>1, <3>2 DEF CpusInv
  <2>6. Probe!TypeOK'
    <3>1. cpus' \in [physical : Nat, logical : Nat, perCore : Nat]
      BY <2>2, <2>3, <2>4
    <3> QED
      BY <2>1, <3>1 DEF Probe!TypeOK, Probe!Labels
  <2>7. NodesInv'
    BY <2>1 DEF NodesInv
  <2> QED
    BY <2>1, <2>5, <2>6, <2>7 DEF FailedInv, Probe!SecondFailureCrashes
<1>3. CASE Probe!CountNodes
  <2>1. PICK m : m = Probe!Leading(DOMAIN box.nodes, MaxNodes)
    OBVIOUS
  <2>2. /\ m \in 0..MaxNodes /\ Numbered(m) /\ (m > 0 <=> HasNodes)
    BY <1>0, <2>1, Box, LeadingNumbers DEF Numbered, HasNodes
  <2>3. /\ ppc = "count-nodes" /\ failed = 0 /\ box' = box /\ probed' = probed /\ cpus' = cpus
        /\ caches' = caches /\ overrun' = overrun
    BY <1>3 DEF Probe!CountNodes, FailedInv
  <2>4. CpusInv'
    <3>1. ppc' \in {"nodes", "no-nodes"}
      BY <1>3 DEF Probe!CountNodes
    <3> QED
      BY <2>3, <3>1 DEF CpusInv
  <2>5. CASE m > 0 /\ ppc' = "nodes" /\ pnodes' = Probe!Blank(m) /\ nodeCount' = m /\ failed' = failed
    <3>1. pnodes' \in Seq(Nat) /\ Len(pnodes') = m /\ \A j \in 1..m : pnodes'[j] = 0
      <4>1. Probe!Blank(m) = [j \in 1..m |-> 0] /\ m \in Nat
        BY <2>2, Box, <1>0 DEF Probe!Blank
      <4>2. Probe!Blank(m) \in Seq(Nat)
        BY <4>1
      <4> QED
        BY <2>5, <4>1, <4>2
    <3>2. Probe!TypeOK'
      BY <2>2, <2>3, <2>5, <3>1 DEF Probe!TypeOK, Probe!Labels
    <3>3. ShownFromSysfs'
      BY <2>2, <2>3, <2>5, <3>1 DEF ShownFromSysfs, Numbered
    <3>4. probed' <= nodeCount'
      <4>1. probed = 0 /\ m \in Nat
        BY <1>0, <2>2, <2>3, Box DEF NodesInv
      <4> QED
        BY <2>3, <2>5, <4>1
    <3>5. NodesInv'
      BY <2>2, <2>5, <3>3, <3>4 DEF NodesInv
    <3> QED
      BY <2>3, <2>4, <2>5, <3>2, <3>5 DEF FailedInv, Probe!SecondFailureCrashes
  <2>6. CASE /\ ppc' = "no-nodes" /\ failed' = IF m > 0 THEN failed + 1 ELSE failed
             /\ pnodes' = pnodes /\ nodeCount' = nodeCount
    <3>1. failed' = (IF HasNodes' THEN 1 ELSE 0) /\ failed' \in 0..4
      <4>1. HasNodes' = HasNodes
        BY <2>3 DEF HasNodes
      <4>2. failed' = IF m > 0 THEN 1 ELSE 0
        BY <2>3, <2>6
      <4> QED
        BY <2>2, <4>1, <4>2
    <3>2. Probe!TypeOK'
      BY <2>3, <2>6, <3>1 DEF Probe!TypeOK, Probe!Labels
    <3>3. NodesInv'
      BY <2>3, <2>6 DEF NodesInv
    <3> QED
      BY <2>4, <2>6, <3>1, <3>2, <3>3 DEF FailedInv, Probe!SecondFailureCrashes
  <2>7. \/ m > 0 /\ ppc' = "nodes" /\ pnodes' = Probe!Blank(m) /\ nodeCount' = m /\ failed' = failed
        \/ /\ ppc' = "no-nodes" /\ failed' = IF m > 0 THEN failed + 1 ELSE failed
           /\ pnodes' = pnodes /\ nodeCount' = nodeCount
    BY <1>3, <2>1 DEF Probe!CountNodes
  <2> QED
    BY <2>5, <2>6, <2>7
<1>4. CASE Probe!ReadNode
  <2>1. PICK map \in BOOLEAN, distance \in BOOLEAN :
          /\ pnodes' = IF map /\ pnodes # << >>
                       THEN [pnodes EXCEPT ![probed + 1] = box.nodes[probed]] ELSE pnodes
          /\ overrun' = (overrun \/ (~distance /\ nodeCount > MaxDistances))
    BY <1>4 DEF Probe!ReadNode
  <2>2. /\ ppc = "nodes" /\ ppc' = "nodes" /\ failed = 0 /\ failed' = failed /\ box' = box
        /\ probed < nodeCount /\ probed' = probed + 1 /\ cpus' = cpus /\ nodeCount' = nodeCount
        /\ caches' = caches
    BY <1>4 DEF Probe!ReadNode, FailedInv
  <2>3. overrun' \in BOOLEAN
    BY <2>1
  <2>4. /\ nodeCount \in 0..MaxNodes /\ nodeCount \in Nat /\ probed \in Nat /\ pnodes \in Seq(Nat)
        /\ ShownFromSysfs
    BY <1>0, <2>2, Box DEF Probe!TypeOK, NodesInv
  <2>5. probed + 1 \in 1..nodeCount /\ probed + 1 - 1 = probed
    BY <2>2, <2>4
  <2>6. box.nodes[probed] \in Nat
    <3>1. probed \in DOMAIN box.nodes
      <4>1. \A j \in 1..nodeCount : j - 1 \in DOMAIN box.nodes
        BY <2>4 DEF ShownFromSysfs, Numbered
      <4>2. PICK j \in 1..nodeCount : j = probed + 1
        BY <2>5
      <4> QED
        BY <2>4, <4>1, <4>2, SMTT(30)
    <3> QED
      BY <1>0, <3>1, Box
  <2>7. /\ pnodes' \in Seq(Nat) /\ Len(pnodes') = nodeCount
        /\ \A j \in 1..nodeCount : pnodes'[j] = pnodes[j] \/ (j = probed + 1 /\ pnodes'[j] = box.nodes[probed])
    <3>1. PICK q : q = [pnodes EXCEPT ![probed + 1] = box.nodes[probed]]
      OBVIOUS
    <3>2. Len(pnodes) = nodeCount
      BY <2>4 DEF ShownFromSysfs
    <3>3. /\ q \in Seq(Nat) /\ Len(q) = nodeCount
          /\ \A j \in 1..nodeCount : q[j] = pnodes[j] \/ (j = probed + 1 /\ q[j] = box.nodes[probed])
      BY <2>4, <2>5, <2>6, <3>1, <3>2
    <3>4. pnodes' = q \/ pnodes' = pnodes
      BY <2>1, <3>1
    <3> QED
      BY <2>4, <3>2, <3>3, <3>4
  <2>8. ShownFromSysfs'
    <3>1. \A j \in 1..nodeCount : pnodes'[j] \in {0, box.nodes[j - 1]}
      <4> TAKE j \in 1..nodeCount
      <4>1. pnodes[j] \in {0, box.nodes[j - 1]}
        BY <2>4 DEF ShownFromSysfs
      <4>2. j = probed + 1 => j - 1 = probed
        BY <2>4
      <4> QED
        BY <2>7, <4>1, <4>2
    <3> QED
      BY <2>2, <2>4, <2>7, <3>1 DEF ShownFromSysfs, Numbered
  <2>9. NodesInv'
    <3>1. probed' <= nodeCount'
      BY <2>2, <2>4
    <3> QED
      BY <2>2, <2>8, <3>1 DEF NodesInv
  <2>10. CpusInv'
    BY <2>2 DEF CpusInv
  <2>11. probed' \in Nat
    BY <2>2, <2>4
  <2>12. Probe!TypeOK'
    BY <2>2, <2>3, <2>7, <2>11 DEF Probe!TypeOK
  <2> QED
    BY <2>2, <2>9, <2>10, <2>12 DEF FailedInv, Probe!SecondFailureCrashes
<1>5. CASE Probe!NodesRead
  <2>1. /\ ppc = "nodes" /\ ppc' = "count-caches" /\ failed = 0 /\ failed' = failed /\ box' = box
        /\ probed' = 0 /\ cpus' = cpus /\ nodeCount' = nodeCount /\ pnodes' = pnodes
        /\ caches' = caches /\ overrun' = overrun
    BY <1>5 DEF Probe!NodesRead, FailedInv, Probe!found
  <2>2. NodesInv'
    BY <2>1 DEF NodesInv, ShownFromSysfs, Numbered
  <2>3. CpusInv'
    BY <2>1 DEF CpusInv
  <2>4. Probe!TypeOK'
    BY <2>1 DEF Probe!TypeOK, Probe!Labels
  <2> QED
    BY <2>1, <2>2, <2>3, <2>4 DEF FailedInv, Probe!SecondFailureCrashes
<1>6. CASE Probe!SingleNode
  <2>1. /\ ppc = "no-nodes" /\ ppc' = "count-caches" /\ box' = box
        /\ probed' = probed /\ cpus' = cpus /\ nodeCount' = 1 /\ caches' = caches /\ overrun' = overrun
        /\ failed = IF HasNodes THEN 1 ELSE 0
    BY <1>6 DEF Probe!SingleNode, FailedInv
  <2>2. \/ pnodes' = << cpus.logical >> /\ failed' = failed
        \/ pnodes' = << >> /\ failed' = failed + 1
    BY <1>6 DEF Probe!SingleNode
  <2>3. ShownByDefault' /\ failed' \in 0..4 /\ failed' <= 2
    <3>1. HasNodes' = HasNodes /\ cpus.logical' = cpus.logical
      BY <2>1 DEF HasNodes
    <3>2. failed \in {0, 1} /\ (~HasNodes \/ failed > 0)
      BY <2>1
    <3>3. CASE pnodes' = << cpus.logical >> /\ failed' = failed
      BY <2>1, <3>1, <3>2, <3>3 DEF ShownByDefault
    <3>4. CASE pnodes' = << >> /\ failed' = failed + 1
      <4>1. failed' >= IF HasNodes THEN 2 ELSE 1
        BY <2>1, <3>4
      <4> QED
        BY <2>1, <3>1, <3>2, <3>4, <4>1 DEF ShownByDefault
    <3> QED
      BY <2>2, <3>3, <3>4
  <2>4. NodesInv'
    BY <2>1, <2>3 DEF NodesInv
  <2>5. CpusInv'
    BY <2>1 DEF CpusInv
  <2>6. pnodes' \in Seq(Nat) /\ nodeCount' \in 0..MaxNodes
    <3>1. cpus.logical \in Nat
      BY DEF Probe!TypeOK
    <3>2. 1 \in 0..MaxNodes
      BY <1>0, Box
    <3>3. << cpus.logical >> \in Seq(Nat) /\ << >> \in Seq(Nat)
      BY <3>1
    <3>4. pnodes' \in Seq(Nat)
      BY <2>2, <3>3
    <3> QED
      BY <2>1, <3>2, <3>4
  <2>7. Probe!TypeOK'
    BY <2>1, <2>3, <2>6 DEF Probe!TypeOK, Probe!Labels
  <2> QED
    BY <2>1, <2>3, <2>4, <2>5, <2>7 DEF FailedInv, Probe!SecondFailureCrashes
<1>7. CASE Probe!CountCaches
  <2>1. PICK m : m = Probe!Leading(box.levels, MaxLevels)
    OBVIOUS
  <2>2. m \in Nat /\ (m > 0 <=> 0 \in box.levels)
    BY <1>0, <2>1, Box, LeadingNumbers
  <2>3. /\ ppc = "count-caches" /\ box' = box /\ probed' = probed /\ cpus' = cpus
        /\ pnodes' = pnodes /\ nodeCount' = nodeCount /\ overrun' = overrun /\ failed <= 2
    BY <1>7 DEF Probe!CountCaches, FailedInv
  <2>4. \/ /\ m > 0 /\ ppc' = "caches" /\ caches' = [j \in 1..m |-> "unset"] /\ failed' = failed
        \/ /\ ppc' = "no-caches" /\ failed' = IF m > 0 THEN failed + 1 ELSE failed
           /\ caches' = caches
    BY <1>7, <2>1 DEF Probe!CountCaches
  <2>5. failed' \in 0..4 /\ failed' <= 3 /\ failed' >= failed /\ (ppc' = "caches" => failed' <= 2)
        /\ (ppc' = "no-caches" => (0 \in box.levels => failed' > 0))
    <3>1. failed' = failed \/ (failed' = failed + 1 /\ ppc' = "no-caches")
      BY <2>4
    <3>2. ppc' = "no-caches" => (0 \in box.levels => failed' = failed + 1)
      BY <2>2, <2>4
    <3> QED
      BY <1>0, <2>3, <3>1, <3>2
  <2>6. caches' \in Seq({"sysfs", "default", "unset"})
    <3>1. [j \in 1..m |-> "unset"] \in Seq({"sysfs", "default", "unset"})
      BY <2>2
    <3> QED
      BY <2>4, <3>1 DEF Probe!TypeOK
  <2>7. NodesInv'
    <3>1. ShownFromSysfs => ShownFromSysfs'
      BY <2>3 DEF ShownFromSysfs, Numbered
    <3>2. ShownByDefault => ShownByDefault'
      <4>1. HasNodes' = HasNodes /\ cpus.logical' = cpus.logical
        BY <2>3 DEF HasNodes
      <4>2. \A k \in 1..2 : failed >= k => failed' >= k
        BY <1>0, <2>5
      <4> QED
        BY <1>0, <2>3, <2>5, <4>1, <4>2 DEF ShownByDefault
    <3> QED
      BY <2>3, <2>4, <3>1, <3>2 DEF NodesInv
  <2>8. CpusInv'
    BY <2>3, <2>4 DEF CpusInv
  <2>9. Probe!TypeOK'
    BY <2>3, <2>4, <2>5, <2>6 DEF Probe!TypeOK, Probe!Labels
  <2> QED
    BY <2>3, <2>4, <2>5, <2>7, <2>8, <2>9 DEF FailedInv, Probe!SecondFailureCrashes
<1>8. CASE Probe!ReadCache \/ Probe!CachesRead
  <2>1. /\ ppc = "caches" /\ ppc' \in {"caches", "show"} /\ box' = box /\ probed' \in Nat /\ cpus' = cpus
        /\ pnodes' = pnodes /\ nodeCount' = nodeCount /\ overrun' = overrun /\ failed' = failed
        /\ failed <= 2
    <3>1. probed \in Nat
      BY DEF Probe!TypeOK
    <3>2. CASE Probe!ReadCache
      BY <3>1, <3>2 DEF Probe!ReadCache, FailedInv
    <3>3. CASE Probe!CachesRead
      BY <3>1, <3>3 DEF Probe!CachesRead, FailedInv, Probe!found
    <3> QED
      BY <1>8, <3>2, <3>3
  <2>2. caches' \in Seq({"sysfs", "default", "unset"})
    <3>1. caches \in Seq({"sysfs", "default", "unset"}) /\ probed \in Nat
      BY DEF Probe!TypeOK
    <3>2. CASE Probe!ReadCache
      <4>1. PICK what \in {"sysfs", "unset"} : caches' = [caches EXCEPT ![probed + 1] = what]
        BY <3>2 DEF Probe!ReadCache
      <4>2. PICK T : T = {"sysfs", "default", "unset"}
        OBVIOUS
      <4>3. caches \in Seq(T) /\ what \in T
        BY <3>1, <4>2
      <4>4. probed + 1 \in 1..Len(caches)
        BY <3>1, <3>2 DEF Probe!ReadCache
      <4>5. [caches EXCEPT ![probed + 1] = what] \in Seq(T)
        BY <4>3, <4>4, ExceptSeq
      <4> QED
        BY <4>1, <4>2, <4>5
    <3>3. CASE Probe!CachesRead
      BY <3>1, <3>3 DEF Probe!CachesRead, Probe!found
    <3> QED
      BY <1>8, <3>2, <3>3
  <2>3. NodesInv'
    <3>1. ShownFromSysfs => ShownFromSysfs'
      BY <2>1 DEF ShownFromSysfs, Numbered
    <3>2. ShownByDefault => ShownByDefault'
      <4>1. HasNodes' = HasNodes /\ cpus.logical' = cpus.logical
        BY <2>1 DEF HasNodes
      <4> QED
        BY <2>1, <4>1 DEF ShownByDefault
    <3> QED
      BY <2>1, <3>1, <3>2 DEF NodesInv
  <2>4. CpusInv'
    BY <2>1 DEF CpusInv
  <2>5. Probe!TypeOK'
    BY <2>1, <2>2 DEF Probe!TypeOK, Probe!Labels
  <2> QED
    BY <1>0, <2>1, <2>3, <2>4, <2>5 DEF FailedInv, Probe!SecondFailureCrashes
<1>9. CASE Probe!DefaultCaches
  <2>1. /\ ppc = "no-caches" /\ box' = box /\ probed' = probed /\ cpus' = cpus
        /\ pnodes' = pnodes /\ nodeCount' = nodeCount /\ overrun' = overrun /\ failed <= 3
        /\ (0 \in box.levels => failed > 0)
    BY <1>9 DEF Probe!DefaultCaches, FailedInv
  <2>2. \/ /\ caches' = << "default", "default", "default" >>
           /\ ppc' = "show" /\ failed' = failed
        \/ caches' = caches /\ ppc' = "crashed" /\ failed' = failed + 1
    BY <1>9 DEF Probe!DefaultCaches
  <2>3. caches' \in Seq({"sysfs", "default", "unset"})
    <3>1. caches \in Seq({"sysfs", "default", "unset"})
      BY DEF Probe!TypeOK
    <3>2. << "default", "default", "default" >> \in Seq({"sysfs", "default", "unset"})
      OBVIOUS
    <3> QED
      BY <2>2, <3>1, <3>2
  <2>4. NodesInv'
    <3>1. ShownFromSysfs => ShownFromSysfs'
      BY <2>1 DEF ShownFromSysfs, Numbered
    <3>2. failed' >= failed
      BY <1>0, <2>2
    <3>3. ShownByDefault => ShownByDefault'
      <4>1. HasNodes' = HasNodes /\ cpus.logical' = cpus.logical
        BY <2>1 DEF HasNodes
      <4>2. \A k \in 1..2 : failed >= k => failed' >= k
        BY <1>0, <2>2, <3>2
      <4> QED
        BY <1>0, <2>1, <2>2, <3>2, <4>1, <4>2 DEF ShownByDefault
    <3> QED
      BY <2>1, <2>2, <3>1, <3>3 DEF NodesInv
  <2>5. CpusInv'
    BY <2>1, <2>2 DEF CpusInv
  <2>6. Probe!TypeOK'
    <3>1. failed' \in 0..4
      BY <1>0, <2>1, <2>2
    <3> QED
      BY <2>1, <2>2, <2>3, <3>1 DEF Probe!TypeOK, Probe!Labels
  <2>7. Probe!SecondFailureCrashes'
    <3>1. 0 \in box.levels => failed' >= 2 \/ ppc' # "crashed"
      BY <1>0, <2>1, <2>2
    <3>2. failed' >= 1 \/ ppc' # "crashed"
      BY <1>0, <2>2
    <3> QED
      BY <2>1, <3>1, <3>2 DEF Probe!SecondFailureCrashes
  <2> QED
    BY <1>0, <2>1, <2>2, <2>4, <2>5, <2>6, <2>7 DEF FailedInv
<1>10. CASE Probe!Show
  <2>1. /\ ppc = "show" /\ ppc' = IF nodeCount <= Len(pnodes) THEN "end" ELSE "crashed"
        /\ box' = box /\ probed' = probed /\ cpus' = cpus /\ caches' = caches
        /\ pnodes' = pnodes /\ nodeCount' = nodeCount /\ overrun' = overrun /\ failed' = failed
    BY <1>10 DEF Probe!Show, Probe!found
  <2>2. ppc' = "crashed" => failed >= IF HasNodes THEN 2 ELSE 1
    <3>1. ShownFromSysfs => ppc' = "end"
      <4>1. nodeCount \in Nat
        BY <1>0, Box DEF Probe!TypeOK
      <4> QED
        BY <2>1, <4>1 DEF ShownFromSysfs
    <3>2. ShownByDefault /\ pnodes = << cpus.logical >> => ppc' = "end"
      BY <2>1 DEF ShownByDefault
    <3> QED
      BY <2>1, <3>1, <3>2 DEF NodesInv, ShownByDefault
  <2>3. Probe!SecondFailureCrashes'
    BY <1>0, <2>1, <2>2 DEF Probe!SecondFailureCrashes, HasNodes
  <2>4. Probe!TypeOK'
    BY <2>1 DEF Probe!TypeOK, Probe!Labels
  <2> QED
    BY <2>1, <2>3, <2>4 DEF CpusInv, NodesInv, FailedInv
<1>11. CASE Probe!Finished
  BY <1>11 DEF Probe!Finished, Probe!vars, Probe!found, Probe!TypeOK, CpusInv, NodesInv, FailedInv,
               Probe!SecondFailureCrashes
<1> QED
  BY <1>1, <1>2, <1>3, <1>4, <1>5, <1>6, <1>7, <1>8, <1>9, <1>10, <1>11 DEF Probe!Next

(* The count of the module of the probe is that of the library.              *)
LEMMA CountedAlike == \A S : Probe!Cardinality(S) = Cardinality(S)
  BY DEF Probe!Cardinality, Cardinality

(* What the listing shows is the machine's (system.c:28-330,                *)
(* main.c:247-274).                                                         *)
LEMMA ProbeShows == ASSUME ProbeInv PROVE Probe!ProbeShowsMachine
<1> USE DEF ProbeInv
<1>0. box \in Boxes /\ ppc \in Probe!Labels
  BY DEF Probe!TypeOK
<1>1. Probe!ThreadsOfACore
  <2>1. CASE ppc \in {"cpus", "end", "crashed"}
    BY <2>1 DEF Probe!ThreadsOfACore
  <2>2. /\ Cardinality(Probe!Named(box.siblings)) \in Nat
        /\ Probe!SiblingCount(box.siblings) \in Nat \ {0}
        /\ Probe!SiblingCount(box.siblings) <= Cardinality(Probe!Named(box.siblings))
        /\ Probe!SiblingCount(box.siblings) = 1 => Cardinality(Probe!Named(box.siblings)) = 1
    BY <1>0, Box, SiblingsCounted
  <2>3. CASE ppc \notin {"cpus", "end", "crashed"}
    <3>1. cpus.perCore \in {1, Probe!SiblingCount(box.siblings)}
          /\ (cpus.perCore > 1 => cpus.logical >= cpus.physical)
      BY <2>3 DEF CpusInv
    <3>2. cpus.perCore <= Cardinality(Probe!Named(box.siblings))
      BY <2>2, <3>1
    <3>3. Probe!SiblingCount(box.siblings) = 1 => Cardinality(Probe!Named(box.siblings)) = 1
      BY <2>2
    <3>4. /\ cpus.perCore <= Cardinality(Probe!Named(box.siblings))
          /\ cpus.perCore > 1 => cpus.logical >= cpus.physical
          /\ Probe!SiblingCount(box.siblings) = 1 => Cardinality(Probe!Named(box.siblings)) = 1
      BY <3>1, <3>2, <3>3
    <3> QED
      BY <3>4, CountedAlike DEF Probe!ThreadsOfACore
  <2> QED
    BY <2>1, <2>3
<1>2. Probe!NodesOfTheMachine
  <2>1. SUFFICES ASSUME ppc = "show", pnodes # << >>
                 PROVE  \/ /\ \A j \in DOMAIN pnodes :
                                 j - 1 \in DOMAIN box.nodes /\ pnodes[j] \in {0, box.nodes[j - 1]}
                           /\ Len(pnodes) = MaxNodes \/ Len(pnodes) \notin DOMAIN box.nodes
                        \/ pnodes = << cpus.logical >> /\ (0 \notin DOMAIN box.nodes \/ failed > 0)
    BY DEF Probe!NodesOfTheMachine
  <2>2. CASE ShownFromSysfs
    <3>1. DOMAIN pnodes = 1..nodeCount
      BY <2>2 DEF ShownFromSysfs, Probe!TypeOK
    <3> QED
      BY <2>2, <3>1 DEF ShownFromSysfs, Numbered
  <2>3. CASE ShownByDefault
    BY <2>1, <2>3 DEF ShownByDefault, HasNodes
  <2> QED
    BY <2>1, <2>2, <2>3 DEF NodesInv
<1> QED
  BY <1>1, <1>2 DEF Probe!ProbeShowsMachine

(* A probe that is not at its turn keeps what it has.                       *)
LEMMA ProbeStutter == ASSUME ProbeInv, UNCHANGED probeVars PROVE ProbeInv'
<1> USE DEF probeVars
<1>1. ShownFromSysfs => ShownFromSysfs'
  BY DEF ShownFromSysfs, Numbered
<1>2. ShownByDefault => ShownByDefault'
  BY DEF ShownByDefault, HasNodes
<1>3. NodesInv'
  BY <1>1, <1>2 DEF ProbeInv, NodesInv
<1>4. Probe!TypeOK'
  BY DEF ProbeInv, Probe!TypeOK
<1>5. CpusInv' /\ FailedInv' /\ Probe!SecondFailureCrashes'
  BY DEF ProbeInv, CpusInv, FailedInv, HasNodes, Probe!SecondFailureCrashes
<1> QED
  BY <1>3, <1>4, <1>5 DEF ProbeInv

-----------------------------------------------------------------------------
(* Remainders, and what goes round in turn.                                 *)

LEMMA Remainder ==
  ASSUME NEW m \in Nat \ {0}, NEW q \in Int, NEW r \in 0..m - 1, NEW a \in Int, a = m * q + r
  PROVE  a % m = r
<1>1. PICK d, s : d = a \div m /\ s = a % m
  OBVIOUS
<1>2. d \in Int /\ s \in Int /\ 0 <= s /\ s < m /\ a = m * d + s
  BY <1>1
<1>3. m * (d - q) = r - s
  BY <1>2
<1>4. d - q >= 1 => m * (d - q) >= m
  BY <1>2
<1>5. d - q <= -1 => m * (d - q) <= -m
  BY <1>2
<1>6. d = q
  BY <1>2, <1>3, <1>4, <1>5
<1> QED
  BY <1>1, <1>2, <1>3, <1>6

(* The remainder of the next number is the next one, or 0 again.            *)
LEMMA NextRemainder ==
  ASSUME NEW m \in Nat \ {0}, NEW a \in Nat
  PROVE  /\ a % m \in 0..m - 1
         /\ (a + 1) % m = IF a % m = m - 1 THEN 0 ELSE (a % m) + 1
<1>1. PICK d, s : d = a \div m /\ s = a % m
  OBVIOUS
<1>2. d \in Int /\ s \in 0..m - 1 /\ a = m * d + s
  BY <1>1
<1>3. CASE s = m - 1
  <2>1. a + 1 = m * (d + 1) + 0
    BY <1>2, <1>3
  <2>2. (a + 1) % m = 0
    BY <1>2, <2>1, Remainder
  <2> QED
    BY <1>1, <1>2, <1>3, <2>2
<1>4. CASE s # m - 1
  <2>1. a + 1 = m * d + (s + 1) /\ s + 1 \in 0..m - 1
    BY <1>2, <1>4
  <2>2. (a + 1) % m = s + 1
    BY <1>2, <2>1, Remainder
  <2> QED
    BY <1>1, <1>2, <1>4, <2>2
<1> QED
  BY <1>3, <1>4

(* A whole turn before is the same place.                                   *)
LEMMA SameRemainder ==
  ASSUME NEW m \in Nat \ {0}, NEW a \in Nat, a - m \in Nat
  PROVE  (a - m) % m = a % m
<1>1. PICK d, s : d = a \div m /\ s = a % m
  OBVIOUS
<1>2. d \in Int /\ s \in 0..m - 1 /\ a = m * d + s
  BY <1>1
<1>3. a - m = m * (d - 1) + s
  BY <1>2
<1>4. (a - m) % m = s
  BY <1>2, <1>3, Remainder
<1> QED
  BY <1>1, <1>4

(* The first l of them that are n.                                          *)
Turns(m, l, n) == {i \in 1..l : (i - 1) % m = n}

(* After l steps of a round of m each has had the same number of turns, and *)
(* those before the next one have had one more.                             *)
LEMMA TurnsAlike ==
  ASSUME NEW m \in Nat \ {0}, NEW l \in Nat
  PROVE  \E q \in Nat : \A n \in 0..m - 1 :
           /\ IsFiniteSet(Turns(m, l, n))
           /\ Cardinality(Turns(m, l, n)) = IF n < l % m THEN q + 1 ELSE q
<1> DEFINE Alike(k, q) == \A n \in 0..m - 1 :
             /\ IsFiniteSet(Turns(m, k, n))
             /\ Cardinality(Turns(m, k, n)) = IF n < k % m THEN q + 1 ELSE q
<1>1. PICK S : S = {k \in Nat : \E q \in Nat : Alike(k, q)}
  OBVIOUS
<1>2. 0 \in S
  <2>1. 0 % m = 0
    <3>1. 0 = m * 0 + 0 /\ 0 \in 0..m - 1
      OBVIOUS
    <3> QED
      BY <3>1, Remainder
  <2>2. \A n : Turns(m, 0, n) = {}
    BY DEF Turns
  <2>3. Alike(0, 0)
    BY <2>1, <2>2, FS_EmptySet
  <2> QED
    BY <1>1, <2>3
<1>3. ASSUME NEW k \in Nat, k \in S PROVE k + 1 \in S
  <2>1. PICK q \in Nat : Alike(k, q)
    BY <1>1, <1>3
  <2>2. PICK r : r = k % m
    OBVIOUS
  <2>3. r \in 0..m - 1 /\ (k + 1) % m = IF r = m - 1 THEN 0 ELSE r + 1
    BY <2>2, NextRemainder
  <2>4. \A n : Turns(m, k + 1, n) = IF n = r THEN Turns(m, k, n) \cup {k + 1} ELSE Turns(m, k, n)
    <3> TAKE n
    <3>1. \A i : i \in 1..k + 1 <=> i \in 1..k \/ i = k + 1
      OBVIOUS
    <3>2. k + 1 - 1 = k
      OBVIOUS
    <3> QED
      BY <2>2, <3>1, <3>2 DEF Turns
  <2>5. \A n : k + 1 \notin Turns(m, k, n)
    BY DEF Turns
  <2>6. ASSUME NEW n \in 0..m - 1
        PROVE  /\ IsFiniteSet(Turns(m, k + 1, n))
               /\ Cardinality(Turns(m, k + 1, n)) = IF n <= r THEN q + 1 ELSE q
    <3>1. IsFiniteSet(Turns(m, k, n)) /\ Cardinality(Turns(m, k, n)) = IF n < r THEN q + 1 ELSE q
      BY <2>1, <2>2
    <3>2. CASE n = r
      <4>1. PICK T : T = Turns(m, k, n)
        OBVIOUS
      <4>2. IsFiniteSet(T) /\ Cardinality(T) = q /\ k + 1 \notin T
        BY <2>3, <2>5, <3>1, <3>2, <4>1
      <4>3. IsFiniteSet(T \cup {k + 1}) /\ Cardinality(T \cup {k + 1}) = q + 1
        BY <4>2, FS_AddElement
      <4>4. Turns(m, k + 1, n) = T \cup {k + 1}
        BY <2>4, <3>2, <4>1
      <4>5. n <= r
        BY <2>3, <3>2
      <4> QED
        BY <4>3, <4>4, <4>5
    <3>3. CASE n # r
      <4>1. Turns(m, k + 1, n) = Turns(m, k, n)
        BY <2>4, <3>3
      <4>2. n < r <=> n <= r
        BY <2>3, <3>3
      <4> QED
        BY <3>1, <4>1, <4>2
    <3> QED
      BY <3>2, <3>3
  <2>7. CASE r = m - 1
    <3>1. Alike(k + 1, q + 1)
      <4>1. (k + 1) % m = 0
        BY <2>3, <2>7
      <4>2. \A n \in 0..m - 1 : n <= r /\ ~(n < 0)
        BY <2>3, <2>7
      <4> QED
        BY <2>6, <4>1, <4>2
    <3> QED
      BY <1>1, <3>1
  <2>8. CASE r # m - 1
    <3>1. Alike(k + 1, q)
      <4>1. (k + 1) % m = r + 1
        BY <2>3, <2>8
      <4>2. \A n \in 0..m - 1 : n <= r <=> n < r + 1
        BY <2>3
      <4> QED
        BY <2>6, <4>1, <4>2
    <3> QED
      BY <1>1, <3>1
  <2> QED
    BY <2>7, <2>8
<1>4. l \in S
  <2>1. Nat \subseteq S
    BY <1>2, <1>3, ByInduction
  <2> QED
    BY <2>1
<1> QED
  BY <1>1, <1>4

-----------------------------------------------------------------------------
(* One sequence of several.                                                 *)

(* What FlattenSeq computes, for the first k.                               *)
Flat(seqs, g, k) == g = [i \in 1..k |-> IF i = 1 THEN seqs[i] ELSE g[i - 1] \o seqs[i]]

(* One more.                                                                *)
LEMMA FlattenedUpTo ==
  ASSUME NEW T, NEW seqs \in Seq(Seq(T)), NEW k \in Nat, k + 1 <= Len(seqs),
         NEW g, Flat(seqs, g, k), \A i \in 1..k : g[i] \in Seq(T)
  PROVE  \E f : Flat(seqs, f, k + 1) /\ \A i \in 1..k + 1 : f[i] \in Seq(T)
<1>1. PICK f : f = [i \in 1..k + 1 |->
                      IF i <= k THEN g[i] ELSE IF i = 1 THEN seqs[i] ELSE g[i - 1] \o seqs[i]]
  OBVIOUS
<1>2. ASSUME NEW i \in 1..k + 1 PROVE f[i] = IF i = 1 THEN seqs[i] ELSE f[i - 1] \o seqs[i]
  <2>1. CASE i <= k
    <3>1. i \in 1..k /\ f[i] = g[i] /\ (i # 1 => i - 1 \in 1..k + 1 /\ f[i - 1] = g[i - 1])
      BY <1>1, <2>1
    <3>2. g[i] = IF i = 1 THEN seqs[i] ELSE g[i - 1] \o seqs[i]
      BY <3>1 DEF Flat
    <3> QED
      BY <3>1, <3>2
  <2>2. CASE i = k + 1
    <3>1. f[i] = IF i = 1 THEN seqs[i] ELSE g[i - 1] \o seqs[i]
      BY <1>1, <2>2
    <3>2. i # 1 => i - 1 \in 1..k + 1 /\ f[i - 1] = g[i - 1]
      BY <1>1, <2>2
    <3> QED
      BY <3>1, <3>2
  <2> QED
    BY <2>1, <2>2
<1>3. Flat(seqs, f, k + 1)
  BY <1>1, <1>2, ZenonT(60) DEF Flat
<1>4. ASSUME NEW i \in 1..k + 1 PROVE f[i] \in Seq(T)
  <2>1. i \in 1..Len(seqs)
    OBVIOUS
  <2>2. seqs[i] \in Seq(T)
    BY <2>1
  <2>3. CASE i <= k
    BY <1>1, <2>3
  <2>4. CASE i > k /\ i = 1
    BY <1>1, <2>2, <2>4
  <2>5. CASE i > k /\ i # 1
    <3>1. i - 1 \in 1..k
      BY <2>5
    <3>2. g[i - 1] \in Seq(T)
      BY <3>1
    <3>3. f[i] = IF i <= k THEN g[i] ELSE IF i = 1 THEN seqs[i] ELSE g[i - 1] \o seqs[i]
      BY <1>1, Zenon
    <3>4. ~(i <= k) /\ i # 1
      BY <2>5
    <3>5. f[i] = g[i - 1] \o seqs[i]
      BY <3>3, <3>4, Zenon
    <3> QED
      BY <2>2, <3>2, <3>5
  <2> QED
    BY <2>3, <2>4, <2>5
<1> QED
  BY <1>3, <1>4

(* Sequences of some elements give a sequence of them.                      *)
LEMMA Flattened ==
  ASSUME NEW T, NEW seqs \in Seq(Seq(T))
  PROVE  Place!FlattenSeq(seqs) \in Seq(T)
<1>1. PICK S : S = {k \in Nat : k <= Len(seqs) =>
                      \E f : Flat(seqs, f, k) /\ \A i \in 1..k : f[i] \in Seq(T)}
  OBVIOUS
<1>2. 0 \in S
  <2>1. PICK f : f = [i \in 1..0 |-> seqs[i]]
    OBVIOUS
  <2>2. Flat(seqs, f, 0)
    BY <2>1 DEF Flat
  <2>3. \A i \in 1..0 : f[i] \in Seq(T)
    OBVIOUS
  <2> QED
    BY <1>1, <2>2, <2>3
<1>3. ASSUME NEW k \in Nat, k \in S PROVE k + 1 \in S
  <2>1. CASE k + 1 <= Len(seqs)
    <3>1. PICK g : Flat(seqs, g, k) /\ \A i \in 1..k : g[i] \in Seq(T)
      BY <1>1, <1>3, <2>1
    <3>2. \E f : Flat(seqs, f, k + 1) /\ \A i \in 1..k + 1 : f[i] \in Seq(T)
      BY <2>1, <3>1, FlattenedUpTo
    <3> QED
      BY <1>1, <3>2
  <2>2. CASE ~(k + 1 <= Len(seqs))
    BY <1>1, <2>2
  <2> QED
    BY <2>1, <2>2
<1>4. Nat \subseteq S
  BY <1>2, <1>3, ByInduction
<1>5. PICK n \in Nat : n = Len(seqs)
  OBVIOUS
<1>6. CASE n = 0
  <2>1. Place!FlattenSeq(seqs) = seqs
    BY <1>5, <1>6 DEF Place!FlattenSeq
  <2>2. seqs = << >>
    BY <1>5, <1>6, EmptySeq
  <2>3. << >> \in Seq(T)
    OBVIOUS
  <2> QED
    BY <2>1, <2>2, <2>3
<1>7. CASE n # 0
  <2>1. \E f : Flat(seqs, f, n) /\ \A i \in 1..n : f[i] \in Seq(T)
    BY <1>1, <1>4, <1>5
  <2>2. PICK f : /\ f = CHOOSE x : x = [i \in 1..Len(seqs) |-> IF i = 1 THEN seqs[i] ELSE x[i - 1] \o seqs[i]]
                 /\ Place!FlattenSeq(seqs) = f[Len(seqs)]
    BY <1>5, <1>7 DEF Place!FlattenSeq
  <2>3. f = [i \in 1..n |-> IF i = 1 THEN seqs[i] ELSE f[i - 1] \o seqs[i]]
    BY <1>5, <2>1, <2>2 DEF Flat
  <2>4. PICK U : U = {k \in Nat : k + 1 <= n => f[k + 1] \in Seq(T)}
    OBVIOUS
  <2>5. \A i \in 1..n : seqs[i] \in Seq(T)
    BY <1>5
  <2>6. 0 \in U
    <3>1. 1 \in 1..n
      BY <1>7
    <3>2. f[1] = seqs[1]
      BY <2>3, <3>1
    <3> QED
      BY <2>4, <2>5, <3>1, <3>2
  <2>7. ASSUME NEW k \in Nat, k \in U PROVE k + 1 \in U
    <3>1. CASE k + 1 + 1 <= n
      <4>1. PICK j \in 1..n : j = k + 1 + 1
        BY <3>1
      <4>2. j # 1 /\ j - 1 = k + 1
        BY <4>1
      <4>3. f[j] = IF j = 1 THEN seqs[j] ELSE f[j - 1] \o seqs[j]
        BY <2>3, Zenon
      <4>4. f[j] = f[k + 1] \o seqs[j]
        BY <4>2, <4>3, Zenon
      <4>5. f[k + 1] \in Seq(T) /\ seqs[j] \in Seq(T)
        BY <2>4, <2>5, <2>7, <4>1
      <4>6. f[j] \in Seq(T)
        BY <4>4, <4>5
      <4> QED
        BY <2>4, <4>1, <4>6
    <3>2. CASE ~(k + 1 + 1 <= n)
      BY <2>4, <3>2
    <3> QED
      BY <3>1, <3>2
  <2>8. Nat \subseteq U
    BY <2>6, <2>7, ByInduction
  <2>9. n - 1 \in Nat /\ n - 1 + 1 = n
    BY <1>7
  <2>10. f[n] \in Seq(T)
    <3>1. n - 1 + 1 <= n /\ n - 1 \in U
      BY <2>8, <2>9
    <3>2. f[n - 1 + 1] \in Seq(T)
      BY <2>4, <3>1
    <3> QED
      BY <2>9, <3>2
  <2> QED
    BY <1>5, <2>2, <2>10
<1> QED
  BY <1>6, <1>7

-----------------------------------------------------------------------------
(* The physical cores.                                                      *)

(* The tables of harness_get_physical_cores.                                *)
CoreState == [map : [Place!Cpus -> Nat], seen : SUBSET Place!Cpus, num : Nat]

(* The CPUs seen are whole cores, numbered from 0 without a gap.            *)
WholeCores(acc) ==
  /\ \A c \in acc.seen, d \in Place!Cpus : machine.core[c] = machine.core[d] => d \in acc.seen
  /\ \A c, d \in acc.seen : acc.map[c] = acc.map[d] <=> machine.core[c] = machine.core[d]
  /\ \A c \in acc.seen : acc.map[c] < acc.num
  /\ \A n \in 0..acc.num - 1 : \E c \in acc.seen : acc.map[c] = n

(* What they hold when k CPUs have been looked at.                          *)
Scanned(k, acc) ==
  /\ acc \in CoreState
  /\ \A c \in Place!Cpus : c < k => c \in acc.seen
  /\ machine.unreadable = {} => WholeCores(acc)

(* The machine and the limits.                                              *)
LEMMA Machine ==
  ASSUME machine \in Machines
  PROVE  /\ Ncpu \in Nat \ {0} /\ NumInstances \in Nat \ {0} /\ MaxPins \in Nat \ {0}
         /\ machine.core \in [Place!Cpus -> Nat] /\ machine.unreadable \subseteq Place!Cpus
         /\ machine.nodes \in Seq(SUBSET Place!Cpus)
         /\ 0 \in Place!Cpus
  BY TopologyAssumption DEF Place!TopologyAssumption, Place!Cpus

(* One more core.                                                           *)
LEMMA ClaimKeeps ==
  ASSUME machine \in Machines, NEW c \in Place!Cpus, NEW acc, Scanned(c, acc), c \notin acc.seen
  PROVE  Scanned(c + 1, Place!Claim(acc, c))
<1>1. PICK C : C = Place!Cpus
  OBVIOUS
<1>2. PICK mine : mine = {c} \cup Place!Siblings(c)
  OBVIOUS
<1>3. PICK n, m, seen : n = acc.num /\ m = acc.map /\ seen = acc.seen
  OBVIOUS
<1>4. n \in Nat /\ m \in [C -> Nat] /\ seen \subseteq C
  BY <1>1, <1>3 DEF Scanned, CoreState
<1>5. mine \subseteq C /\ c \in mine
  BY <1>1, <1>2 DEF Place!Siblings
<1>6. PICK map : map = [s \in C |-> IF s \in mine THEN n ELSE m[s]]
  OBVIOUS
<1>7. Place!Claim(acc, c) = [map |-> map, seen |-> seen \cup mine, num |-> n + 1]
  BY <1>1, <1>2, <1>3, <1>6 DEF Place!Claim
<1>8. PICK claimed : claimed = Place!Claim(acc, c)
  OBVIOUS
<1>9. claimed.map = map /\ claimed.seen = seen \cup mine /\ claimed.num = n + 1
  BY <1>7, <1>8
<1>10. claimed \in CoreState
  <2>1. map \in [C -> Nat]
    BY <1>4, <1>6
  <2> QED
    BY <1>1, <1>4, <1>5, <1>7, <1>8, <2>1 DEF CoreState
<1>11. \A d \in C : d < c + 1 => d \in claimed.seen
  <2> TAKE d \in C
  <2>1. d \in Int /\ c \in Int
    BY <1>1 DEF Place!Cpus
  <2>2. d < c + 1 => d < c \/ d = c
    BY <2>1
  <2> QED
    BY <1>1, <1>3, <1>5, <1>9, <2>2 DEF Scanned
<1>12. ASSUME machine.unreadable = {} PROVE WholeCores(claimed)
  <2>1. mine = {s \in C : machine.core[s] = machine.core[c]}
    BY <1>1, <1>2, <1>12 DEF Place!Siblings
  <2>2. /\ \A a \in seen, d \in C : machine.core[a] = machine.core[d] => d \in seen
        /\ \A a, d \in seen : m[a] = m[d] <=> machine.core[a] = machine.core[d]
        /\ \A a \in seen : m[a] < n
        /\ \A j \in 0..n - 1 : \E a \in seen : m[a] = j
    BY <1>1, <1>3, <1>12 DEF Scanned, WholeCores
  <2>3. \A a \in seen : a \notin mine
    BY <1>1, <1>3, <1>4, <2>1, <2>2
  <2>4. \A a \in seen : map[a] = m[a] /\ m[a] \in Nat
    BY <1>4, <1>6, <2>3
  <2>5. \A a \in mine : map[a] = n
    BY <1>5, <1>6
  <2>6. \A a \in claimed.seen, d \in C : machine.core[a] = machine.core[d] => d \in claimed.seen
    BY <1>9, <2>1, <2>2
  <2>7. \A a, d \in claimed.seen : map[a] = map[d] <=> machine.core[a] = machine.core[d]
    <3> TAKE a, d \in claimed.seen
    <3>1. CASE a \in seen /\ d \in seen
      BY <2>2, <2>4, <3>1
    <3>2. CASE a \in mine /\ d \in mine
      BY <2>1, <2>5, <3>2
    <3>3. CASE a \in seen /\ d \in mine
      <4>1. map[a] # map[d]
        BY <1>4, <2>2, <2>4, <2>5, <3>3
      <4>2. machine.core[a] # machine.core[d]
        BY <1>4, <2>1, <2>3, <3>3
      <4> QED
        BY <4>1, <4>2
    <3>4. CASE a \in mine /\ d \in seen
      <4>1. map[a] # map[d]
        BY <1>4, <2>2, <2>4, <2>5, <3>4
      <4>2. machine.core[a] # machine.core[d]
        BY <1>4, <2>1, <2>3, <3>4
      <4> QED
        BY <4>1, <4>2
    <3> QED
      BY <1>9, <3>1, <3>2, <3>3, <3>4
  <2>8. \A a \in claimed.seen : map[a] < n + 1
    <3> TAKE a \in claimed.seen
    <3>1. CASE a \in seen
      BY <1>4, <2>2, <2>4, <3>1
    <3>2. CASE a \in mine
      BY <1>4, <2>5, <3>2
    <3> QED
      BY <1>9, <3>1, <3>2
  <2>9. \A j \in 0..n : \E a \in claimed.seen : map[a] = j
    <3> TAKE j \in 0..n
    <3>1. CASE j = n
      BY <1>5, <1>9, <2>5, <3>1
    <3>2. CASE j # n
      <4>1. j \in 0..n - 1
        BY <1>4, <3>2
      <4>2. PICK a \in seen : m[a] = j
        BY <2>2, <4>1
      <4> QED
        BY <1>9, <2>4, <4>2
    <3> QED
      BY <3>1, <3>2
  <2>10. /\ \A a \in claimed.seen : claimed.map[a] < claimed.num
         /\ \A j \in 0..claimed.num - 1 : \E a \in claimed.seen : claimed.map[a] = j
    <3>1. claimed.num - 1 = n
      BY <1>4, <1>9
    <3>2. \A a \in claimed.seen : claimed.map[a] < claimed.num
      BY <1>9, <2>8
    <3>3. \A j \in 0..claimed.num - 1 : \E a \in claimed.seen : claimed.map[a] = j
      BY <1>9, <2>9, <3>1, Zenon
    <3> QED
      BY <3>2, <3>3
  <2>11. \A a, d \in claimed.seen : claimed.map[a] = claimed.map[d] <=> machine.core[a] = machine.core[d]
    BY <1>9, <2>7
  <2> QED
    BY <1>1, <2>6, <2>10, <2>11, Zenon DEF WholeCores
<1> QED
  BY <1>1, <1>8, <1>10, <1>11, <1>12 DEF Scanned

(* The loop over the CPUs.                                                  *)
ScanUpTo(f, n) ==
  f = [k \in 0..n |-> IF k = 0 THEN Place!Nothing
                      ELSE IF k - 1 \in f[k - 1].seen THEN f[k - 1]
                      ELSE Place!Claim(f[k - 1], k - 1)]

(* The recursive function is one.                                           *)
LEMMA ScanExists ==
  ASSUME NEW n \in Nat
  PROVE  \E f : ScanUpTo(f, n)
<1>1. PICK S : S = {k \in Nat : \E f : ScanUpTo(f, k)}
  OBVIOUS
<1>2. 0 \in S
  <2>1. PICK f : f = [k \in 0..0 |-> Place!Nothing]
    OBVIOUS
  <2>2. f = [k \in 0..0 |-> IF k = 0 THEN Place!Nothing
                            ELSE IF k - 1 \in f[k - 1].seen THEN f[k - 1]
                            ELSE Place!Claim(f[k - 1], k - 1)]
    <3>1. \A k \in 0..0 : k = 0
      OBVIOUS
    <3> QED
      BY <2>1, <3>1
  <2> QED
    BY <1>1, <2>2 DEF ScanUpTo
<1>3. ASSUME NEW l \in Nat, l \in S PROVE l + 1 \in S
  <2>1. PICK g : ScanUpTo(g, l)
    BY <1>1, <1>3
  <2>2. PICK last : last = IF l \in g[l].seen THEN g[l] ELSE Place!Claim(g[l], l)
    OBVIOUS
  <2>3. PICK f : f = [k \in 0..l + 1 |-> IF k <= l THEN g[k] ELSE last]
    OBVIOUS
  <2>4. ASSUME NEW k \in 0..l + 1
        PROVE  f[k] = IF k = 0 THEN Place!Nothing
                      ELSE IF k - 1 \in f[k - 1].seen THEN f[k - 1]
                      ELSE Place!Claim(f[k - 1], k - 1)
    <3>1. CASE k <= l
      <4>1. k \in 0..l /\ f[k] = g[k] /\ (k # 0 => k - 1 \in 0..l + 1 /\ f[k - 1] = g[k - 1])
        BY <2>3, <3>1
      <4>2. g[k] = IF k = 0 THEN Place!Nothing
                   ELSE IF k - 1 \in g[k - 1].seen THEN g[k - 1]
                   ELSE Place!Claim(g[k - 1], k - 1)
        BY <2>1, <4>1, Zenon DEF ScanUpTo
      <4> QED
        BY <4>1, <4>2, Zenon
    <3>2. CASE k = l + 1
      <4>1. f[k] = last /\ k # 0 /\ k - 1 = l /\ f[l] = g[l]
        BY <2>3, <3>2
      <4> QED
        BY <2>2, <4>1, Zenon
    <3> QED
      BY <3>1, <3>2
  <2>5. ScanUpTo(f, l + 1)
    BY <2>3, <2>4, Zenon DEF ScanUpTo
  <2> QED
    BY <1>1, <2>5
<1>4. Nat \subseteq S
  BY <1>2, <1>3, ByInduction
<1> QED
  BY <1>1, <1>4

(* When all CPUs have been looked at.                                       *)
LEMMA CoresFound ==
  ASSUME machine \in Machines
  PROVE  Scanned(Ncpu, Place!harness_get_physical_cores)
<1>1. Ncpu \in Nat
  BY Machine
<1>2. PICK f : /\ f = CHOOSE x : ScanUpTo(x, Ncpu)
               /\ Place!Scan = f
  BY Zenon DEF Place!Scan, ScanUpTo
<1>3. ScanUpTo(f, Ncpu)
  BY <1>1, <1>2, ScanExists
<1>4. PICK S : S = {k \in Nat : k <= Ncpu => Scanned(k, f[k])}
  OBVIOUS
<1>5. 0 \in S
  <2>1. 0 \in 0..Ncpu
    BY <1>1
  <2>2. f[0] = Place!Nothing
    BY <1>3, <2>1 DEF ScanUpTo
  <2>3. /\ Place!Nothing \in CoreState /\ Place!Nothing.seen = {} /\ Place!Nothing.num = 0
    BY DEF Place!Nothing, CoreState
  <2>4. Scanned(0, Place!Nothing)
    BY <2>3 DEF Scanned, WholeCores, Place!Cpus
  <2> QED
    BY <1>4, <2>2, <2>4
<1>6. ASSUME NEW k \in Nat, k \in S PROVE k + 1 \in S
  <2>1. CASE k + 1 <= Ncpu
    <3>1. Scanned(k, f[k]) /\ k \in Place!Cpus
      BY <1>1, <1>4, <1>6, <2>1 DEF Place!Cpus
    <3>2. PICK j \in 0..Ncpu : j = k + 1
      BY <1>1, <2>1
    <3>3. j # 0 /\ j - 1 = k
      BY <3>2
    <3>4. f[j] = IF j = 0 THEN Place!Nothing
                 ELSE IF j - 1 \in f[j - 1].seen THEN f[j - 1]
                 ELSE Place!Claim(f[j - 1], j - 1)
      BY <1>3, Zenon DEF ScanUpTo
    <3>5. f[j] = IF k \in f[k].seen THEN f[k] ELSE Place!Claim(f[k], k)
      BY <3>3, <3>4, Zenon
    <3>6. CASE k \in f[k].seen
      <4>1. f[j] = f[k]
        BY <3>5, <3>6
      <4>2. \A c \in Place!Cpus : c < k + 1 => c < k \/ c = k
        BY DEF Place!Cpus
      <4>3. Scanned(k + 1, f[k])
        BY <3>1, <3>6, <4>2 DEF Scanned
      <4> QED
        BY <1>4, <3>2, <4>1, <4>3
    <3>7. CASE k \notin f[k].seen
      <4>1. Scanned(k + 1, Place!Claim(f[k], k))
        BY <3>1, <3>7, ClaimKeeps
      <4> QED
        BY <1>4, <3>2, <3>5, <3>7, <4>1
    <3> QED
      BY <3>6, <3>7
  <2>2. CASE ~(k + 1 <= Ncpu)
    BY <1>4, <2>2
  <2> QED
    BY <2>1, <2>2
<1>7. Nat \subseteq S
  BY <1>5, <1>6, ByInduction
<1>8. Scanned(Ncpu, f[Ncpu])
  <2>1. Ncpu <= Ncpu
    BY <1>1
  <2> QED
    BY <1>1, <1>4, <1>7, <2>1
<1> QED
  BY <1>2, <1>8 DEF Place!harness_get_physical_cores

-----------------------------------------------------------------------------
(* What is asked for.                                                       *)

(* The CPUs of a part are CPUs that exist.                                  *)
LEMMA Expanded ==
  ASSUME Ncpu \in Nat \ {0}, NEW p \in Place!Parts
  PROVE  Place!Expand(p) \in Seq(Place!Cpus)
<1>1. CASE p \in [1..2 -> Nat]
  <2>1. Len(p) = 2
    BY <1>1, LenProperties, SeqDef
  <2>2. PICK a, b : a = p[1] /\ b = IF p[2] < Ncpu THEN p[2] ELSE Ncpu - 1
    OBVIOUS
  <2>3. a \in Nat /\ b \in Nat /\ b < Ncpu
    BY <1>1, <2>2
  <2>4. PICK n \in Nat : n = IF a <= b THEN b - a + 1 ELSE 0
    <3>1. (IF a <= b THEN b - a + 1 ELSE 0) \in Nat
      BY <2>3
    <3> QED
      BY <3>1
  <2>5. ASSUME NEW j \in 1..n PROVE a + j - 1 \in Place!Cpus
    BY <2>3, <2>4 DEF Place!Cpus
  <2>6. [j \in 1..n |-> a + j - 1] \in Seq(Place!Cpus)
    BY <2>5
  <2>7. Place!Expand(p) = [j \in 1..n |-> a + j - 1]
    BY <2>1, <2>2, <2>4 DEF Place!Expand, Place!Upto
  <2> QED
    BY <2>6, <2>7
<1>2. CASE p \in [1..1 -> Nat]
  <2>1. Len(p) = 1
    BY <1>2, LenProperties, SeqDef
  <2>2. CASE p[1] < Ncpu
    <3>1. p[1] \in Place!Cpus
      BY <1>2, <2>2 DEF Place!Cpus
    <3>2. p \in [1..1 -> Place!Cpus]
      BY <1>2, <3>1
    <3>3. p \in Seq(Place!Cpus)
      <4>1. PICK n \in Nat : n = 1
        OBVIOUS
      <4>2. p \in [1..n -> Place!Cpus]
        BY <3>2, <4>1
      <4> QED
        BY <4>2, SeqDef
    <3> QED
      BY <2>1, <2>2, <3>3 DEF Place!Expand
  <2>3. CASE ~(p[1] < Ncpu)
    <3>1. << >> \in Seq(Place!Cpus)
      OBVIOUS
    <3> QED
      BY <2>1, <2>3, <3>1 DEF Place!Expand
  <2> QED
    BY <2>2, <2>3
<1> QED
  BY <1>1, <1>2 DEF Place!Parts

(* So are those of --cpu-pin (harness_parse_cpu_spec).                      *)
LEMMA PinsParsed ==
  ASSUME machine \in Machines, pin \in PinSpecs
  PROVE  Place!harness_parse_cpu_spec(pin) \in Seq(Place!Cpus)
<1>0. /\ Ncpu \in Nat \ {0} /\ MaxPins \in Nat \ {0}
      /\ machine.nodes \in Seq(SUBSET Place!Cpus)
  BY Machine
<1>1. /\ pin.mode \in {"auto", "auto-all", "auto-numa", "list"}
      /\ pin.mode = "list" => pin.parts \in Seq(Place!Parts)
  BY TopologyAssumption DEF Place!TopologyAssumption
<1>2. CASE pin.mode = "auto"
  <2>1. << >> \in Seq(Place!Cpus)
    OBVIOUS
  <2> QED
    BY <1>2, <2>1 DEF Place!harness_parse_cpu_spec
<1>3. CASE pin.mode = "auto-all"
  <2>1. ASSUME NEW j \in 1..Ncpu PROVE 0 + j - 1 \in Place!Cpus
    BY <1>0 DEF Place!Cpus
  <2>2. [j \in 1..Ncpu |-> 0 + j - 1] \in Seq(Place!Cpus)
    BY <1>0, <2>1
  <2>3. (IF 0 <= Ncpu - 1 THEN Ncpu - 1 - 0 + 1 ELSE 0) = Ncpu
    BY <1>0
  <2>4. Place!Upto(0, Ncpu - 1) = [j \in 1..Ncpu |-> 0 + j - 1]
    BY <2>3 DEF Place!Upto
  <2> QED
    BY <1>3, <2>2, <2>4 DEF Place!harness_parse_cpu_spec
<1>4. CASE pin.mode = "auto-numa"
  <2>1. PICK firsts : firsts = [j \in DOMAIN machine.nodes |->
                                  IF machine.nodes[j] = {} THEN << >>
                                  ELSE << Place!Min(machine.nodes[j]) >>]
    OBVIOUS
  <2>2. ASSUME NEW j \in DOMAIN machine.nodes PROVE firsts[j] \in Seq(Place!Cpus)
    <3>1. PICK on \in SUBSET Place!Cpus : on = machine.nodes[j]
      BY <1>0
    <3>2. CASE on = {}
      <4>1. << >> \in Seq(Place!Cpus)
        OBVIOUS
      <4> QED
        BY <2>1, <3>1, <3>2, <4>1
    <3>3. CASE on # {}
      <4>1. on \subseteq Nat
        BY <1>0 DEF Place!Cpus
      <4>2. Place!Min(on) \in on
        <5>1. Smallest(on) \in on
          BY <3>3, <4>1, HasSmallest
        <5> QED
          BY <5>1 DEF Smallest, Place!Min
      <4>3. << Place!Min(on) >> \in Seq(Place!Cpus)
        BY <4>2
      <4> QED
        BY <2>1, <3>1, <3>3, <4>3
    <3> QED
      BY <3>2, <3>3
  <2>3. firsts \in Seq(Seq(Place!Cpus))
    <3>1. PICK n \in Nat : DOMAIN machine.nodes = 1..n
      BY <1>0
    <3>2. firsts \in [1..n -> Seq(Place!Cpus)]
      BY <2>1, <2>2, <3>1
    <3> QED
      BY <3>2, SeqDef
  <2>4. Place!FlattenSeq(firsts) \in Seq(Place!Cpus)
    BY <2>3, Flattened
  <2> QED
    BY <1>4, <2>1, <2>4 DEF Place!harness_parse_cpu_spec
<1>5. CASE pin.mode = "list"
  <2>1. PICK lists : lists = [j \in DOMAIN pin.parts |-> Place!Expand(pin.parts[j])]
    OBVIOUS
  <2>2. ASSUME NEW j \in DOMAIN pin.parts PROVE Place!Expand(pin.parts[j]) \in Seq(Place!Cpus)
    <3>1. pin.parts[j] \in Place!Parts
      BY <1>1, <1>5
    <3> QED
      BY <1>0, <3>1, Expanded
  <2>3. lists \in Seq(Seq(Place!Cpus))
    BY <1>1, <1>5, <2>1, <2>2
  <2>4. PICK s \in Seq(Place!Cpus) : s = Place!FlattenSeq(lists)
    BY <2>3, Flattened
  <2>5. Place!Prefix(s) \in Seq(Place!Cpus)
    <3>1. PICK n \in 0..Len(s) : n = IF Len(s) < MaxPins THEN Len(s) ELSE MaxPins
      BY <1>0
    <3>2. SubSeq(s, 1, n) \in Seq(Place!Cpus)
      BY <3>1
    <3> QED
      BY <3>1, <3>2 DEF Place!Prefix
  <2> QED
    BY <1>5, <2>1, <2>4, <2>5 DEF Place!harness_parse_cpu_spec
<1> QED
  BY <1>1, <1>2, <1>3, <1>4, <1>5

(* The node each CPU is said to be in.                                      *)
Bound == [Place!Cpus -> Place!AllNodes \cup {Place!Unset}]

(* The override gives a CPU a node that a mask has a bit for, or none       *)
(* (harness_parse_numa_bind).                                               *)
LEMMA TopoParsed ==
  ASSUME machine \in Machines, topo \in TopoSpecs
  PROVE  Place!harness_parse_numa_bind(topo) \in Bound
<1>0. Ncpu \in Nat \ {0}
  BY Machine
<1>1. /\ topo.mode \in {"none", "split", "list"}
      /\ topo.mode = "split" => topo.n \in 1..16
      /\ topo.mode = "list" => topo.parts \in Seq([cpus : Place!Parts, node : Place!AllNodes])
  BY TopologyAssumption DEF Place!TopologyAssumption
<1>2. CASE topo.mode = "none"
  BY <1>2 DEF Place!harness_parse_numa_bind, Place!NoNode, Bound
<1>3. CASE topo.mode = "split"
  <2>1. ASSUME NEW c \in Place!Cpus PROVE c % topo.n \in Place!AllNodes
    <3>1. c \in Nat
      BY <1>0 DEF Place!Cpus
    <3>2. PICK n \in 1..16 : n = topo.n
      BY <1>1, <1>3
    <3>3. c % n \in 0..n - 1
      BY <3>1, NextRemainder
    <3> QED
      BY <3>2, <3>3 DEF Place!AllNodes
  <2> QED
    BY <1>3, <2>1 DEF Place!harness_parse_numa_bind, Bound
<1>4. CASE topo.mode = "list"
  <2>1. ASSUME NEW c \in Place!Cpus, Place!Naming(topo.parts, c) # {}
        PROVE  topo.parts[Place!Max(Place!Naming(topo.parts, c))].node \in Place!AllNodes
    <3>1. PICK S : S = Place!Naming(topo.parts, c)
      OBVIOUS
    <3>2. S \subseteq DOMAIN topo.parts
      BY <3>1 DEF Place!Naming
    <3>3. PICK n \in Nat : n = Len(topo.parts) /\ DOMAIN topo.parts = 1..n
      BY <1>1, <1>4
    <3>4. S \subseteq Int /\ \A y \in S : y <= n
      BY <3>2, <3>3
    <3>5. Greatest(S) \in S
      BY <2>1, <3>1, <3>3, <3>4, HasGreatest
    <3>6. Place!Max(S) \in DOMAIN topo.parts
      BY <3>2, <3>5 DEF Greatest, Place!Max
    <3>7. topo.parts[Place!Max(S)] \in [cpus : Place!Parts, node : Place!AllNodes]
      <4>1. PICK s \in Seq([cpus : Place!Parts, node : Place!AllNodes]) : s = topo.parts
        BY <1>1, <1>4
      <4>2. PICK k \in DOMAIN s : k = Place!Max(S)
        BY <3>6, <4>1
      <4>3. DOMAIN s = 1..Len(s)
        BY LenProperties
      <4>4. s[k] \in [cpus : Place!Parts, node : Place!AllNodes]
        BY <4>3, ElementOfSeq
      <4> QED
        BY <3>1, <4>1, <4>2, <4>4
    <3> QED
      BY <3>1, <3>7
  <2> QED
    BY <1>4, <2>1 DEF Place!harness_parse_numa_bind, Bound
<1> QED
  BY <1>1, <1>2, <1>3, <1>4

(* The nodes are those of the machine, or every CPU is in the one it was    *)
(* given.                                                                   *)
ShownAs(n, c2n) ==
  /\ n \in Seq([cpus : SUBSET Place!Cpus, detected : BOOLEAN])
  /\ c2n # Place!NoNode =>
       /\ \A j \in DOMAIN n : n[j].cpus = {c \in Place!Cpus : c2n[c] = j - 1}
       /\ \A c \in Place!Cpus : c2n[c] # Place!Unset => c2n[c] + 1 \in DOMAIN n

(* The nodes found by the probe.                                            *)
LEMMA DetectedNodes ==
  ASSUME machine \in Machines
  PROVE  Place!Detected \in Seq([cpus : SUBSET Place!Cpus, detected : BOOLEAN])
<1>1. PICK m \in Seq(SUBSET Place!Cpus) : m = machine.nodes
  BY Machine
<1>2. \A j \in DOMAIN m : [cpus |-> m[j], detected |-> TRUE] \in [cpus : SUBSET Place!Cpus, detected : BOOLEAN]
  OBVIOUS
<1>3. [j \in DOMAIN m |-> [cpus |-> m[j], detected |-> TRUE]]
        \in Seq([cpus : SUBSET Place!Cpus, detected : BOOLEAN])
  <2>1. PICK n \in Nat : DOMAIN m = 1..n
    BY <1>1
  <2>2. PICK T : T = [cpus : SUBSET Place!Cpus, detected : BOOLEAN]
    OBVIOUS
  <2>3. PICK g : g = [j \in DOMAIN m |-> [cpus |-> m[j], detected |-> TRUE]]
    OBVIOUS
  <2>4. g \in [1..n -> T]
    BY <1>2, <2>1, <2>2, <2>3
  <2>5. g \in Seq(T)
    BY <2>4, SeqDef
  <2> QED
    BY <2>2, <2>3, <2>5
<1> QED
  BY <1>1, <1>3 DEF Place!Detected

(* The nodes harness_run puts in their place.                               *)
LEMMA NodesRebuilt ==
  ASSUME machine \in Machines, NEW c2n \in Bound, c2n # Place!NoNode
  PROVE  ShownAs(Place!Rebuilt(c2n), c2n)
<1>1. PICK S : S = {c2n[c] : c \in Place!Cpus}
  OBVIOUS
<1>2. \A c \in Place!Cpus : c2n[c] \in -1..63
  BY DEF Bound, Place!AllNodes, Place!Unset
<1>3. S \subseteq Int /\ S # {} /\ \A y \in S : y <= 63
  <2>1. 0 \in Place!Cpus
    BY Machine
  <2> QED
    BY <1>1, <1>2, <2>1
<1>4. PICK max : max = Place!Max(S)
  OBVIOUS
<1>5. max \in S /\ \A y \in S : max >= y
  <2>1. Greatest(S) \in S /\ \A y \in S : Greatest(S) >= y
    <3>1. PICK b \in Int : b = 63
      OBVIOUS
    <3>2. \A y \in S : y <= b
      BY <1>3, <3>1
    <3> QED
      BY <1>3, <3>2, HasGreatest
  <2> QED
    BY <1>4, <2>1 DEF Greatest, Place!Max
<1>6. max \in -1..63
  BY <1>1, <1>2, <1>5
<1>7. PICK k \in Nat : k = max + 1
  BY <1>6
<1>8. PICK n : n = Place!Rebuilt(c2n)
  OBVIOUS
<1>9. n = [j \in 1..k |-> [cpus |-> {c \in Place!Cpus : c2n[c] = j - 1},
                           detected |-> j \in DOMAIN nodes]]
  BY <1>1, <1>4, <1>7, <1>8 DEF Place!Rebuilt
<1>10. n \in Seq([cpus : SUBSET Place!Cpus, detected : BOOLEAN])
  <2>1. \A j \in 1..k : [cpus |-> {c \in Place!Cpus : c2n[c] = j - 1}, detected |-> j \in DOMAIN nodes]
                          \in [cpus : SUBSET Place!Cpus, detected : BOOLEAN]
    OBVIOUS
  <2> QED
    BY <1>9, <2>1
<1>11. DOMAIN n = 1..k /\ \A j \in DOMAIN n : n[j].cpus = {c \in Place!Cpus : c2n[c] = j - 1}
  BY <1>9
<1>12. ASSUME NEW c \in Place!Cpus, c2n[c] # Place!Unset PROVE c2n[c] + 1 \in DOMAIN n
  <2>1. c2n[c] \in -1..63 /\ c2n[c] # -1
    BY <1>2, <1>12 DEF Place!Unset
  <2>2. c2n[c] <= max
    BY <1>1, <1>5
  <2>3. PICK v \in -1..63 : v = c2n[c]
    BY <2>1
  <2>4. v + 1 \in 1..k
    BY <1>6, <1>7, <2>1, <2>2, <2>3
  <2> QED
    BY <1>11, <2>3, <2>4
<1> QED
  BY <1>8, <1>10, <1>11, <1>12 DEF ShownAs

-----------------------------------------------------------------------------
(* The CPUs and memory policies of the instances.                           *)

(* An instance takes the next CPU of the list, or the next core, and the    *)
(* policy of its CPU.                                                       *)
InTurn ==
  /\ Len(policy) = Len(cpu)
  /\ pins # << >> => \A i \in DOMAIN cpu : cpu[i] = pins[((i - 1) % Len(pins)) + 1]
  /\ pins = << >> /\ machine.unreadable = {} =>
       \A i \in DOMAIN cpu : cpu[i] \in Place!Cpus /\ phys.map[cpu[i]] = (i - 1) % phys.num
  /\ \A i \in DOMAIN cpu : cpu[i] \in Place!Cpus => policy[i] = Place!PolicyOf(cpu[i])

(* From the settings to the placement of the instances made so far.         *)
PlaceInv ==
  /\ Place!TypeOK
  /\ tpc \in {"probe", "setup"} =>
       cpu = << >> /\ policy = << >> /\ pins = << >> /\ numa = Place!NoNode
  /\ tpc = "setup" => ShownAs(nodes, Place!harness_parse_numa_bind(topo))
  /\ tpc \in {"fork", "over"} => ShownAs(nodes, numa) /\ Scanned(Ncpu, phys) /\ InTurn

(* Memory policies.                                                         *)
Policies == [mode : {"default", "bind", "interleave"}, mask : SUBSET Place!AllNodes]

(* If every sibling list can be read, each CPU is on one of the cores.      *)
LEMMA CoresNumbered ==
  ASSUME machine \in Machines, machine.unreadable = {}, Scanned(Ncpu, phys)
  PROVE  /\ phys.num \in Nat \ {0}
         /\ \A c \in Place!Cpus : phys.map[c] \in 0..phys.num - 1
         /\ \A c, d \in Place!Cpus : phys.map[c] = phys.map[d] <=> machine.core[c] = machine.core[d]
         /\ \A n \in 0..phys.num - 1 : \E c \in Place!Cpus : phys.map[c] = n
<1>1. phys \in CoreState /\ WholeCores(phys)
  BY DEF Scanned
<1>2. PICK n, m, seen : n = phys.num /\ m = phys.map /\ seen = phys.seen
  OBVIOUS
<1>3. n \in Nat /\ m \in [Place!Cpus -> Nat] /\ seen \subseteq Place!Cpus
  BY <1>1, <1>2 DEF CoreState
<1>4. seen = Place!Cpus
  <2>1. Ncpu \in Nat
    BY Machine
  <2>2. \A c \in Place!Cpus : c < Ncpu
    BY <2>1 DEF Place!Cpus
  <2> QED
    BY <1>2, <1>3, <2>2 DEF Scanned
<1>5. \A c \in Place!Cpus : m[c] < n /\ m[c] \in Nat
  BY <1>1, <1>2, <1>3, <1>4 DEF WholeCores
<1>6. \A c \in Place!Cpus : m[c] \in 0..n - 1
  BY <1>3, <1>5
<1>7. n # 0
  <2>1. 0 \in Place!Cpus
    BY Machine
  <2> QED
    BY <1>3, <1>5, <2>1
<1> QED
  BY <1>1, <1>2, <1>3, <1>4, <1>6, <1>7, Zenon DEF WholeCores

(* Before.                                                                  *)
LEMMA PlaceInit == ASSUME Place!Init PROVE PlaceInv
<1>1. /\ machine \in Machines /\ pin \in PinSpecs /\ topo \in TopoSpecs /\ membind \in Membinds
      /\ tpc = "probe" /\ nodes = Place!Detected /\ phys = Place!Nothing
      /\ pins = << >> /\ numa = Place!NoNode /\ cpu = << >> /\ policy = << >>
  BY DEF Place!Init
<1>2. nodes \in Seq([cpus : SUBSET Place!Cpus, detected : BOOLEAN])
  BY <1>1, DetectedNodes
<1>3. phys \in [map : [Place!Cpus -> Nat], seen : SUBSET Place!Cpus, num : Nat]
  BY <1>1 DEF Place!Nothing
<1>4. numa \in [Place!Cpus -> Place!AllNodes \cup {Place!Unset}]
  BY <1>1 DEF Place!NoNode
<1>5. pins \in Seq(Place!Cpus) /\ cpu \in Seq(Nat) /\ policy \in Seq(Policies)
  BY <1>1
<1>6. Place!TypeOK
  BY <1>1, <1>2, <1>3, <1>4, <1>5 DEF Place!TypeOK, Policies
<1> QED
  BY <1>1, <1>6 DEF PlaceInv

(* The CPU of an instance.                                                  *)
LEMMA Pinned ==
  ASSUME Place!TypeOK, NEW i \in Nat
  PROVE  /\ Place!PinOf(i) \in Nat
         /\ pins # << >> => Place!PinOf(i) = pins[(i % Len(pins)) + 1] /\ Place!PinOf(i) \in Place!Cpus
         /\ pins = << >> /\ machine.unreadable = {} /\ Scanned(Ncpu, phys) =>
              Place!PinOf(i) \in Place!Cpus /\ phys.map[Place!PinOf(i)] = i % phys.num
<1>1. machine \in Machines /\ pins \in Seq(Place!Cpus)
  BY DEF Place!TypeOK
<1>2. Place!Cpus \subseteq Nat
  BY <1>1, Machine DEF Place!Cpus
<1>3. CASE pins # << >>
  <2>1. PICK n \in Nat \ {0} : n = Len(pins) /\ DOMAIN pins = 1..n
    BY <1>1, <1>3, EmptySeq, LenProperties
  <2>2. (i % n) + 1 \in 1..n
    <3>1. i % n \in 0..n - 1
      BY NextRemainder
    <3> QED
      BY <3>1
  <2>3. PICK j \in 1..n : j = (i % Len(pins)) + 1
    BY <2>1, <2>2
  <2>4. pins[j] \in Place!Cpus
    BY <1>1, <2>1, ElementOfSeq
  <2>5. Place!PinOf(i) = pins[j]
    BY <1>3, <2>3 DEF Place!PinOf
  <2> QED
    BY <1>2, <1>3, <2>3, <2>4, <2>5
<1>4. CASE pins = << >>
  <2>1. PICK on : on = {c \in Place!Cpus : phys.map[c] = i % phys.num}
    OBVIOUS
  <2>2. Place!PinOf(i) = IF on # {} THEN Place!Min(on) ELSE i
    BY <1>4, <2>1 DEF Place!PinOf
  <2>3. on # {} => Place!Min(on) \in on
    <3>1. on # {} => Smallest(on) \in on
      BY <1>2, <2>1, HasSmallest
    <3> QED
      BY <3>1 DEF Smallest, Place!Min
  <2>4. Place!PinOf(i) \in Nat
    BY <1>2, <2>1, <2>2, <2>3
  <2>5. ASSUME machine.unreadable = {}, Scanned(Ncpu, phys) PROVE on # {}
    <3>1. PICK n \in Nat \ {0} : n = phys.num
      BY <1>1, <2>5, CoresNumbered
    <3>2. i % n \in 0..n - 1
      BY NextRemainder
    <3>3. \E c \in Place!Cpus : phys.map[c] = i % n
      BY <1>1, <2>5, <3>1, <3>2, CoresNumbered
    <3> QED
      BY <2>1, <3>1, <3>3
  <2> QED
    BY <1>4, <2>1, <2>2, <2>3, <2>4, <2>5
<1> QED
  BY <1>3, <1>4

(* The policy of a CPU is one that set_mempolicy takes.                     *)
LEMMA PolicyType ==
  ASSUME Place!TypeOK, NEW c, c \in Place!Cpus \/ membind # Place!LocalNode
  PROVE  Place!PolicyOf(c) \in Policies
<1>1. /\ numa \in [Place!Cpus -> Place!AllNodes \cup {Place!Unset}]
      /\ membind \in Membinds
  BY DEF Place!TypeOK
<1>2. Membinds \subseteq {Place!LocalNode, Place!Striped} \cup Place!AllNodes
  BY TopologyAssumption DEF Place!TopologyAssumption
<1>3. PICK used : used = {numa[d] : d \in Place!Cpus} \ {Place!Unset}
  OBVIOUS
<1>4. used \subseteq Place!AllNodes
  BY <1>1, <1>3
<1>5. Place!PolicyOf(c) =
        IF membind = Place!Striped
        THEN [mode |-> "interleave", mask |-> IF used = {} THEN Place!AllNodes ELSE used]
        ELSE IF membind # Place!LocalNode THEN [mode |-> "bind", mask |-> {membind}]
        ELSE IF numa[c] # Place!Unset THEN [mode |-> "bind", mask |-> {numa[c]}]
        ELSE [mode |-> "default", mask |-> {}]
  BY <1>3 DEF Place!PolicyOf
<1>6. CASE membind = Place!Striped
  BY <1>4, <1>5, <1>6 DEF Policies
<1>7. CASE membind # Place!Striped /\ membind # Place!LocalNode
  <2>1. membind \in Place!AllNodes
    BY <1>1, <1>2, <1>7
  <2> QED
    BY <1>5, <1>7, <2>1 DEF Policies
<1>8. CASE membind # Place!Striped /\ membind = Place!LocalNode
  <2>1. numa[c] # Place!Unset => numa[c] \in Place!AllNodes
    BY <1>1, <1>8
  <2> QED
    BY <1>5, <1>8, <2>1 DEF Policies
<1> QED
  BY <1>6, <1>7, <1>8

(* One more instance.                                                       *)
LEMMA ForkStep == ASSUME PlaceInv, Place!Fork PROVE PlaceInv'
<1>1. PICK i, c : i = Len(cpu) /\ c = Place!PinOf(i)
  OBVIOUS
<1>2. /\ Place!TypeOK /\ tpc = "fork" /\ Scanned(Ncpu, phys) /\ InTurn
      /\ ShownAs(nodes, numa)
  BY DEF PlaceInv, Place!Fork
<1>3. /\ machine' = machine /\ pin' = pin /\ topo' = topo /\ membind' = membind
      /\ nodes' = nodes /\ phys' = phys /\ pins' = pins /\ numa' = numa
  BY DEF Place!Fork, Place!inputs, Place!statics
<1>4. cpu' = Append(cpu, c) /\ tpc' \in {"fork", "over"}
  BY <1>1, <1>2 DEF Place!Fork
<1>5. \E p : /\ policy' = Append(policy, p)
             /\ c \in Place!Cpus \/ membind # Place!LocalNode => p = Place!PolicyOf(c)
             /\ ~(c \in Place!Cpus \/ membind # Place!LocalNode) => p \in Place!PolicyBeyond
  BY <1>1 DEF Place!Fork
<1>6. PICK p : /\ policy' = Append(policy, p)
               /\ c \in Place!Cpus \/ membind # Place!LocalNode => p = Place!PolicyOf(c)
               /\ ~(c \in Place!Cpus \/ membind # Place!LocalNode) => p \in Place!PolicyBeyond
  BY <1>5
<1>7. machine \in Machines /\ cpu \in Seq(Nat) /\ policy \in Seq(Policies) /\ pins \in Seq(Place!Cpus)
  BY <1>2 DEF Place!TypeOK, Policies
<1>8. i \in Nat /\ DOMAIN cpu = 1..i /\ Len(policy) = i /\ DOMAIN policy = 1..i
  BY <1>1, <1>2, <1>7 DEF InTurn
<1>9. /\ c \in Nat
      /\ pins # << >> => c = pins[(i % Len(pins)) + 1] /\ c \in Place!Cpus
      /\ pins = << >> /\ machine.unreadable = {} =>
           c \in Place!Cpus /\ phys.map[c] = i % phys.num
  BY <1>1, <1>2, <1>8, Pinned
<1>10. p \in Policies
  <2>1. Place!PolicyBeyond \subseteq Policies
    BY DEF Place!PolicyBeyond, Policies, Place!AllNodes
  <2> QED
    BY <1>2, <1>6, <2>1, PolicyType
<1>11. /\ cpu' \in Seq(Nat) /\ Len(cpu') = i + 1 /\ DOMAIN cpu' = 1..i + 1
       /\ \A j \in 1..i : cpu'[j] = cpu[j]
       /\ cpu'[i + 1] = c
  BY <1>1, <1>4, <1>7, <1>8, <1>9
<1>12. /\ policy' \in Seq(Policies) /\ Len(policy') = i + 1
       /\ \A j \in 1..i : policy'[j] = policy[j]
       /\ policy'[i + 1] = p
  BY <1>6, <1>7, <1>8, <1>10
<1>13. \A j \in 1..i + 1 : j \in 1..i \/ (j = i + 1 /\ j - 1 = i)
  BY <1>8
<1>14. Place!TypeOK'
  BY <1>2, <1>3, <1>4, <1>11, <1>12 DEF Place!TypeOK, Policies
<1>15. InTurn'
  <2>1. pins # << >> => \A j \in DOMAIN cpu' : cpu'[j] = pins[((j - 1) % Len(pins)) + 1]
    BY <1>2, <1>8, <1>9, <1>11, <1>13 DEF InTurn
  <2>2. pins = << >> /\ machine.unreadable = {} =>
          \A j \in DOMAIN cpu' : cpu'[j] \in Place!Cpus /\ phys.map[cpu'[j]] = (j - 1) % phys.num
    BY <1>2, <1>8, <1>9, <1>11, <1>13 DEF InTurn
  <2>3. \A j \in DOMAIN cpu' : cpu'[j] \in Place!Cpus => policy'[j] = Place!PolicyOf(cpu'[j])
    BY <1>2, <1>6, <1>8, <1>11, <1>12, <1>13 DEF InTurn
  <2>4. ASSUME NEW j \in DOMAIN cpu', cpu'[j] \in Place!Cpus
        PROVE  policy'[j] = Place!PolicyOf(cpu[j])'
    <3>1. PICK d : d = cpu'[j]
      OBVIOUS
    <3>2. policy'[j] = Place!PolicyOf(d)
      BY <2>3, <2>4, <3>1
    <3> QED
      BY <1>3, <3>1, <3>2 DEF Place!PolicyOf
  <2>5. Len(policy') = Len(cpu')
    BY <1>11, <1>12
  <2> QED
    BY <1>3, <2>1, <2>2, <2>4, <2>5 DEF InTurn
<1>16. Scanned(Ncpu, phys)'
  BY <1>2, <1>3 DEF Scanned, WholeCores
<1>17. ShownAs(nodes, numa)'
  BY <1>2, <1>3 DEF ShownAs
<1> QED
  BY <1>4, <1>14, <1>15, <1>16, <1>17 DEF PlaceInv

(* The nodes are replaced, the static tables made, and nothing else         *)
(* happens before the first instance.                                       *)
LEMMA OverrideStep == ASSUME PlaceInv, Place!Override PROVE PlaceInv'
<1>1. /\ Place!TypeOK /\ tpc = "probe" /\ tpc' = "setup"
      /\ cpu = << >> /\ policy = << >> /\ pins = << >> /\ numa = Place!NoNode
  BY DEF PlaceInv, Place!Override
<1>2. /\ machine' = machine /\ pin' = pin /\ topo' = topo /\ membind' = membind
      /\ phys' = phys /\ pins' = pins /\ numa' = numa /\ cpu' = cpu /\ policy' = policy
  BY DEF Place!Override, Place!inputs, Place!statics
<1>3. PICK c2n : c2n = Place!harness_parse_numa_bind(topo)
  OBVIOUS
<1>4. nodes' = IF c2n = Place!NoNode THEN nodes ELSE Place!Rebuilt(c2n)
  BY <1>3 DEF Place!Override
<1>5. machine \in Machines /\ c2n \in Bound
  BY <1>1, <1>3, TopoParsed DEF Place!TypeOK
<1>6. nodes \in Seq([cpus : SUBSET Place!Cpus, detected : BOOLEAN])
  BY <1>1 DEF Place!TypeOK
<1>7. ShownAs(nodes', c2n)
  <2>1. CASE c2n = Place!NoNode
    BY <1>4, <1>6, <2>1 DEF ShownAs
  <2>2. CASE c2n # Place!NoNode
    BY <1>4, <1>5, <2>2, NodesRebuilt
  <2> QED
    BY <2>1, <2>2
<1>8. Place!TypeOK'
  BY <1>1, <1>2, <1>7 DEF Place!TypeOK, ShownAs
<1>9. Place!harness_parse_numa_bind(topo)' = c2n
  BY <1>2, <1>3 DEF Place!harness_parse_numa_bind
<1>10. ShownAs(nodes, Place!harness_parse_numa_bind(topo))'
  BY <1>7, <1>9 DEF ShownAs
<1> QED
  BY <1>1, <1>2, <1>8, <1>10 DEF PlaceInv

(* The static tables of harness_run_parallel.                               *)
LEMMA SetupStep == ASSUME PlaceInv, Place!Setup PROVE PlaceInv'
<1>1. /\ Place!TypeOK /\ tpc = "setup" /\ tpc' = "fork"
      /\ cpu = << >> /\ policy = << >>
      /\ ShownAs(nodes, Place!harness_parse_numa_bind(topo))
  BY DEF PlaceInv, Place!Setup
<1>2. /\ machine' = machine /\ pin' = pin /\ topo' = topo /\ membind' = membind
      /\ nodes' = nodes /\ cpu' = cpu /\ policy' = policy
  BY DEF Place!Setup, Place!inputs
<1>3. /\ phys' = Place!harness_get_physical_cores
      /\ pins' = Place!harness_parse_cpu_spec(pin)
      /\ numa' = Place!harness_parse_numa_bind(topo)
  BY DEF Place!Setup
<1>4. machine \in Machines /\ pin \in PinSpecs /\ topo \in TopoSpecs
  BY <1>1 DEF Place!TypeOK
<1>5. Scanned(Ncpu, phys') /\ pins' \in Seq(Place!Cpus) /\ numa' \in Bound
  BY <1>3, <1>4, CoresFound, PinsParsed, TopoParsed
<1>6. Place!TypeOK'
  BY <1>1, <1>2, <1>5 DEF Place!TypeOK, Scanned, CoreState, Bound
<1>7. Scanned(Ncpu, phys)'
  BY <1>2, <1>5 DEF Scanned, WholeCores
<1>8. ShownAs(nodes, numa)'
  BY <1>1, <1>2, <1>3 DEF ShownAs
<1>9. InTurn'
  BY <1>1, <1>2 DEF InTurn
<1> QED
  BY <1>1, <1>6, <1>7, <1>8, <1>9 DEF PlaceInv

(* Where nothing happens everything stays.                                  *)
LEMMA PlaceStutter == ASSUME PlaceInv, UNCHANGED placeVars PROVE PlaceInv'
<1>1. /\ machine' = machine /\ pin' = pin /\ topo' = topo /\ membind' = membind
      /\ tpc' = tpc /\ nodes' = nodes /\ phys' = phys /\ pins' = pins /\ numa' = numa
      /\ cpu' = cpu /\ policy' = policy
  BY DEF placeVars
<1>2. Place!TypeOK'
  BY <1>1 DEF PlaceInv, Place!TypeOK
<1>3. Place!harness_parse_numa_bind(topo)' = Place!harness_parse_numa_bind(topo)
  BY <1>1 DEF Place!harness_parse_numa_bind
<1>4. tpc' = "setup" => ShownAs(nodes, Place!harness_parse_numa_bind(topo))'
  BY <1>1, <1>3 DEF PlaceInv, ShownAs
<1>5. tpc' \in {"fork", "over"} => ShownAs(nodes, numa)' /\ Scanned(Ncpu, phys)'
  BY <1>1 DEF PlaceInv, ShownAs, Scanned, WholeCores
<1>6. tpc' \in {"fork", "over"} => InTurn'
  <2>1. SUFFICES ASSUME InTurn PROVE InTurn'
    BY <1>1 DEF PlaceInv
  <2>2. ASSUME NEW i \in DOMAIN cpu, cpu[i] \in Place!Cpus
        PROVE  policy[i] = Place!PolicyOf(cpu[i])'
    <3>1. PICK c : c = cpu[i]
      OBVIOUS
    <3>2. policy[i] = Place!PolicyOf(c)
      BY <2>1, <2>2, <3>1 DEF InTurn
    <3> QED
      BY <1>1, <3>1, <3>2 DEF Place!PolicyOf
  <2> QED
    BY <1>1, <2>1, <2>2 DEF InTurn
<1> QED
  BY <1>1, <1>2, <1>4, <1>5, <1>6 DEF PlaceInv

(* One step of the placement.                                               *)
LEMMA PlaceStep == ASSUME PlaceInv, Place!Next PROVE PlaceInv'
<1>1. Place!Finished => UNCHANGED placeVars
  BY DEF Place!Finished, Place!vars, Place!inputs, Place!statics, placeVars
<1> QED
  BY <1>1, OverrideStep, SetupStep, ForkStep, PlaceStutter DEF Place!Next

(* The cardinality that Topology means.                                     *)
LEMMA PlacesCounted == \A S : Place!Cardinality(S) = Cardinality(S)
  BY DEF Place!Cardinality, Cardinality

(* No core gets a second instance before every core has one, and a list is  *)
(* used in turn (harness.c:340-385, 491-502).                               *)
LEMMA PlacedApart == ASSUME PlaceInv PROVE Place!InstancesApart
<1>1. Place!TypeOK /\ tpc \in {"probe", "setup", "fork", "over"}
  BY DEF PlaceInv, Place!TypeOK
<1>2. machine \in Machines /\ cpu \in Seq(Nat) /\ pins \in Seq(Place!Cpus)
  BY <1>1 DEF Place!TypeOK
<1>3. PICK l \in Nat : l = Len(cpu) /\ DOMAIN cpu = 1..l
  BY <1>2
<1>4. CASE pins # << >>
  <2>1. InTurn
    BY <1>1, <1>4 DEF PlaceInv
  <2>2. PICK n \in Nat \ {0} : n = Len(pins) /\ DOMAIN pins = 1..n
    BY <1>2, <1>4, EmptySeq, LenProperties
  <2>3. ASSUME NEW i \in 1..l
        PROVE  /\ cpu[i] \in Place!Cpus
               /\ i > n => cpu[i] = cpu[i - n]
    <3>1. cpu[i] = pins[((i - 1) % n) + 1]
      BY <1>3, <1>4, <2>1, <2>2 DEF InTurn
    <3>2. PICK k \in 1..n : k = ((i - 1) % n) + 1
      <4>1. i - 1 \in Nat
        BY <1>3
      <4>2. (i - 1) % n \in 0..n - 1
        BY <4>1, NextRemainder
      <4> QED
        BY <4>2
    <3>3. pins[k] \in Place!Cpus
      BY <1>2, <2>2, ElementOfSeq
    <3>4. ASSUME i > n PROVE cpu[i] = cpu[i - n]
      <4>1. PICK j \in 1..l : j = i - n
        BY <3>4
      <4>2. cpu[j] = pins[((j - 1) % n) + 1]
        BY <1>3, <1>4, <2>1, <2>2 DEF InTurn
      <4>3. (i - 1) \in Nat /\ (i - 1) - n \in Nat /\ (i - 1) - n = j - 1
        BY <3>4, <4>1
      <4>4. (j - 1) % n = (i - 1) % n
        BY <4>3, SameRemainder
      <4> QED
        BY <3>1, <4>1, <4>2, <4>4
    <3> QED
      BY <3>1, <3>2, <3>3, <3>4
  <2> QED
    BY <1>3, <1>4, <2>2, <2>3 DEF Place!InstancesApart
<1>5. CASE pins = << >> /\ machine.unreadable # {}
  BY <1>5 DEF Place!InstancesApart
<1>6. CASE pins = << >> /\ machine.unreadable = {} /\ tpc \in {"probe", "setup"}
  <2>1. cpu = << >>
    BY <1>6 DEF PlaceInv
  <2>2. \A k : Cardinality({i \in DOMAIN cpu : machine.core[cpu[i]] = k}) = 0
    <3> TAKE k
    <3>1. {i \in DOMAIN cpu : machine.core[cpu[i]] = k} = {}
      BY <2>1
    <3> QED
      BY <3>1, FS_EmptySet
  <2>3. \A k, j \in {machine.core[c] : c \in Place!Cpus} :
          Cardinality({i \in DOMAIN cpu : machine.core[cpu[i]] = k})
            - Cardinality({i \in DOMAIN cpu : machine.core[cpu[i]] = j}) <= 1
    <3> TAKE k, j \in {machine.core[c] : c \in Place!Cpus}
    <3>1. Cardinality({i \in DOMAIN cpu : machine.core[cpu[i]] = k}) = 0
      BY <2>2
    <3>2. Cardinality({i \in DOMAIN cpu : machine.core[cpu[i]] = j}) = 0
      BY <2>2
    <3> QED
      BY <3>1, <3>2
  <2> QED
    BY <1>6, <2>3, PlacesCounted DEF Place!InstancesApart
<1>7. CASE pins = << >> /\ machine.unreadable = {} /\ tpc \in {"fork", "over"}
  <2>1. Scanned(Ncpu, phys) /\ InTurn
    BY <1>7 DEF PlaceInv
  <2>2. PICK n, m : n = phys.num /\ m = phys.map
    OBVIOUS
  <2>3. /\ n \in Nat \ {0}
        /\ \A c \in Place!Cpus : m[c] \in 0..n - 1
        /\ \A c, d \in Place!Cpus : m[c] = m[d] <=> machine.core[c] = machine.core[d]
    BY <1>2, <1>7, <2>1, <2>2, CoresNumbered
  <2>4. \A i \in 1..l : cpu[i] \in Place!Cpus /\ m[cpu[i]] = (i - 1) % n
    BY <1>3, <1>7, <2>1, <2>2 DEF InTurn
  <2>5. PICK q \in Nat : \A j \in 0..n - 1 :
          /\ IsFiniteSet(Turns(n, l, j))
          /\ Cardinality(Turns(n, l, j)) = IF j < l % n THEN q + 1 ELSE q
    BY <2>3, TurnsAlike
  <2>6. ASSUME NEW c \in Place!Cpus
        PROVE  Cardinality({i \in DOMAIN cpu : machine.core[cpu[i]] = machine.core[c]}) \in q..q + 1
    <3>1. {i \in DOMAIN cpu : machine.core[cpu[i]] = machine.core[c]} = Turns(n, l, m[c])
      BY <1>3, <2>3, <2>4, ZenonT(60) DEF Turns
    <3>2. m[c] \in 0..n - 1
      BY <2>3
    <3>3. Cardinality(Turns(n, l, m[c])) \in {q, q + 1}
      BY <2>5, <3>2
    <3>4. q \in q..q + 1 /\ q + 1 \in q..q + 1
      BY <2>5
    <3> QED
      BY <3>1, <3>3, <3>4
  <2>7. ASSUME NEW k \in {machine.core[c] : c \in Place!Cpus}
        PROVE  Cardinality({i \in DOMAIN cpu : machine.core[cpu[i]] = k}) \in q..q + 1
    BY <2>6
  <2>8. \A a, b \in q..q + 1 : a - b <= 1
    BY <2>5
  <2>9. \A k, j \in {machine.core[c] : c \in Place!Cpus} :
          Cardinality({i \in DOMAIN cpu : machine.core[cpu[i]] = k})
            - Cardinality({i \in DOMAIN cpu : machine.core[cpu[i]] = j}) <= 1
    BY <2>7, <2>8
  <2> QED
    BY <1>7, <2>9, PlacesCounted DEF Place!InstancesApart
<1> QED
  BY <1>1, <1>4, <1>5, <1>6, <1>7

(* An instance gets its memory from the node its CPU is shown in            *)
(* (harness.c:425-434, 508-538 and 632-696).                                *)
LEMMA PlacedMemory == ASSUME PlaceInv PROVE Place!MemoryWhereShown
<1>1. SUFFICES ASSUME numa # Place!NoNode, machine.unreadable = {}
               PROVE  Place!MemoryWhereShown
  BY DEF Place!MemoryWhereShown
<1>2. Place!TypeOK /\ tpc \in {"fork", "over"}
  BY <1>1 DEF PlaceInv, Place!TypeOK
<1>3. ShownAs(nodes, numa) /\ Scanned(Ncpu, phys) /\ InTurn
  BY <1>2 DEF PlaceInv
<1>4. /\ machine \in Machines /\ cpu \in Seq(Nat) /\ pins \in Seq(Place!Cpus) /\ numa \in Bound
      /\ membind \in Membinds
  BY <1>2 DEF Place!TypeOK, Bound
<1>5. \A i \in DOMAIN cpu : cpu[i] \in Place!Cpus
  <2>1. CASE pins = << >>
    BY <1>1, <1>3, <2>1 DEF InTurn
  <2>2. CASE pins # << >>
    <3>1. Place!InstancesApart
      BY PlacedApart
    <3> QED
      BY <2>2, <3>1 DEF Place!InstancesApart
  <2> QED
    BY <2>1, <2>2
<1>6. /\ \A j \in DOMAIN nodes : nodes[j].cpus = {c \in Place!Cpus : numa[c] = j - 1}
      /\ \A c \in Place!Cpus : numa[c] # Place!Unset => numa[c] + 1 \in DOMAIN nodes
      /\ DOMAIN nodes \subseteq Nat \ {0}
  BY <1>1, <1>3 DEF ShownAs
<1>7. \A c \in Place!Cpus : numa[c] \in -1..63 /\ (numa[c] # Place!Unset => numa[c] \in 0..63)
  BY <1>4 DEF Bound, Place!AllNodes, Place!Unset
<1>8. PICK used : used = {numa[d] : d \in Place!Cpus} \ {Place!Unset}
  OBVIOUS
<1>9. used # {}
  <2>1. PICK d \in Place!Cpus : numa[d] # Place!Unset
    BY <1>1, <1>4 DEF Bound, Place!NoNode
  <2> QED
    BY <1>8, <2>1
<1>10. used = {n - 1 : n \in {k \in DOMAIN nodes : nodes[k].cpus # {}}}
  <2>1. ASSUME NEW c \in Place!Cpus, numa[c] # Place!Unset
        PROVE  numa[c] \in {n - 1 : n \in {k \in DOMAIN nodes : nodes[k].cpus # {}}}
    <3>1. PICK k \in DOMAIN nodes : k = numa[c] + 1
      BY <1>6, <2>1
    <3>2. k - 1 = numa[c]
      BY <1>7, <3>1
    <3>3. nodes[k].cpus # {}
      BY <1>6, <3>2
    <3> QED
      BY <3>2, <3>3
  <2>2. ASSUME NEW k \in DOMAIN nodes, nodes[k].cpus # {}
        PROVE  k - 1 \in used
    <3>1. PICK c \in Place!Cpus : numa[c] = k - 1
      BY <1>6, <2>2
    <3>2. k - 1 # Place!Unset
      BY <1>6 DEF Place!Unset
    <3> QED
      BY <1>8, <3>1, <3>2
  <2> QED
    BY <1>8, <2>1, <2>2
<1>11. ASSUME NEW c \in Place!Cpus
       PROVE  IF numa[c] = Place!Unset THEN {n \in DOMAIN nodes : c \in nodes[n].cpus} = {}
              ELSE /\ {n \in DOMAIN nodes : c \in nodes[n].cpus} # {}
                   /\ {n - 1 : n \in {k \in DOMAIN nodes : c \in nodes[k].cpus}} = {numa[c]}
  <2>1. \A n \in DOMAIN nodes : c \in nodes[n].cpus <=> numa[c] = n - 1
    BY <1>6
  <2>2. CASE numa[c] = Place!Unset
    <3>1. \A n \in DOMAIN nodes : n - 1 # Place!Unset
      BY <1>6 DEF Place!Unset
    <3> QED
      BY <2>1, <2>2, <3>1
  <2>3. CASE numa[c] # Place!Unset
    <3>1. PICK k \in DOMAIN nodes : k = numa[c] + 1
      BY <1>6, <2>3
    <3>2. k - 1 = numa[c]
      BY <1>7, <3>1
    <3>3. c \in nodes[k].cpus
      BY <2>1, <3>2
    <3> QED
      BY <2>1, <2>3, <3>2, <3>3
  <2> QED
    BY <2>2, <2>3
<1>12. ASSUME NEW i \in DOMAIN cpu
       PROVE  CASE membind = Place!LocalNode ->
                     policy[i] = IF {n \in DOMAIN nodes : cpu[i] \in nodes[n].cpus} = {}
                                 THEN [mode |-> "default", mask |-> {}]
                                 ELSE [mode |-> "bind",
                                       mask |-> {n - 1 : n \in {k \in DOMAIN nodes : cpu[i] \in nodes[k].cpus}}]
                [] membind = Place!Striped ->
                     policy[i].mask = {n - 1 : n \in {k \in DOMAIN nodes : nodes[k].cpus # {}}}
                [] OTHER -> policy[i].mask = {membind}
  <2>1. PICK c \in Place!Cpus : c = cpu[i]
    BY <1>5
  <2>2. policy[i] = IF membind = Place!Striped
                    THEN [mode |-> "interleave", mask |-> IF used = {} THEN Place!AllNodes ELSE used]
                    ELSE IF membind # Place!LocalNode THEN [mode |-> "bind", mask |-> {membind}]
                    ELSE IF numa[c] # Place!Unset THEN [mode |-> "bind", mask |-> {numa[c]}]
                    ELSE [mode |-> "default", mask |-> {}]
    BY <1>3, <1>8, <2>1 DEF InTurn, Place!PolicyOf
  <2>3. Place!Striped # Place!LocalNode
    BY DEF Place!Striped, Place!LocalNode
  <2>4. CASE membind = Place!LocalNode
    <3>1. policy[i] = IF numa[c] # Place!Unset THEN [mode |-> "bind", mask |-> {numa[c]}]
                      ELSE [mode |-> "default", mask |-> {}]
      BY <2>2, <2>3, <2>4
    <3> QED
      BY <1>11, <2>1, <2>3, <2>4, <3>1
  <2>5. CASE membind = Place!Striped
    BY <1>9, <1>10, <2>2, <2>3, <2>5
  <2>6. CASE membind # Place!Striped /\ membind # Place!LocalNode
    BY <2>2, <2>6
  <2> QED
    BY <2>4, <2>5, <2>6
<1> QED
  BY <1>12 DEF Place!MemoryWhereShown

-----------------------------------------------------------------------------
(* The configuration.                                                       *)

(* The limits, the files and the arguments.                                 *)
LEMMA Inputs ==
  /\ Values \subseteq Int /\ 0 \in Values /\ 1 \in Values
  /\ MaxFilter \in Nat /\ Ncpu \in Nat \ {0}
  /\ Contents \in [Conf!Paths -> Seq(Conf!Line)]
  /\ ArgLists \subseteq Seq(Conf!Arg)
  BY ConfigAssumption DEF Conf!ConfigAssumption

(* A line that names the setting is one more that does.                     *)
LEMMA NamedNext ==
  ASSUME NEW s, NEW m \in Nat, NEW k
  PROVE  /\ IsFiniteSet(Conf!Named(s, m, k)) /\ Cardinality(Conf!Named(s, m, k)) \in Nat
         /\ Conf!Named(s, m + 1, k) = IF s[m + 1].key = k THEN Conf!Named(s, m, k) \cup {m + 1}
                                      ELSE Conf!Named(s, m, k)
         /\ Cardinality(Conf!Named(s, m + 1, k)) =
              IF s[m + 1].key = k THEN Cardinality(Conf!Named(s, m, k)) + 1
              ELSE Cardinality(Conf!Named(s, m, k))
<1>1. PICK N : N = Conf!Named(s, m, k)
  OBVIOUS
<1>2. N \subseteq 1..m /\ m + 1 \notin N
  BY <1>1 DEF Conf!Named
<1>3. IsFiniteSet(N) /\ Cardinality(N) \in Nat
  <2>1. IsFiniteSet(1..m)
    BY FS_Interval
  <2>2. IsFiniteSet(N)
    BY <1>2, <2>1, FS_Subset
  <2> QED
    BY <2>2, FS_CardinalityType
<1>4. Conf!Named(s, m + 1, k) = IF s[m + 1].key = k THEN N \cup {m + 1} ELSE N
  <2>1. \A j : j \in 1..m + 1 <=> j \in 1..m \/ j = m + 1
    OBVIOUS
  <2> QED
    BY <1>1, <2>1 DEF Conf!Named
<1>5. Cardinality(N \cup {m + 1}) = Cardinality(N) + 1
  BY <1>2, <1>3, FS_AddElement
<1> QED
  BY <1>1, <1>3, <1>4, <1>5

(* The last of several wins.                                                *)
LEMMA LastNext ==
  ASSUME NEW s, NEW m \in Nat, NEW k, NEW d
  PROVE  Conf!LastOf(s, m + 1, k, d) = IF s[m + 1].key = k THEN s[m + 1].value
                                       ELSE Conf!LastOf(s, m, k, d)
<1>1. CASE s[m + 1].key = k
  <2>1. PICK N : N = Conf!Named(s, m + 1, k)
    OBVIOUS
  <2>2. N \subseteq 1..m + 1 /\ m + 1 \in N
    BY <1>1, <2>1 DEF Conf!Named
  <2>3. PICK b \in Int : b = m + 1
    OBVIOUS
  <2>4. N \subseteq Int /\ N # {} /\ \A y \in N : y <= b
    BY <2>2, <2>3
  <2>5. PICK g : g = Greatest(N)
    OBVIOUS
  <2>6. g \in N /\ \A y \in N : g >= y
    BY <2>4, <2>5, HasGreatest
  <2>7. g = m + 1
    BY <2>2, <2>6
  <2>8. Conf!Max(N) = m + 1
    BY <2>5, <2>7 DEF Greatest, Conf!Max
  <2> QED
    BY <1>1, <2>1, <2>4, <2>8 DEF Conf!LastOf
<1>2. CASE s[m + 1].key # k
  <2>1. Conf!Named(s, m + 1, k) = Conf!Named(s, m, k)
    BY <1>2, NamedNext
  <2> QED
    BY <1>2, <2>1 DEF Conf!LastOf
<1> QED
  BY <1>1, <1>2

(* Nothing is named among no lines.                                         *)
LEMMA LastOfNone ==
  ASSUME NEW s, NEW k, NEW d
  PROVE  Conf!Named(s, 0, k) = {} /\ Conf!LastOf(s, 0, k, d) = d
  BY DEF Conf!Named, Conf!LastOf

(* The filter holds the first names of the first m.                         *)
At(s, m) == Cardinality(Conf!Named(s, m, "benchmark"))

(* What the filter holds after the first m lines or arguments of s.         *)
Collected(s, m, f) ==
  /\ Len(f) = IF At(s, m) < MaxFilter THEN At(s, m) ELSE MaxFilter
  /\ \A j \in Conf!Named(s, m, "benchmark") : At(s, j) <= MaxFilter => f[At(s, j)] = s[j].value

(* Those that were there before come first.                                 *)
LEMMA AtOrder ==
  ASSUME NEW s, NEW m \in Nat, NEW j \in Conf!Named(s, m, "benchmark")
  PROVE  At(s, j) \in Nat \ {0} /\ At(s, j) <= At(s, m) /\ j \in 1..m
<1>1. j \in 1..m /\ s[j].key = "benchmark"
  BY DEF Conf!Named
<1>2. PICK A, B : A = Conf!Named(s, j, "benchmark") /\ B = Conf!Named(s, m, "benchmark")
  OBVIOUS
<1>3. A \subseteq B /\ j \in A
  BY <1>1, <1>2 DEF Conf!Named
<1>4. IsFiniteSet(A) /\ IsFiniteSet(B) /\ Cardinality(A) \in Nat /\ Cardinality(B) \in Nat
  <2>1. j \in Nat
    BY <1>1
  <2> QED
    BY <1>2, <2>1, NamedNext
<1>5. Cardinality(A) <= Cardinality(B)
  BY <1>3, <1>4, FS_Subset
<1>6. Cardinality(A) # 0
  BY <1>3, <1>4, FS_EmptySet
<1> QED
  BY <1>1, <1>2, <1>4, <1>5, <1>6 DEF At

(* Before the first one the filter is empty.                                *)
LEMMA CollectedNone == ASSUME NEW s PROVE Collected(s, 0, << >>)
<1>1. Conf!Named(s, 0, "benchmark") = {}
  BY DEF Conf!Named
<1>2. At(s, 0) = 0
  BY <1>1, FS_EmptySet DEF At
<1> QED
  BY <1>1, <1>2, Inputs DEF Collected

(* A line that names no benchmark adds nothing.                             *)
LEMMA CollectedOther ==
  ASSUME NEW s, NEW m \in Nat, NEW f, Collected(s, m, f), s[m + 1].key # "benchmark"
  PROVE  Collected(s, m + 1, f)
<1>1. Conf!Named(s, m + 1, "benchmark") = Conf!Named(s, m, "benchmark") /\ At(s, m + 1) = At(s, m)
  BY NamedNext DEF At
<1> QED
  BY <1>1 DEF Collected

(* One that does adds its name, if there is room.                           *)
LEMMA CollectedName ==
  ASSUME NEW s, NEW m \in Nat, NEW f \in Seq(Names), Collected(s, m, f),
         s[m + 1].key = "benchmark", s[m + 1].value \in Names
  PROVE  Collected(s, m + 1, IF Len(f) < MaxFilter THEN Append(f, s[m + 1].value) ELSE f)
<1>1. PICK N : N = Conf!Named(s, m, "benchmark")
  OBVIOUS
<1>2. Conf!Named(s, m + 1, "benchmark") = N \cup {m + 1}
  BY <1>1, NamedNext
<1>3. PICK a \in Nat : a = At(s, m)
  BY NamedNext DEF At
<1>4. At(s, m + 1) = a + 1
  BY <1>3, NamedNext DEF At
<1>5. MaxFilter \in Nat
  BY Inputs
<1>6. Len(f) = IF a < MaxFilter THEN a ELSE MaxFilter
  BY <1>3 DEF Collected
<1>7. \A j \in N : /\ At(s, j) \in Nat \ {0} /\ At(s, j) <= a
                   /\ At(s, j) <= MaxFilter => f[At(s, j)] = s[j].value
  BY <1>1, <1>3, AtOrder DEF Collected
<1>8. CASE a < MaxFilter
  <2>1. Len(f) = a
    BY <1>6, <1>8
  <2>2. PICK g : g = Append(f, s[m + 1].value)
    OBVIOUS
  <2>3. /\ Len(g) = a + 1 /\ g[a + 1] = s[m + 1].value
        /\ \A i \in 1..a : g[i] = f[i]
    BY <2>1, <2>2
  <2>4. \A j \in N : At(s, j) <= MaxFilter => g[At(s, j)] = s[j].value
    <3> TAKE j \in N
    <3>1. PICK i \in 1..a : i = At(s, j)
      BY <1>7
    <3> QED
      BY <1>7, <2>3, <3>1
  <2>5. g[At(s, m + 1)] = s[m + 1].value
    BY <1>4, <2>3
  <2>6. Len(g) = IF a + 1 < MaxFilter THEN a + 1 ELSE MaxFilter
    BY <1>5, <1>8, <2>3
  <2>7. Collected(s, m + 1, g)
    BY <1>2, <1>4, <2>4, <2>5, <2>6 DEF Collected
  <2> QED
    BY <1>8, <2>1, <2>2, <2>7
<1>9. CASE ~(a < MaxFilter)
  <2>1. Len(f) = MaxFilter /\ ~(Len(f) < MaxFilter)
    BY <1>5, <1>6, <1>9
  <2>2. ~(At(s, m + 1) <= MaxFilter) /\ ~(At(s, m + 1) < MaxFilter)
    BY <1>4, <1>5, <1>9
  <2>3. Collected(s, m + 1, f)
    BY <1>2, <1>7, <2>1, <2>2 DEF Collected
  <2> QED
    BY <2>1, <2>3
<1> QED
  BY <1>8, <1>9

(* The lines of the file, and the arguments after them.                     *)
File == Conf!Lines(parsed)
All == File \o args

(* What the file makes of a setting.                                        *)
FromFile(k) == Conf!LastOf(File, Len(File), k, Conf!Default[k])

(* What main.c arrives at.                                                  *)
Settled ==
  /\ \A k \in Conf!Keys :
       LET v == Conf!LastOf(args, Len(args), k, FromFile(k))
       IN  settings[k] = IF k = "threads" /\ v <= 0 THEN Ncpu ELSE v
  /\ Collected(All, Len(All), filter)

(* The lines read so far, then the arguments read so far, have decided.     *)
ConfInv ==
  /\ Conf!TypeOK
  /\ pc \in {"search", "prescan"} =>
       next = 1 /\ settings = Conf!Default /\ filter = << >>
  /\ pc = "file" =>
       /\ path = parsed /\ next \in 1..Len(File) + 1
       /\ \A k \in Conf!Keys : settings[k] = Conf!LastOf(File, next - 1, k, Conf!Default[k])
       /\ Collected(All, next - 1, filter)
  /\ pc = "options" =>
       /\ next \in 1..Len(args) + 1
       /\ \A k \in Conf!Keys : settings[k] = Conf!LastOf(args, next - 1, k, FromFile(k))
       /\ Collected(All, Len(File) + next - 1, filter)
  /\ pc \in {"decide", "run", "list", "validate"} => Settled

(* The lines of a file are lines.                                           *)
LEMMA LinesOf ==
  ASSUME NEW p, fs \subseteq Conf!Paths
  PROVE  Conf!Lines(p) \in Seq(Conf!Line) /\ Len(Conf!Lines(p)) \in Nat
<1>1. CASE p \in fs \ {"xdgdir"}
  BY <1>1, Inputs DEF Conf!Lines
<1>2. CASE p \notin fs \ {"xdgdir"}
  <2>1. << >> \in Seq(Conf!Line)
    OBVIOUS
  <2> QED
    BY <1>2, <2>1 DEF Conf!Lines
<1> QED
  BY <1>1, <1>2

(* Lines and arguments, and how the two follow one another.                 *)
LEMMA Sources ==
  ASSUME Conf!TypeOK
  PROVE  /\ File \in Seq(Conf!Line) /\ args \in Seq(Conf!Arg) /\ All \in Seq(Conf!Arg)
         /\ Len(File) \in Nat /\ Len(args) \in Nat /\ Len(All) = Len(File) + Len(args)
         /\ \A j \in 1..Len(File) : All[j] = File[j] /\ File[j] \in Conf!Line
         /\ \A j \in 1..Len(args) : All[Len(File) + j] = args[j] /\ args[j] \in Conf!Arg
<1>1. args \in Seq(Conf!Arg) /\ fs \subseteq Conf!Paths
  BY Inputs DEF Conf!TypeOK
<1>2. File \in Seq(Conf!Line)
  BY <1>1, LinesOf DEF File
<1>3. File \in Seq(Conf!Arg)
  <2>1. Conf!Line \subseteq Conf!Arg
    BY DEF Conf!Arg
  <2>2. PICK n \in Nat : n = Len(File) /\ File \in [1..n -> Conf!Line]
    BY <1>2, SeqDef
  <2>3. File \in [1..n -> Conf!Arg]
    BY <2>1, <2>2
  <2> QED
    BY <2>3, SeqDef
<1>4. PICK f \in Seq(Conf!Arg), a \in Seq(Conf!Arg) : f = File /\ a = args
  BY <1>1, <1>3
<1>5. /\ f \o a \in Seq(Conf!Arg) /\ Len(f \o a) = Len(f) + Len(a)
      /\ \A i \in 1..Len(f) + Len(a) : (f \o a)[i] = IF i <= Len(f) THEN f[i] ELSE a[i - Len(f)]
  BY ConcatProperties
<1>6. All = f \o a
  BY <1>4 DEF All
<1>7. PICK n \in Nat, m \in Nat : n = Len(f) /\ m = Len(a)
  BY LenProperties
<1>8. \A j \in 1..n : All[j] = f[j] /\ f[j] \in Conf!Line
  <2> TAKE j \in 1..n
  <2>1. j \in 1..n + m /\ j <= n
    BY <1>7
  <2>2. File[j] \in Conf!Line
    BY <1>2, <1>4, <1>7, ElementOfSeq
  <2> QED
    BY <1>4, <1>5, <1>6, <1>7, <2>1, <2>2
<1>9. \A j \in 1..m : All[n + j] = a[j] /\ a[j] \in Conf!Arg
  <2> TAKE j \in 1..m
  <2>1. n + j \in 1..n + m /\ ~(n + j <= n) /\ n + j - n = j
    BY <1>7
  <2>2. a[j] \in Conf!Arg
    BY <1>7, ElementOfSeq
  <2> QED
    BY <1>5, <1>6, <1>7, <2>1, <2>2
<1> QED
  BY <1>1, <1>2, <1>4, <1>5, <1>6, <1>7, <1>8, <1>9

(* The kinds of arguments.                                                  *)
LEMMA Kinds ==
  ASSUME NEW a \in Conf!Arg
  PROVE  /\ a \in Conf!Line => /\ a.key \in Conf!Keys \cup {"benchmark"}
                               /\ a.key \in Conf!Keys => a.value \in Values
                               /\ a.key = "benchmark" => a.value \in Names
         /\ a \notin Conf!Line => a.key \notin Conf!Keys \cup {"benchmark"}
         /\ a.key = "config" => a.value \in Conf!Paths
         /\ a \in Conf!ConfigArg => a.value \in Conf!Paths
         /\ a \in Conf!Flag => a.key \in {"dry-run", "validate", "help"}
         /\ a \in Conf!ConfigArg \cup Conf!Flag => a \notin Conf!Line
<1>1. a \in Conf!Line => /\ a.key \in Conf!Keys \cup {"benchmark"}
                         /\ a.key \in Conf!Keys => a.value \in Values
                         /\ a.key = "benchmark" => a.value \in Names
  BY DEF Conf!Line, Conf!Keys
<1>2. a \in Conf!Flag => a.key \in {"dry-run", "validate", "help"}
  BY DEF Conf!Flag
<1>3. a \in Conf!ConfigArg => a.key \in {"config", "attached-config"} /\ a.value \in Conf!Paths
  BY DEF Conf!ConfigArg
<1>4. a \in Conf!Line \/ a \in Conf!Flag \/ a \in Conf!ConfigArg
  BY DEF Conf!Arg
<1> QED
  BY <1>1, <1>2, <1>3, <1>4 DEF Conf!Keys

(* Before.                                                                  *)
LEMMA ConfInit == ASSUME Conf!Init PROVE ConfInv
<1>1. /\ args \in ArgLists /\ env \subseteq {"XDG_CONFIG_HOME", "HOME"} /\ fs \subseteq Conf!Paths
      /\ pc = "search" /\ path = "cwd" /\ parsed = "none" /\ next = 1
      /\ settings = Conf!Default /\ filter = << >> /\ flags = {}
  BY DEF Conf!Init
<1>2. settings \in [Conf!Keys -> Values \cup {Ncpu}]
  BY <1>1, Inputs DEF Conf!Default
<1>3. filter \in Seq(Names) /\ Len(filter) <= MaxFilter
  BY <1>1, Inputs
<1>4. Conf!TypeOK
  BY <1>1, <1>2, <1>3 DEF Conf!TypeOK, Conf!Labels, Conf!Paths
<1> QED
  BY <1>1, <1>4 DEF ConfInv

(* The place of the file.                                                   *)
LEMMA SearchStep == ASSUME ConfInv, Conf!Search PROVE ConfInv'
<1>1. /\ Conf!TypeOK /\ pc = "search" /\ next = 1 /\ settings = Conf!Default /\ filter = << >>
  BY DEF ConfInv, Conf!Search
<1>2. /\ args' = args /\ env' = env /\ fs' = fs /\ pc' = "prescan" /\ parsed' = parsed
      /\ next' = next /\ settings' = settings /\ filter' = filter /\ flags' = flags
  BY DEF Conf!Search, Conf!inputs
<1>3. PICK places : places = Conf!Places
  OBVIOUS
<1>4. places \in Seq(Conf!Paths)
  <2>1. \E first \in Seq(Conf!Paths) : places = first \o << "etc", "cwd" >>
    <3>1. << "xdgdir" >> \in Seq(Conf!Paths) /\ << "homefile" >> \in Seq(Conf!Paths)
          /\ << >> \in Seq(Conf!Paths)
      BY DEF Conf!Paths
    <3> QED
      BY <1>3, <3>1 DEF Conf!Places
  <2>2. << "etc", "cwd" >> \in Seq(Conf!Paths)
    BY DEF Conf!Paths
  <2> QED
    BY <2>1, <2>2, ConcatProperties
<1>5. PICK there : there = {j \in DOMAIN places : places[j] \in fs}
  OBVIOUS
<1>6. path' = IF there = {} THEN "cwd" ELSE places[Conf!Min(there)]
  BY <1>3, <1>5 DEF Conf!Search
<1>7. path' \in Conf!Paths
  <2>1. CASE there = {}
    BY <1>6, <2>1 DEF Conf!Paths
  <2>2. CASE there # {}
    <3>1. DOMAIN places = 1..Len(places) /\ Len(places) \in Nat
      BY <1>4, LenProperties
    <3>2. there \subseteq Nat
      BY <1>5, <3>1
    <3>3. Smallest(there) \in there
      BY <2>2, <3>2, HasSmallest
    <3>4. PICK j \in 1..Len(places) : j = Conf!Min(there)
      BY <1>5, <3>1, <3>3 DEF Smallest, Conf!Min
    <3>5. places[j] \in Conf!Paths
      BY <1>4, ElementOfSeq
    <3> QED
      BY <1>6, <2>2, <3>4, <3>5
  <2> QED
    BY <2>1, <2>2
<1>8. Conf!TypeOK'
  BY <1>1, <1>2, <1>7 DEF Conf!TypeOK, Conf!Labels
<1> QED
  BY <1>1, <1>2, <1>8 DEF ConfInv, Conf!Default

(* The first --config names the file.                                       *)
LEMMA PrescanStep == ASSUME ConfInv, Conf!Prescan PROVE ConfInv'
<1>1. /\ Conf!TypeOK /\ pc = "prescan" /\ next = 1 /\ settings = Conf!Default /\ filter = << >>
  BY DEF ConfInv, Conf!Prescan
<1>2. /\ args' = args /\ env' = env /\ fs' = fs /\ pc' = "file"
      /\ next' = next /\ settings' = settings /\ filter' = filter /\ flags' = flags
  BY DEF Conf!Prescan, Conf!inputs
<1>3. PICK named : named = {j \in DOMAIN args : args[j].key = "config"}
  OBVIOUS
<1>4. PICK p : p = IF named = {} THEN path ELSE args[Conf!Min(named)].value
  OBVIOUS
<1>5. path' = p /\ parsed' = p
  BY <1>3, <1>4 DEF Conf!Prescan
<1>6. p \in Conf!Paths
  <2>1. CASE named = {}
    BY <1>1, <1>4, <2>1 DEF Conf!TypeOK
  <2>2. CASE named # {}
    <3>1. args \in Seq(Conf!Arg) /\ DOMAIN args = 1..Len(args) /\ Len(args) \in Nat
      BY <1>1, Sources, LenProperties
    <3>2. named \subseteq Nat
      BY <1>3, <3>1
    <3>3. Smallest(named) \in named
      BY <2>2, <3>2, HasSmallest
    <3>4. PICK j \in 1..Len(args) : j = Conf!Min(named) /\ args[j].key = "config"
      BY <1>3, <3>1, <3>3 DEF Smallest, Conf!Min
    <3>5. args[j] \in Conf!Arg
      BY <3>1, ElementOfSeq
    <3> QED
      BY <1>4, <2>2, <3>4, <3>5, Kinds
  <2> QED
    BY <2>1, <2>2
<1>7. Conf!TypeOK'
  BY <1>1, <1>2, <1>5, <1>6 DEF Conf!TypeOK, Conf!Labels
<1>8. PICK f : f = Conf!Lines(p)
  OBVIOUS
<1>9. File' = f /\ Len(f) \in Nat
  <2>1. File' = f
    BY <1>2, <1>5, <1>8 DEF File, Conf!Lines
  <2> QED
    BY <1>1, <1>8, <2>1, LinesOf DEF Conf!TypeOK
<1>10. next' = 1 /\ next' - 1 = 0 /\ next' \in 1..Len(File') + 1
  BY <1>1, <1>2, <1>9
<1>11. \A k : Conf!LastOf(File, next - 1, k, Conf!Default[k])' = Conf!Default[k]
  BY <1>10 DEF Conf!LastOf, Conf!Named
<1>12. Collected(All, next - 1, filter)'
  <2>1. PICK all : all = All'
    OBVIOUS
  <2>2. Collected(all, 0, << >>)
    BY CollectedNone
  <2> QED
    BY <1>1, <1>2, <1>10, <2>1, <2>2 DEF Collected, At, Conf!Named
<1> QED
  BY <1>1, <1>2, <1>5, <1>7, <1>10, <1>11, <1>12 DEF ConfInv

(* A line or an option that sets or collects.                               *)
LEMMA AssignStep ==
  ASSUME Conf!TypeOK, NEW a \in Conf!Line,
         IF a.key = "benchmark"
         THEN /\ filter' = (IF Len(filter) < MaxFilter THEN Append(filter, a.value) ELSE filter)
              /\ settings' = settings
         ELSE settings' = [settings EXCEPT ![a.key] = a.value] /\ filter' = filter
  PROVE  /\ settings' \in [Conf!Keys -> Values \cup {Ncpu}]
         /\ filter' \in Seq(Names) /\ Len(filter') <= MaxFilter
         /\ \A k \in Conf!Keys : settings'[k] = IF a.key = k THEN a.value ELSE settings[k]
         /\ \A s, m : m \in Nat /\ s[m + 1] = a /\ Collected(s, m, filter) =>
                        Collected(s, m + 1, filter')
<1>1. /\ settings \in [Conf!Keys -> Values \cup {Ncpu}] /\ filter \in Seq(Names)
      /\ Len(filter) <= MaxFilter
  BY DEF Conf!TypeOK
<1>2. /\ a.key \in Conf!Keys \cup {"benchmark"} /\ "benchmark" \notin Conf!Keys
      /\ a.key \in Conf!Keys => a.value \in Values
      /\ a.key = "benchmark" => a.value \in Names
  BY Kinds DEF Conf!Arg, Conf!Keys
<1>3. MaxFilter \in Nat
  BY Inputs
<1>4. CASE a.key = "benchmark"
  <2>1. filter' \in Seq(Names) /\ Len(filter') <= MaxFilter
    <3>1. CASE Len(filter) < MaxFilter
      BY <1>1, <1>2, <1>3, <1>4, <3>1
    <3>2. CASE ~(Len(filter) < MaxFilter)
      BY <1>1, <1>4, <3>2
    <3> QED
      BY <3>1, <3>2
  <2>2. ASSUME NEW s, NEW m \in Nat, s[m + 1] = a, Collected(s, m, filter)
        PROVE  Collected(s, m + 1, filter')
    <3>1. PICK g : g = IF Len(filter) < MaxFilter THEN Append(filter, s[m + 1].value) ELSE filter
      OBVIOUS
    <3>2. Collected(s, m + 1, g)
      BY <1>1, <1>2, <1>4, <2>2, <3>1, CollectedName
    <3>3. filter' = g
      BY <1>4, <2>2, <3>1
    <3> QED
      BY <3>2, <3>3
  <2>3. settings' = settings
    BY <1>4
  <2>4. \A k \in Conf!Keys : a.key # k
    BY <1>2, <1>4
  <2> QED
    BY <1>1, <2>1, <2>2, <2>3, <2>4
<1>5. CASE a.key # "benchmark"
  <2>1. settings' = [settings EXCEPT ![a.key] = a.value] /\ filter' = filter
    BY <1>5
  <2>2. a.key \in Conf!Keys /\ a.value \in Values
    BY <1>2, <1>5
  <2>3. /\ settings' \in [Conf!Keys -> Values \cup {Ncpu}]
        /\ \A k \in Conf!Keys : settings'[k] = IF a.key = k THEN a.value ELSE settings[k]
    BY <1>1, <2>1, <2>2
  <2>4. ASSUME NEW s, NEW m \in Nat, s[m + 1] = a, Collected(s, m, filter)
        PROVE  Collected(s, m + 1, filter')
    <3>1. PICK g : g = filter
      OBVIOUS
    <3>2. Collected(s, m + 1, g)
      BY <1>5, <2>4, <3>1, CollectedOther
    <3> QED
      BY <2>1, <3>1, <3>2
  <2> QED
    BY <1>1, <2>1, <2>3, <2>4
<1> QED
  BY <1>4, <1>5

(* One more line of the file.                                               *)
LEMMA ParseLineStep == ASSUME ConfInv, Conf!ParseLine PROVE ConfInv'
<1>1. /\ Conf!TypeOK /\ pc = "file" /\ path = parsed /\ next \in 1..Len(File) + 1
      /\ \A k \in Conf!Keys : settings[k] = Conf!LastOf(File, next - 1, k, Conf!Default[k])
      /\ Collected(All, next - 1, filter)
  BY DEF ConfInv, Conf!ParseLine
<1>2. /\ args' = args /\ env' = env /\ fs' = fs /\ pc' = pc /\ path' = path /\ parsed' = parsed
      /\ flags' = flags /\ next' = next + 1 /\ next <= Len(File)
  BY <1>1 DEF Conf!ParseLine, Conf!inputs, File
<1>3. PICK n \in Nat : n + 1 = next /\ n = next - 1
  <2>1. next - 1 \in Nat /\ next - 1 + 1 = next
    BY <1>1, Sources
  <2> QED
    BY <2>1
<1>4. PICK f, all : f = File /\ all = All
  OBVIOUS
<1>5. Len(f) \in Nat /\ n + 1 \in 1..Len(f)
  BY <1>1, <1>2, <1>3, <1>4, Sources
<1>6. PICK a \in Conf!Line : a = f[n + 1] /\ a = all[n + 1]
  BY <1>1, <1>4, <1>5, Sources
<1>7. /\ settings' \in [Conf!Keys -> Values \cup {Ncpu}]
      /\ filter' \in Seq(Names) /\ Len(filter') <= MaxFilter
      /\ \A k \in Conf!Keys : settings'[k] = IF a.key = k THEN a.value ELSE settings[k]
      /\ \A s, m : m \in Nat /\ s[m + 1] = a /\ Collected(s, m, filter) =>
                     Collected(s, m + 1, filter')
  <2>1. a = Conf!Lines(path)[next]
    BY <1>1, <1>3, <1>4, <1>6 DEF File
  <2>2. IF a.key = "benchmark"
        THEN /\ filter' = (IF Len(filter) < MaxFilter THEN Append(filter, a.value) ELSE filter)
             /\ settings' = settings
        ELSE settings' = [settings EXCEPT ![a.key] = a.value] /\ filter' = filter
    BY <2>1 DEF Conf!ParseLine, Conf!Assign, Conf!Collect
  <2> QED
    BY <1>1, <2>2, AssignStep
<1>8. File' = f /\ All' = all
  BY <1>2, <1>4 DEF File, All, Conf!Lines
<1>9. Conf!TypeOK'
  <2>1. next' \in Nat
    BY <1>1, <1>2 DEF Conf!TypeOK
  <2> QED
    BY <1>1, <1>2, <1>7, <2>1 DEF Conf!TypeOK
<1>10. next' - 1 = n + 1 /\ next' \in 1..Len(f) + 1
  BY <1>2, <1>3, <1>5
<1>11. ASSUME NEW k \in Conf!Keys
       PROVE  settings'[k] = Conf!LastOf(File, next - 1, k, Conf!Default[k])'
  <2>1. settings[k] = Conf!LastOf(f, n, k, Conf!Default[k])
    BY <1>1, <1>3, <1>4
  <2>2. settings'[k] = Conf!LastOf(f, n + 1, k, Conf!Default[k])
    <3>1. PICK d : d = Conf!Default[k]
      OBVIOUS
    <3>2. Conf!LastOf(f, n + 1, k, d) = IF f[n + 1].key = k THEN f[n + 1].value
                                        ELSE Conf!LastOf(f, n, k, d)
      BY LastNext
    <3>3. settings'[k] = IF a.key = k THEN a.value ELSE settings[k]
      BY <1>7
    <3> QED
      BY <1>6, <2>1, <3>1, <3>2, <3>3
  <2> QED
    BY <1>8, <1>10, <2>2 DEF Conf!LastOf, Conf!Named
<1>12. Collected(All, next - 1, filter)'
  <2>1. Collected(all, n, filter)
    BY <1>1, <1>3, <1>4
  <2>2. Collected(all, n + 1, filter')
    BY <1>6, <1>7, <2>1
  <2> QED
    BY <1>8, <1>10, <2>2 DEF Collected, At, Conf!Named
<1> QED
  BY <1>1, <1>2, <1>8, <1>9, <1>10, <1>11, <1>12 DEF ConfInv

(* The arguments come after the lines.                                      *)
LEMMA EndOfFileStep == ASSUME ConfInv, Conf!EndOfFile PROVE ConfInv'
<1>1. /\ Conf!TypeOK /\ pc = "file" /\ path = parsed /\ next \in 1..Len(File) + 1
      /\ \A k \in Conf!Keys : settings[k] = Conf!LastOf(File, next - 1, k, Conf!Default[k])
      /\ Collected(All, next - 1, filter)
  BY DEF ConfInv, Conf!EndOfFile
<1>2. /\ args' = args /\ env' = env /\ fs' = fs /\ pc' = "options" /\ path' = path /\ parsed' = parsed
      /\ flags' = flags /\ settings' = settings /\ filter' = filter /\ next' = 1
      /\ ~(next <= Len(File))
  BY <1>1, Sources DEF Conf!EndOfFile, Conf!inputs, File
<1>3. PICK f, all, a : f = File /\ all = All /\ a = args
  OBVIOUS
<1>4. Len(f) \in Nat /\ Len(a) \in Nat /\ next - 1 = Len(f)
  BY <1>1, <1>2, <1>3, Sources
<1>5. File' = f /\ All' = all
  BY <1>2, <1>3 DEF File, All, Conf!Lines
<1>6. Conf!TypeOK'
  BY <1>1, <1>2 DEF Conf!TypeOK, Conf!Labels
<1>7. /\ next' \in 1..Len(a) + 1 /\ next' - 1 = 0 /\ Len(f) + next' - 1 = Len(f)
  BY <1>2, <1>4
<1>8. ASSUME NEW k \in Conf!Keys
      PROVE  settings'[k] = Conf!LastOf(args, next - 1, k, FromFile(k))'
  <2>1. settings[k] = FromFile(k)
    BY <1>1, <1>3, <1>4 DEF FromFile
  <2>2. FromFile(k)' = FromFile(k)
    BY <1>3, <1>5 DEF FromFile, Conf!LastOf, Conf!Named
  <2> QED
    BY <1>2, <1>7, <2>1, <2>2 DEF Conf!LastOf, Conf!Named
<1>9. Collected(All, Len(File) + next - 1, filter)'
  <2>1. Collected(all, Len(f), filter)
    BY <1>1, <1>3, <1>4
  <2> QED
    BY <1>2, <1>5, <1>7, <2>1 DEF Collected, At, Conf!Named
<1> QED
  BY <1>2, <1>3, <1>6, <1>7, <1>8, <1>9 DEF ConfInv

(* The filter takes what a line or an argument adds to it, whatever came    *)
(* before.                                                                  *)
FilledBy(a, old, new) ==
  \A s, m : m \in Nat /\ s[m + 1] = a /\ Collected(s, m, old) => Collected(s, m + 1, new)

(* An argument that getopt goes on from.                                    *)
Taken ==
  /\ pc = "options" /\ next <= Len(args) /\ next' = next + 1
  /\ args' = args /\ fs' = fs /\ parsed' = parsed
  /\ \A k \in Conf!Keys : settings'[k] = IF args[next].key = k THEN args[next].value ELSE settings[k]

(* One more argument; only those that set something count.                  *)
LEMMA OptionStep ==
  ASSUME ConfInv, Taken,
         FilledBy(args[next], filter, filter')
  PROVE  /\ next' \in 1..Len(args') + 1
         /\ \A k \in Conf!Keys : settings'[k] = Conf!LastOf(args, next - 1, k, FromFile(k))'
         /\ Collected(All, Len(File) + next - 1, filter)'
<1>0. /\ pc = "options" /\ next <= Len(args) /\ next' = next + 1
      /\ args' = args /\ fs' = fs /\ parsed' = parsed
  BY DEF Taken
<1>1. /\ Conf!TypeOK /\ next \in 1..Len(args) + 1
      /\ \A k \in Conf!Keys : settings[k] = Conf!LastOf(args, next - 1, k, FromFile(k))
      /\ Collected(All, Len(File) + next - 1, filter)
  BY <1>0 DEF ConfInv
<1>2. PICK f, all, a : f = File /\ all = All /\ a = args
  OBVIOUS
<1>3. Len(f) \in Nat /\ Len(a) \in Nat
  BY <1>1, <1>2, Sources
<1>4. PICK n \in Nat : n + 1 = next /\ n = next - 1 /\ n + 1 \in 1..Len(a)
  <2>1. next - 1 \in Nat /\ next - 1 + 1 = next /\ next \in 1..Len(a)
    BY <1>0, <1>1, <1>2, <1>3
  <2> QED
    BY <2>1
<1>5. File' = f /\ All' = all
  BY <1>0, <1>2 DEF File, All, Conf!Lines
<1>6. /\ next' - 1 = n + 1 /\ next' \in 1..Len(a) + 1
      /\ Len(f) + next - 1 = Len(f) + n /\ Len(f) + next' - 1 = Len(f) + n + 1
      /\ Len(f) + n \in Nat
  BY <1>0, <1>3, <1>4
<1>7. ASSUME NEW k \in Conf!Keys
      PROVE  settings'[k] = Conf!LastOf(args, next - 1, k, FromFile(k))'
  <2>1. PICK d : d = FromFile(k)
    OBVIOUS
  <2>2. FromFile(k)' = d
    BY <1>0, <1>2, <1>5, <2>1 DEF FromFile, Conf!LastOf, Conf!Named
  <2>3. settings[k] = Conf!LastOf(a, n, k, d)
    BY <1>1, <1>2, <1>4, <2>1
  <2>4. Conf!LastOf(a, n + 1, k, d) = IF a[n + 1].key = k THEN a[n + 1].value
                                      ELSE Conf!LastOf(a, n, k, d)
    BY LastNext
  <2>5. settings'[k] = Conf!LastOf(a, n + 1, k, d)
    BY <1>2, <1>4, <2>3, <2>4 DEF Taken
  <2> QED
    BY <1>0, <1>2, <1>6, <2>2, <2>5 DEF Conf!LastOf, Conf!Named
<1>8. Collected(All, Len(File) + next - 1, filter)'
  <2>1. Collected(all, Len(f) + n, filter)
    BY <1>1, <1>2, <1>6
  <2>2. all[Len(f) + n + 1] = a[n + 1]
    <3>1. all[Len(f) + (n + 1)] = a[n + 1]
      BY <1>1, <1>2, <1>4, Sources
    <3>2. Len(f) + (n + 1) = Len(f) + n + 1
      BY <1>3
    <3> QED
      BY <3>1, <3>2
  <2>3. Collected(all, Len(f) + n + 1, filter')
    BY <1>2, <1>4, <1>6, <2>1, <2>2 DEF FilledBy
  <2> QED
    BY <1>5, <1>6, <2>3 DEF Collected, At, Conf!Named
<1> QED
  BY <1>0, <1>2, <1>6, <1>7, <1>8

(* An option that a line of the file could be.                              *)
LEMMA SettingOptionStep == ASSUME ConfInv, Conf!SettingOption PROVE ConfInv'
<1>1. Conf!TypeOK /\ pc = "options" /\ next \in Nat
  BY DEF ConfInv, Conf!SettingOption, Conf!TypeOK
<1>2. /\ args' = args /\ env' = env /\ fs' = fs /\ pc' = pc /\ path' = path /\ parsed' = parsed
      /\ flags' = flags /\ next' = next + 1 /\ next <= Len(args) /\ args[next] \in Conf!Line
  BY <1>1 DEF Conf!SettingOption, Conf!inputs
<1>3. PICK a \in Conf!Line : a = args[next]
  BY <1>2
<1>4. /\ settings' \in [Conf!Keys -> Values \cup {Ncpu}]
      /\ filter' \in Seq(Names) /\ Len(filter') <= MaxFilter
      /\ \A k \in Conf!Keys : settings'[k] = IF a.key = k THEN a.value ELSE settings[k]
      /\ \A s, m : m \in Nat /\ s[m + 1] = a /\ Collected(s, m, filter) =>
                     Collected(s, m + 1, filter')
  <2>1. IF a.key = "benchmark"
        THEN /\ filter' = (IF Len(filter) < MaxFilter THEN Append(filter, a.value) ELSE filter)
             /\ settings' = settings
        ELSE settings' = [settings EXCEPT ![a.key] = a.value] /\ filter' = filter
    BY <1>3 DEF Conf!SettingOption, Conf!Assign, Conf!Collect
  <2> QED
    BY <1>1, <2>1, AssignStep
<1>5. Conf!TypeOK'
  <2>1. next' \in Nat
    BY <1>1, <1>2
  <2> QED
    BY <1>1, <1>2, <1>4, <2>1 DEF Conf!TypeOK
<1>6. /\ next' \in 1..Len(args') + 1
      /\ \A k \in Conf!Keys : settings'[k] = Conf!LastOf(args, next - 1, k, FromFile(k))'
      /\ Collected(All, Len(File) + next - 1, filter)'
  <2>1. \A k \in Conf!Keys : settings'[k] = IF args[next].key = k THEN args[next].value ELSE settings[k]
    BY <1>3, <1>4
  <2>2. \A s, m : m \in Nat /\ s[m + 1] = args[next] /\ Collected(s, m, filter) =>
                     Collected(s, m + 1, filter')
    BY <1>3, <1>4
  <2> QED
    BY <1>1, <1>2, <1>5, <2>1, <2>2, OptionStep DEF Taken, FilledBy
<1> QED
  BY <1>1, <1>2, <1>5, <1>6 DEF ConfInv

(* An option that sets nothing changes neither settings nor filter.         *)
LEMMA OtherOption ==
  ASSUME Conf!TypeOK, NEW a \in Conf!ConfigArg \cup Conf!Flag, settings' = settings, filter' = filter
  PROVE  /\ \A k \in Conf!Keys : settings'[k] = IF a.key = k THEN a.value ELSE settings[k]
         /\ \A s, m : m \in Nat /\ s[m + 1] = a /\ Collected(s, m, filter) =>
                        Collected(s, m + 1, filter')
<1>1. a.key \notin Conf!Keys \cup {"benchmark"}
  <2>1. a \in Conf!Arg
    BY DEF Conf!Arg
  <2> QED
    BY <2>1, Kinds
<1>2. PICK f : f = filter
  OBVIOUS
<1>3. ASSUME NEW s, NEW m \in Nat, s[m + 1] = a, Collected(s, m, f) PROVE Collected(s, m + 1, f)
  BY <1>1, <1>3, CollectedOther
<1> QED
  BY <1>1, <1>2, <1>3

(* Another path, which is not read any more.                                *)
LEMMA ConfigOptionStep == ASSUME ConfInv, Conf!ConfigOption PROVE ConfInv'
<1>1. Conf!TypeOK /\ pc = "options" /\ next \in Nat
  BY DEF ConfInv, Conf!ConfigOption, Conf!TypeOK
<1>2. /\ args' = args /\ env' = env /\ fs' = fs /\ pc' = pc /\ parsed' = parsed
      /\ flags' = flags /\ settings' = settings /\ filter' = filter
      /\ next' = next + 1 /\ next <= Len(args) /\ args[next] \in Conf!ConfigArg
      /\ path' = args[next].value
  BY <1>1 DEF Conf!ConfigOption, Conf!inputs
<1>3. Conf!TypeOK'
  <2>1. next' \in Nat
    BY <1>1, <1>2
  <2>2. path' \in Conf!Paths
    BY <1>2 DEF Conf!ConfigArg
  <2> QED
    BY <1>1, <1>2, <2>1, <2>2 DEF Conf!TypeOK
<1>4. /\ \A k \in Conf!Keys : settings'[k] = IF args[next].key = k THEN args[next].value ELSE settings[k]
      /\ \A s, m : m \in Nat /\ s[m + 1] = args[next] /\ Collected(s, m, filter) =>
                     Collected(s, m + 1, filter')
  BY <1>1, <1>2, OtherOption
<1>5. /\ next' \in 1..Len(args') + 1
      /\ \A k \in Conf!Keys : settings'[k] = Conf!LastOf(args, next - 1, k, FromFile(k))'
      /\ Collected(All, Len(File) + next - 1, filter)'
  BY <1>1, <1>2, <1>3, <1>4, OptionStep DEF Taken, FilledBy
<1> QED
  BY <1>1, <1>2, <1>3, <1>5 DEF ConfInv

(* An option that decides what is done, or that ends the program.           *)
LEMMA FlagOptionStep == ASSUME ConfInv, Conf!FlagOption PROVE ConfInv'
<1>1. Conf!TypeOK /\ pc = "options" /\ next \in Nat
  BY DEF ConfInv, Conf!FlagOption, Conf!TypeOK
<1>2. /\ args' = args /\ env' = env /\ fs' = fs /\ path' = path /\ parsed' = parsed
      /\ settings' = settings /\ filter' = filter
      /\ next <= Len(args) /\ args[next] \in Conf!Flag
  BY <1>1 DEF Conf!FlagOption, Conf!inputs
<1>3. CASE args[next].key = "help"
  <2>1. pc' = "exit" /\ next' = next /\ flags' = flags
    BY <1>3 DEF Conf!FlagOption
  <2>2. Conf!TypeOK'
    BY <1>1, <1>2, <2>1 DEF Conf!TypeOK, Conf!Labels
  <2> QED
    BY <2>1, <2>2 DEF ConfInv
<1>4. CASE args[next].key # "help"
  <2>1. pc' = pc /\ next' = next + 1 /\ flags' = flags \cup {args[next].key}
    BY <1>4 DEF Conf!FlagOption
  <2>2. Conf!TypeOK'
    <3>1. next' \in Nat
      BY <1>1, <2>1
    <3>2. args[next].key \in {"dry-run", "validate"}
      BY <1>2, <1>4 DEF Conf!Flag
    <3>3. flags' \subseteq {"dry-run", "validate"}
      BY <1>1, <2>1, <3>2 DEF Conf!TypeOK
    <3> QED
      BY <1>1, <1>2, <2>1, <3>1, <3>3 DEF Conf!TypeOK
  <2>3. /\ \A k \in Conf!Keys : settings'[k] = IF args[next].key = k THEN args[next].value ELSE settings[k]
        /\ \A s, m : m \in Nat /\ s[m + 1] = args[next] /\ Collected(s, m, filter) =>
                       Collected(s, m + 1, filter')
    BY <1>1, <1>2, OtherOption
  <2>4. /\ next' \in 1..Len(args') + 1
        /\ \A k \in Conf!Keys : settings'[k] = Conf!LastOf(args, next - 1, k, FromFile(k))'
        /\ Collected(All, Len(File) + next - 1, filter)'
    BY <1>1, <1>2, <2>1, <2>2, <2>3, OptionStep DEF Taken, FilledBy
  <2> QED
    BY <1>1, <1>2, <2>1, <2>2, <2>4 DEF ConfInv
<1> QED
  BY <1>3, <1>4

(* The number of instances that is not positive is that of the CPUs.        *)
LEMMA EndOfOptionsStep == ASSUME ConfInv, Conf!EndOfOptions PROVE ConfInv'
<1>1. /\ Conf!TypeOK /\ pc = "options" /\ next \in 1..Len(args) + 1
      /\ \A k \in Conf!Keys : settings[k] = Conf!LastOf(args, next - 1, k, FromFile(k))
      /\ Collected(All, Len(File) + next - 1, filter)
  BY DEF ConfInv, Conf!EndOfOptions
<1>2. /\ args' = args /\ env' = env /\ fs' = fs /\ path' = path /\ parsed' = parsed
      /\ flags' = flags /\ filter' = filter /\ next' = next /\ pc' = "decide"
      /\ ~(next <= Len(args))
      /\ settings' = [settings EXCEPT !["threads"] = IF settings["threads"] <= 0 THEN Ncpu
                                                     ELSE settings["threads"]]
  BY <1>1, Sources DEF Conf!EndOfOptions, Conf!inputs
<1>3. PICK f, all, a : f = File /\ all = All /\ a = args
  OBVIOUS
<1>4. /\ next - 1 = Len(a) /\ Len(f) + next - 1 = Len(all) /\ Len(all) = Len(f) + Len(a)
  BY <1>1, <1>2, <1>3, Sources
<1>5. File' = f /\ All' = all
  BY <1>2, <1>3 DEF File, All, Conf!Lines
<1>6. settings \in [Conf!Keys -> Values \cup {Ncpu}]
  BY <1>1 DEF Conf!TypeOK
<1>7. settings' \in [Conf!Keys -> Values \cup {Ncpu}]
  <2>1. (IF settings["threads"] <= 0 THEN Ncpu ELSE settings["threads"]) \in Values \cup {Ncpu}
    BY <1>6 DEF Conf!Keys
  <2> QED
    BY <1>2, <1>6, <2>1
<1>8. Conf!TypeOK'
  BY <1>1, <1>2, <1>7 DEF Conf!TypeOK, Conf!Labels
<1>9. ASSUME NEW k \in Conf!Keys
      PROVE  settings'[k] = IF k = "threads" /\ Conf!LastOf(args, Len(args), k, FromFile(k))' <= 0 THEN Ncpu
                            ELSE Conf!LastOf(args, Len(args), k, FromFile(k))'
  <2>1. PICK v : v = Conf!LastOf(args, Len(args), k, FromFile(k))
    OBVIOUS
  <2>2. settings[k] = v
    BY <1>1, <1>3, <1>4, <2>1
  <2>3. FromFile(k)' = FromFile(k)
    BY <1>3, <1>5 DEF FromFile, Conf!LastOf, Conf!Named
  <2>4. Conf!LastOf(args, Len(args), k, FromFile(k))' = v
    BY <1>2, <2>1, <2>3 DEF Conf!LastOf, Conf!Named
  <2>5. settings'[k] = IF k = "threads" /\ v <= 0 THEN Ncpu ELSE v
    <3>1. CASE k = "threads"
      BY <1>2, <1>6, <2>2, <3>1
    <3>2. CASE k # "threads"
      BY <1>2, <1>6, <2>2, <3>2
    <3> QED
      BY <3>1, <3>2
  <2> QED
    BY <2>4, <2>5
<1>10. Collected(All, Len(All), filter)'
  <2>1. Collected(all, Len(all), filter)
    BY <1>1, <1>3, <1>4
  <2> QED
    BY <1>2, <1>5, <2>1 DEF Collected, At, Conf!Named
<1>11. Settled'
  BY <1>9, <1>10 DEF Settled
<1> QED
  BY <1>2, <1>8, <1>11 DEF ConfInv

(* What is settled stays.                                                   *)
LEMMA SettledStays ==
  ASSUME Settled, args' = args, fs' = fs, parsed' = parsed, settings' = settings, filter' = filter
  PROVE  Settled'
<1>1. PICK f, all : f = File /\ all = All
  OBVIOUS
<1>2. File' = f /\ All' = all
  BY <1>1 DEF File, All, Conf!Lines
<1>3. ASSUME NEW k \in Conf!Keys
      PROVE  Conf!LastOf(args, Len(args), k, FromFile(k))' = Conf!LastOf(args, Len(args), k, FromFile(k))
  <2>1. FromFile(k)' = FromFile(k)
    BY <1>1, <1>2 DEF FromFile, Conf!LastOf, Conf!Named
  <2> QED
    BY <2>1 DEF Conf!LastOf, Conf!Named
<1>4. ASSUME NEW k \in Conf!Keys
      PROVE  settings'[k] = IF k = "threads" /\ Conf!LastOf(args, Len(args), k, FromFile(k))' <= 0 THEN Ncpu
                            ELSE Conf!LastOf(args, Len(args), k, FromFile(k))'
  BY <1>3 DEF Settled
<1>5. Collected(All, Len(All), filter)'
  <2>1. Collected(all, Len(all), filter)
    BY <1>1 DEF Settled
  <2> QED
    BY <1>2, <2>1 DEF Collected, At, Conf!Named
<1> QED
  BY <1>4, <1>5 DEF Settled

(* Nothing changes any more.                                                *)
LEMMA DecideStep == ASSUME ConfInv, Conf!Decide PROVE ConfInv'
<1>1. Conf!TypeOK /\ pc = "decide" /\ Settled
  BY DEF ConfInv, Conf!Decide
<1>2. /\ args' = args /\ env' = env /\ fs' = fs /\ path' = path /\ parsed' = parsed
      /\ flags' = flags /\ filter' = filter /\ next' = next /\ settings' = settings
      /\ pc' \in {"validate", "list", "run"}
  BY DEF Conf!Decide, Conf!inputs
<1>3. Conf!TypeOK'
  BY <1>1, <1>2 DEF Conf!TypeOK, Conf!Labels
<1>4. Settled'
  BY <1>1, <1>2, SettledStays
<1> QED
  BY <1>2, <1>3, <1>4 DEF ConfInv

(* Without a step.                                                          *)
LEMMA ConfStutter == ASSUME ConfInv, UNCHANGED confVars PROVE ConfInv'
<1>1. /\ args' = args /\ env' = env /\ fs' = fs /\ pc' = pc /\ path' = path /\ parsed' = parsed
      /\ next' = next /\ settings' = settings /\ filter' = filter /\ flags' = flags
  BY DEF confVars
<1>2. Conf!TypeOK'
  BY <1>1 DEF ConfInv, Conf!TypeOK
<1>3. PICK f, all, a : f = File /\ all = All /\ a = args
  OBVIOUS
<1>4. File' = f /\ All' = all
  BY <1>1, <1>3 DEF File, All, Conf!Lines
<1>5. \A k : Conf!LastOf(File, next - 1, k, Conf!Default[k])' = Conf!LastOf(File, next - 1, k, Conf!Default[k])
  BY <1>1, <1>3, <1>4 DEF Conf!LastOf, Conf!Named
<1>6. ASSUME NEW k
      PROVE  Conf!LastOf(args, next - 1, k, FromFile(k))' = Conf!LastOf(args, next - 1, k, FromFile(k))
  <2>1. FromFile(k)' = FromFile(k)
    BY <1>3, <1>4 DEF FromFile, Conf!LastOf, Conf!Named
  <2> QED
    BY <1>1, <2>1 DEF Conf!LastOf, Conf!Named
<1>7. Collected(All, next - 1, filter)' <=> Collected(All, next - 1, filter)
  BY <1>1, <1>3, <1>4 DEF Collected, At, Conf!Named
<1>8. Collected(All, Len(File) + next - 1, filter)' <=> Collected(All, Len(File) + next - 1, filter)
  BY <1>1, <1>3, <1>4 DEF Collected, At, Conf!Named
<1>9. pc' \in {"decide", "run", "list", "validate"} => Settled'
  BY <1>1, SettledStays DEF ConfInv
<1>10. pc' \in {"search", "prescan"} => next' = 1 /\ settings' = Conf!Default /\ filter' = << >>
  BY <1>1 DEF ConfInv
<1>11. CASE pc = "file"
  BY <1>1, <1>2, <1>3, <1>4, <1>5, <1>7, <1>11 DEF ConfInv
<1>12. CASE pc = "options"
  BY <1>1, <1>2, <1>3, <1>4, <1>6, <1>8, <1>12 DEF ConfInv
<1>13. CASE pc \notin {"file", "options"}
  BY <1>1, <1>2, <1>9, <1>10, <1>13 DEF ConfInv
<1> QED
  BY <1>11, <1>12, <1>13

(* One step of main.c.                                                      *)
LEMMA ConfStep == ASSUME ConfInv, Conf!Next PROVE ConfInv'
<1>1. Conf!Finished => UNCHANGED confVars
  BY DEF Conf!Finished, Conf!vars, Conf!inputs, confVars
<1> QED
  BY <1>1, SearchStep, PrescanStep, ParseLineStep, EndOfFileStep, SettingOptionStep,
     ConfigOptionStep, FlagOptionStep, EndOfOptionsStep, DecideStep, ConfStutter
  DEF Conf!Next, Conf!Parse, Conf!Options

(* The cardinality that Config means.                                       *)
LEMMA NamesCounted == \A S : Conf!Cardinality(S) = Cardinality(S)
  BY DEF Conf!Cardinality, Cardinality

(* Arguments override the file and the file the defaults (main.c:56-135,    *)
(* 196-303).                                                                *)
LEMMA ConfPrecedence == ASSUME ConfInv PROVE Conf!Precedence /\ Conf!FilterInOrder
<1>1. CASE ~Conf!Decided
  BY <1>1 DEF Conf!Precedence, Conf!FilterInOrder
<1>2. CASE Conf!Decided
  <2>1. Settled
    BY <1>2 DEF ConfInv, Conf!Decided
  <2>2. Conf!Precedence
    BY <2>1 DEF Settled, FromFile, File, Conf!Precedence
  <2>3. Conf!FilterInOrder
    BY <2>1, NamesCounted DEF Settled, Collected, At, All, File, Conf!FilterInOrder
  <2> QED
    BY <2>2, <2>3
<1> QED
  BY <1>1, <1>2

-----------------------------------------------------------------------------
(* The frequency lock.                                                      *)

(* A lock or a restore that is under way.                                   *)
LoopInv ==
  /\ fpc \in {"lock", "pin"} => locks # 0
  /\ fpc = "lock" => fcpu = count
  /\ fpc = "restore" => fcpu <= count

(* Without a lock there is nothing to write back.                           *)
UnlockedInv ==
  locks = 0 => count = 0 /\ (fpc = "restore" => gov = found)

(* What a CPU has, and what is remembered of it, is what it had or          *)
(* performance.                                                             *)
LockedInv ==
  locks # 0 =>
    \A c \in kept : /\ gov[c] \in {found[c], Performance}
                    /\ c < count => saved[c] \in {found[c], Performance}

(* After one lock the table holds what was there before, and a CPU that was *)
(* not locked yet, or is restored already, has it.                          *)
LockedOnceInv ==
  locks = 1 =>
    \A c \in kept : /\ c < count => saved[c] = found[c]
                    /\ c >= count \/ (fpc = "restore" /\ c < fcpu) => gov[c] = found[c]

FreqInv == Freq!TypeOK /\ LoopInv /\ UnlockedInv /\ LockedInv /\ LockedOnceInv

LEMMA FreqInit == Freq!Init => FreqInv
  BY LockAssumption
  DEF Freq!Init, FreqInv, LoopInv, UnlockedInv, LockedInv, LockedOnceInv, Freq!TypeOK,
      Freq!Cpus, Freq!LockAssumption

LEMMA FreqTypeStep == ASSUME Freq!TypeOK, LoopInv, Freq!Next PROVE Freq!TypeOK'
<1> USE LockAssumption DEF Freq!LockAssumption, Freq!Cpus, Freq!TypeOK, Freq!table, Freq!history
<1>1. CASE Freq!SetGovernor
  BY <1>1 DEF Freq!SetGovernor, LoopInv
<1>2. CASE Freq!Lock
  <2>1. count' \in 0..FreqCpus /\ fcpu' \in 0..FreqCpus /\ locks' \in 0..2
    BY <1>2 DEF Freq!Lock
  <2>2. found' \in [0..FreqCpus - 1 -> Governors] /\ kept' \subseteq 0..FreqCpus - 1
    BY <1>2 DEF Freq!Lock, Freq!Begin
  <2> QED
    BY <1>2, <2>1, <2>2 DEF Freq!Lock
<1>3. CASE Freq!LockCpu
  BY <1>3 DEF Freq!LockCpu, LoopInv, Freq!Remembered
<1>4. CASE Freq!LockStops
  BY <1>4 DEF Freq!LockStops, LoopInv, Freq!Remembered
<1>5. CASE Freq!PinCpu
  <2>0. pinned' = pinned \/ (pinned' = pinned \cup {fcpu} /\ fcpu < FreqCpus)
    BY <1>5 DEF Freq!PinCpu
  <2>1. pinned' \subseteq 0..FreqCpus - 1
    <3>1. CASE pinned' = pinned
      BY <3>1
    <3>2. CASE pinned' = pinned \cup {fcpu} /\ fcpu < FreqCpus
      <4>1. fcpu \in 0..FreqCpus - 1 /\ pinned \subseteq 0..FreqCpus - 1
        BY <3>2
      <4> HIDE DEF Freq!TypeOK
      <4> QED
        BY <3>2, <4>1 DEF Freq!Cpus
    <3> QED
      BY <2>0, <3>1, <3>2
  <2>2. fcpu' \in 0..FreqCpus
    BY <1>5 DEF Freq!PinCpu
  <2>3. fpc' \in {"pin", "idle"}
    BY <1>5 DEF Freq!PinCpu
  <2> QED
    BY <1>5, <2>1, <2>2, <2>3 DEF Freq!PinCpu
<1>6. CASE Freq!Restore
  <2>1. found' \in [0..FreqCpus - 1 -> Governors] /\ kept' \subseteq 0..FreqCpus - 1
    BY <1>6 DEF Freq!Restore, Freq!Begin
  <2>2. fcpu' \in 0..FreqCpus
    BY <1>6 DEF Freq!Restore
  <2> QED
    BY <1>6, <2>1, <2>2 DEF Freq!Restore
<1>7. CASE Freq!RestoreCpu
  <2>1. gov' \in [0..FreqCpus - 1 -> Governors]
    BY <1>7 DEF Freq!RestoreCpu
  <2>2. kept' \subseteq kept
    BY <1>7 DEF Freq!RestoreCpu
  <2>3. fcpu' \in 0..FreqCpus
    BY <1>7 DEF Freq!RestoreCpu
  <2> QED
    BY <1>7, <2>1, <2>2, <2>3 DEF Freq!RestoreCpu
<1>8. CASE Freq!RestoreEnds
  BY <1>8 DEF Freq!RestoreEnds, LoopInv
<1> QED
  BY <1>1, <1>2, <1>3, <1>4, <1>5, <1>6, <1>7, <1>8 DEF Freq!Next

(* One step of the lock, action by action.                                  *)
LEMMA FreqStep == ASSUME FreqInv, Freq!Next PROVE FreqInv'
<1> USE LockAssumption DEF Freq!LockAssumption, Freq!Cpus, Freq!TypeOK, Freq!table, Freq!history
<1>a. /\ Freq!TypeOK /\ LoopInv /\ UnlockedInv /\ LockedInv /\ LockedOnceInv
  BY DEF FreqInv
<1>b. Freq!TypeOK'
  BY <1>a, FreqTypeStep
<1>1. CASE Freq!SetGovernor
  <2>1. LoopInv'
    BY <1>a, <1>b, <1>1
    DEF Freq!SetGovernor, LoopInv, UnlockedInv
  <2>2. UnlockedInv'
    BY <1>a, <1>b, <1>1
    DEF Freq!SetGovernor, LoopInv, UnlockedInv
  <2>3. LockedInv'
    BY <1>a, <1>b, <1>1
    DEF Freq!SetGovernor, LoopInv, UnlockedInv, LockedInv
  <2>4. LockedOnceInv'
    BY <1>a, <1>b, <1>1
    DEF Freq!SetGovernor, LoopInv, UnlockedInv, LockedInv, LockedOnceInv
  <2> QED
    BY <1>b, <2>1, <2>2, <2>3, <2>4 DEF FreqInv
<1>2. CASE Freq!Lock
  <2>1. LoopInv'
    BY <1>a, <1>b, <1>2
    DEF Freq!Lock, Freq!Begin, LoopInv, UnlockedInv
  <2>2. UnlockedInv'
    BY <1>a, <1>b, <1>2
    DEF Freq!Lock, Freq!Begin, LoopInv, UnlockedInv
  <2>3. LockedInv'
    BY <1>a, <1>b, <1>2
    DEF Freq!Lock, Freq!Begin, LoopInv, UnlockedInv, LockedInv
  <2>4. LockedOnceInv'
    BY <1>a, <1>b, <1>2
    DEF Freq!Lock, Freq!Begin, LoopInv, UnlockedInv, LockedInv, LockedOnceInv
  <2> QED
    BY <1>b, <2>1, <2>2, <2>3, <2>4 DEF FreqInv
<1>3. CASE Freq!LockCpu
  <2>1. LoopInv'
    BY <1>a, <1>b, <1>3
    DEF Freq!LockCpu, Freq!Remembered, LoopInv, UnlockedInv
  <2>2. UnlockedInv'
    BY <1>a, <1>b, <1>3
    DEF Freq!LockCpu, Freq!Remembered, LoopInv, UnlockedInv
  <2>3. LockedInv'
    BY <1>a, <1>b, <1>3
    DEF Freq!LockCpu, Freq!Remembered, LoopInv, UnlockedInv, LockedInv
  <2>4. LockedOnceInv'
    BY <1>a, <1>b, <1>3
    DEF Freq!LockCpu, Freq!Remembered, LoopInv, UnlockedInv, LockedInv, LockedOnceInv
  <2> QED
    BY <1>b, <2>1, <2>2, <2>3, <2>4 DEF FreqInv
<1>4. CASE Freq!LockStops
  <2>1. LoopInv'
    BY <1>a, <1>b, <1>4
    DEF Freq!LockStops, Freq!Remembered, LoopInv, UnlockedInv
  <2>2. UnlockedInv'
    BY <1>a, <1>b, <1>4
    DEF Freq!LockStops, Freq!Remembered, LoopInv, UnlockedInv
  <2>3. LockedInv'
    BY <1>a, <1>b, <1>4
    DEF Freq!LockStops, Freq!Remembered, LoopInv, UnlockedInv, LockedInv
  <2>4. LockedOnceInv'
    BY <1>a, <1>b, <1>4
    DEF Freq!LockStops, Freq!Remembered, LoopInv, UnlockedInv, LockedInv, LockedOnceInv
  <2> QED
    BY <1>b, <2>1, <2>2, <2>3, <2>4 DEF FreqInv
<1>5. CASE Freq!PinCpu
  <2>1. LoopInv'
    BY <1>a, <1>b, <1>5
    DEF Freq!PinCpu, LoopInv, UnlockedInv
  <2>2. UnlockedInv'
    BY <1>a, <1>b, <1>5
    DEF Freq!PinCpu, LoopInv, UnlockedInv
  <2>3. LockedInv'
    BY <1>a, <1>b, <1>5
    DEF Freq!PinCpu, LoopInv, UnlockedInv, LockedInv
  <2>4. LockedOnceInv'
    BY <1>a, <1>b, <1>5
    DEF Freq!PinCpu, LoopInv, UnlockedInv, LockedInv, LockedOnceInv
  <2> QED
    BY <1>b, <2>1, <2>2, <2>3, <2>4 DEF FreqInv
<1>6. CASE Freq!Restore
  <2>1. LoopInv'
    BY <1>a, <1>b, <1>6
    DEF Freq!Restore, Freq!Begin, LoopInv, UnlockedInv
  <2>2. UnlockedInv'
    BY <1>a, <1>b, <1>6
    DEF Freq!Restore, Freq!Begin, LoopInv, UnlockedInv
  <2>3. LockedInv'
    BY <1>a, <1>b, <1>6
    DEF Freq!Restore, Freq!Begin, LoopInv, UnlockedInv, LockedInv
  <2>4. LockedOnceInv'
    BY <1>a, <1>b, <1>6
    DEF Freq!Restore, Freq!Begin, LoopInv, UnlockedInv, LockedInv, LockedOnceInv
  <2> QED
    BY <1>b, <2>1, <2>2, <2>3, <2>4 DEF FreqInv
<1>7. CASE Freq!RestoreCpu
  <2>1. LoopInv'
    BY <1>a, <1>b, <1>7
    DEF Freq!RestoreCpu, LoopInv, UnlockedInv
  <2>2. UnlockedInv'
    BY <1>a, <1>b, <1>7
    DEF Freq!RestoreCpu, LoopInv, UnlockedInv
  <2>3. LockedInv'
    BY <1>a, <1>b, <1>7
    DEF Freq!RestoreCpu, LoopInv, UnlockedInv, LockedInv
  <2>4. LockedOnceInv'
    BY <1>a, <1>b, <1>7
    DEF Freq!RestoreCpu, LoopInv, UnlockedInv, LockedInv, LockedOnceInv
  <2> QED
    BY <1>b, <2>1, <2>2, <2>3, <2>4 DEF FreqInv
<1>8. CASE Freq!RestoreEnds
  <2>1. LoopInv'
    BY <1>a, <1>b, <1>8
    DEF Freq!RestoreEnds, LoopInv, UnlockedInv
  <2>2. UnlockedInv'
    BY <1>a, <1>b, <1>8
    DEF Freq!RestoreEnds, LoopInv, UnlockedInv
  <2>3. LockedInv'
    BY <1>a, <1>b, <1>8
    DEF Freq!RestoreEnds, LoopInv, UnlockedInv, LockedInv
  <2>4. LockedOnceInv'
    BY <1>a, <1>b, <1>8
    DEF Freq!RestoreEnds, LoopInv, UnlockedInv, LockedInv, LockedOnceInv
  <2> QED
    BY <1>b, <2>1, <2>2, <2>3, <2>4 DEF FreqInv
<1> QED
  BY <1>1, <1>2, <1>3, <1>4, <1>5, <1>6, <1>7, <1>8 DEF Freq!Next

-----------------------------------------------------------------------------
(* A part that runs keeps its invariant, whichever it is, and is the only   *)
(* one.                                                                     *)
IInv ==
  /\ part \in {"main", "harness", "probe", "governor"}
  /\ part = "main" => ConfInv
  /\ part = "harness" => PlaceInv
  /\ part = "probe" => ProbeInv
  /\ part = "governor" => FreqInv

(* A step of another part leaves the lock alone.                            *)
LEMMA FreqStutter == ASSUME FreqInv, UNCHANGED freqVars PROVE FreqInv'
  BY DEF FreqInv, Freq!TypeOK, LoopInv, UnlockedInv, LockedInv, LockedOnceInv, freqVars

LEMMA InitInv == Init => IInv
  BY ConfInit, PlaceInit, ProbeInit, FreqInit DEF Init, IInv

(* The part is never another, and only its own variables change.            *)
LEMMA StepInv == ASSUME IInv, [Next]_vars PROVE IInv'
<1>0. part' = part
  BY DEF Next, vars
<1>1. CASE part = "main"
  <2>1. ConfInv
    BY <1>1 DEF IInv
  <2>2. Conf!Next \/ UNCHANGED confVars
    BY <1>1 DEF Next, vars
  <2>3. ConfInv'
    BY <2>1, <2>2, ConfStep, ConfStutter
  <2> QED
    BY <1>0, <1>1, <2>3 DEF IInv
<1>2. CASE part = "harness"
  <2>1. PlaceInv
    BY <1>2 DEF IInv
  <2>2. Place!Next \/ UNCHANGED placeVars
    BY <1>2 DEF Next, vars
  <2>3. PlaceInv'
    BY <2>1, <2>2, PlaceStep, PlaceStutter
  <2> QED
    BY <1>0, <1>2, <2>3 DEF IInv
<1>3. CASE part = "probe"
  <2>1. ProbeInv
    BY <1>3 DEF IInv
  <2>2. Probe!Next \/ UNCHANGED probeVars
    BY <1>3 DEF Next, vars
  <2>3. ProbeInv'
    BY <2>1, <2>2, ProbeStep, ProbeStutter
  <2> QED
    BY <1>0, <1>3, <2>3 DEF IInv
<1>4. CASE part = "governor"
  <2>1. FreqInv
    BY <1>4 DEF IInv
  <2>2. Freq!Next \/ UNCHANGED freqVars
    BY <1>4 DEF Next, vars
  <2>3. FreqInv'
    BY <2>1, <2>2, FreqStep, FreqStutter
  <2> QED
    BY <1>0, <1>4, <2>3 DEF IInv
<1> QED
  BY <1>1, <1>2, <1>3, <1>4 DEF IInv

(* At the end of a restore the governor of every CPU that could be accessed *)
(* is the one it had: no lock, one lock, and more of them, in turn.         *)
LEMMA InvUndoes == IInv => RestoreUndoesLock
<1> SUFFICES ASSUME FreqInv, fpc = "restore", fcpu = count, NEW c \in kept
             PROVE  gov[c] = found[c] \/ (locks = 2 /\ gov[c] = Performance)
  BY DEF IInv, RestoreUndoesLock, Freq!RestoreUndoesLock
<1> USE DEF FreqInv, Freq!TypeOK, Freq!Cpus, UnlockedInv, LockedInv, LockedOnceInv
<1>0. c \in 0..FreqCpus - 1 /\ count \in 0..FreqCpus /\ FreqCpus \in Nat
  BY LockAssumption DEF Freq!LockAssumption
<1>1. CASE locks = 0
  BY <1>1
<1>2. CASE locks = 1
  BY <1>0, <1>2
<1>3. CASE locks = 2
  BY <1>3
<1> QED
  BY <1>1, <1>2, <1>3

LEMMA InvTypes == IInv => TypeOK
  BY DEF IInv, TypeOK, ConfInv, PlaceInv, ProbeInv, FreqInv

LEMMA InvShows ==
  IInv => Precedence /\ InstancesApart /\ MemoryWhereShown /\ ProbeShowsMachine
<1>1. ConfInv => Conf!Precedence /\ Conf!FilterInOrder
  BY ConfPrecedence
<1>2. PlaceInv => Place!InstancesApart /\ Place!MemoryWhereShown
  BY PlacedApart, PlacedMemory
<1>3. ProbeInv => Probe!ProbeShowsMachine
  BY ProbeShows
<1> QED
  BY <1>1, <1>2, <1>3
  DEF IInv, Precedence, InstancesApart, MemoryWhereShown, ProbeShowsMachine

-----------------------------------------------------------------------------
(* The invariant that says what has been read, counted, placed or locked at *)
(* every point of the four parts (main.c:56-303, harness.c:340-696,         *)
(* system.c:28-415).                                                        *)
THEOREM Inductive == Spec => []IInv
<1>1. Init => IInv
  BY InitInv
<1>2. IInv /\ [Next]_vars => IInv'
  BY StepInv
<1> QED
  BY <1>1, <1>2, PTL DEF Spec

(* No array is indexed outside of itself and no counter runs away: every    *)
(* variable of the four parts keeps its type, bench_filter its length and   *)
(* the lists of nodes and CPUs their bounds (main.c:36-54,                  *)
(* harness.c:290-339, system.c:28-330).                                     *)
THEOREM TypesKept == Spec => []TypeOK
  BY Inductive, InvTypes, PTL

(* The last argument that names a setting decides it, else the last line of *)
(* the file, else the default, and the filter holds the first names in      *)
(* their order (main.c:56-135, 196-303), for every file and argument list.  *)
THEOREM LastOneWins == Spec => []Precedence
  BY Inductive, InvShows, PTL

(* The cores found are the machine's, numbered without a gap, and the       *)
(* instances go round them, or round the list that was given, for any       *)
(* number of instances (harness.c:340-385, 491-502).                        *)
THEOREM CoresInTurn == Spec => []InstancesApart
  BY Inductive, InvShows, PTL

(* A CPU is bound to the node in which the rebuilt topology shows it, for   *)
(* any override (harness.c:425-434, 508-538 and 632-696).                   *)
THEOREM MemoryAtItsCpu == Spec => []MemoryWhereShown
  BY Inductive, InvShows, PTL

(* What is printed of the CPUs, nodes and caches is the machine's or, where *)
(* a read or an allocation failed, the default that stands for it; only a   *)
(* second failure in a row makes the program use what it has not            *)
(* (system.c:28-330, main.c:247-274).                                       *)
THEOREM ProbeIsTrue == Spec => []ProbeShowsMachine
  BY Inductive, InvShows, PTL

(* A restore undoes one call of lock on every CPU that could be accessed,   *)
(* and never brings back a governor older than the lock                     *)
(* (system.c:354-377, 403-415).                                             *)
THEOREM LockUndone == Spec => []RestoreUndoesLock
  BY Inductive, InvUndoes, PTL
===============================================================================
