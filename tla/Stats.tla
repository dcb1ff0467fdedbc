--------------------------------- MODULE Stats ---------------------------------
(***************************************************************************)
(* The algorithms of src/core/stats.c that rank, index and remove samples   *)
(* and that nothing calls yet: stats_detect_outliers with its working set,  *)
(* stats_mann_whitney and stats_benjamini_hochberg.  Samples are integers;  *)
(* a mean is a sum with a count.  What a quantile of the t distribution     *)
(* decides (is the furthest sample far enough?) is left open.  Only the     *)
(* first is a loop whose state is worth watching; the others are operators. *)
(***************************************************************************)
EXTENDS Integers, Sequences, FiniteSets, SequencesExt

CONSTANTS
  Samples,      (* values of a sample                                       *)
  MaxCount,     (* samples in the first group                               *)
  MaxOther,     (* samples in the second                                    *)
  MaxOutliers   (* max_outliers                                             *)

StatsAssumption ==
  /\ Samples \subseteq Int /\ MaxCount \in Nat \ {0} /\ MaxOther \in Nat \ {0}
  /\ MaxOutliers \in Nat

VARIABLES
  values,     (* the first group                                            *)
  b,          (* the second group                                           *)
  pc,
  work,       (* sorted and indices: the working set                        *)
  k,          (* outliers found                                             *)
  mask        (* outlier_mask                                               *)

inputs == << values, b >>
vars == << inputs, pc, work, k, mask >>

Groups(most) == BoundedSeq(Samples, most) \ {<< >>}

-----------------------------------------------------------------------------
(* for i, for j > i: if (s[i] > s[j]) swap, over the values of records.     *)
Exchange(t, i, j) ==
  IF t[i].v > t[j].v THEN [t EXCEPT ![i] = t[j], ![j] = t[i]] ELSE t

ExchangeSorted(s) ==
  LET outer[i \in 0..Len(s)] ==
        IF i = 0 THEN s
        ELSE LET inner[j \in i..Len(s)] ==
                   IF j = i THEN outer[i - 1] ELSE Exchange(inner[j - 1], i, j)
             IN  inner[Len(s)]
  IN  outer[Len(s)]

Total(s) ==
  LET upto[j \in 0..Len(s)] == IF j = 0 THEN 0 ELSE upto[j - 1] + s[j].v IN upto[Len(s)]

Magnitude(x) == IF x < 0 THEN 0 - x ELSE x

(* fabs(sorted[i] - mean), times the count.                                 *)
Dev(s, j) == Magnitude(Len(s) * s[j].v - Total(s))

(* The first of the furthest samples.                                       *)
Furthest(s) ==
  CHOOSE j \in DOMAIN s :
    \A o \in DOMAIN s : Dev(s, o) < Dev(s, j) \/ (Dev(s, o) = Dev(s, j) /\ j <= o)

TypeOK ==
  /\ values \in Groups(MaxCount) /\ b \in Groups(MaxOther)
  /\ pc \in {"start", "loop", "over"}
  /\ k \in 0..MaxOutliers
  /\ \A j \in DOMAIN work : work[j].v \in Samples /\ work[j].i \in DOMAIN values
  /\ mask \in [DOMAIN values -> BOOLEAN]

Init ==
  /\ values \in Groups(MaxCount) /\ b \in Groups(MaxOther)
  /\ pc = "start" /\ work = << >> /\ k = 0
  /\ mask = [j \in DOMAIN values |-> FALSE]

Sort ==
  /\ pc = "start"
  /\ IF Len(values) < 3 THEN pc' = "over" /\ work' = work
     ELSE /\ work' = ExchangeSorted([j \in 1..Len(values) |-> [v |-> values[j], i |-> j]])
          /\ pc' = "loop"
  /\ UNCHANGED << inputs, k, mask >>

(* memmove down over what is removed.                                       *)
Without(s, at) == [j \in 1..Len(s) - 1 |-> s[IF j < at THEN j ELSE j + 1]]

MayRemove == k < MaxOutliers /\ Len(work) > 2 /\ Dev(work, Furthest(work)) > 0

(* memmove moves the samples and forgets the indices.                       *)
MarkFurthest_KeepsIndices ==
  /\ pc = "loop" /\ MayRemove
  /\ mask' = [mask EXCEPT ![work[Furthest(work)].i] = TRUE]
  /\ work' = [j \in 1..Len(work) - 1 |->
                [v |-> Without(work, Furthest(work))[j].v, i |-> work[j].i]]
  /\ k' = k + 1
  /\ UNCHANGED << inputs, pc >>

(* max_dev / stddev > lambda.                                               *)
MarkFurthest ==
  /\ pc = "loop" /\ MayRemove
  /\ mask' = [mask EXCEPT ![work[Furthest(work)].i] = TRUE]
  /\ work' = Without(work, Furthest(work))
  /\ k' = k + 1
  /\ UNCHANGED << inputs, pc >>

Stop ==
  /\ pc = "loop"
  /\ pc' = "over"
  /\ UNCHANGED << inputs, work, k, mask >>

Finished == pc = "over" /\ UNCHANGED vars

Next == Sort \/ MarkFurthest \/ Stop \/ Finished

Spec == Init /\ [][Next]_vars

U1_RanksApart(a, c) ==
  LET both == ExchangeSorted([j \in DOMAIN a |-> [v |-> a[j], g |-> 0]]
                             \o [j \in DOMAIN c |-> [v |-> c[j], g |-> 1]])
      r1[j \in 0..Len(both)] ==
        IF j = 0 THEN 0 ELSE r1[j - 1] + (IF both[j].g = 0 THEN j ELSE 0)
  IN  r1[Len(both)] - (Len(a) * (Len(a) + 1)) \div 2

-----------------------------------------------------------------------------
(* u1 of stats_mann_whitney: the sum of the ranks of the first group less   *)
(* its least value.  Equal samples have the rank of the first of them.      *)
U1(a, c) ==
  LET both == ExchangeSorted([j \in DOMAIN a |-> [v |-> a[j], g |-> 0]]
                             \o [j \in DOMAIN c |-> [v |-> c[j], g |-> 1]])
      rank[j \in 1..Len(both)] ==
        IF j = 1 THEN 1 ELSE IF both[j - 1].v < both[j].v THEN j ELSE rank[j - 1]
      r1[j \in 0..Len(both)] ==
        IF j = 0 THEN 0 ELSE r1[j - 1] + (IF both[j].g = 0 THEN rank[j] ELSE 0)
  IN  r1[Len(both)] - (Len(a) * (Len(a) + 1)) \div 2

(* Hodges-Lehmann: twice the median of the differences.                     *)
Shift(a, c) ==
  LET diffs == ExchangeSorted([q \in 1..Len(a) * Len(c) |->
                 [v |-> a[(q - 1) \div Len(c) + 1] - c[((q - 1) % Len(c)) + 1]]])
      d     == Len(diffs)
  IN  IF d % 2 = 0 THEN diffs[d \div 2].v + diffs[d \div 2 + 1].v
      ELSE 2 * diffs[d \div 2 + 1].v

(* stats_benjamini_hochberg on p-values given in units of fdr / (2 * count): *)
(* the indices that keep their p-value.                                     *)
Kept(p) ==
  LET sorted    == ExchangeSorted([j \in DOMAIN p |-> [v |-> p[j]]])
      threshold[j \in 0..Len(p)] ==
        IF j = 0 THEN 0
        ELSE IF sorted[j].v <= 2 * j THEN sorted[j].v ELSE threshold[j - 1]
  IN  {j \in DOMAIN p : p[j] <= threshold[Len(p)]}

-----------------------------------------------------------------------------
(* Whatever is removed, the samples that are not marked are the ones left   *)
(* in the working set, each under its own index; those marked lie outside   *)
(* the range of the rest; and two samples at least remain.                  *)
OutliersAreExtreme ==
  pc = "loop" =>
    /\ {work[j].i : j \in DOMAIN work} = {j \in DOMAIN values : ~mask[j]}
    /\ \A j \in DOMAIN work : work[j].v = values[work[j].i]
    /\ \A j \in DOMAIN values : mask[j] =>
         \/ \A o \in DOMAIN work : work[o].v <= values[j]
         \/ \A o \in DOMAIN work : work[o].v >= values[j]
    /\ Len(work) >= 2 /\ Len(work) = Len(values) - k

(* u1 counts the pairs in which the first group is ahead, less the pairs of *)
(* equal samples within that group; the shift estimate changes its sign     *)
(* with the order of the groups; and the step-up procedure keeps a p-value  *)
(* whenever one at least as large is below its own limit.                   *)
RanksCountPairs ==
  LET ahead == {q \in (DOMAIN values) \X (DOMAIN b) : values[q[1]] > b[q[2]]}
      even  == {q \in (DOMAIN values) \X (DOMAIN values) :
                  q[1] < q[2] /\ values[q[1]] = values[q[2]]}
      upto(x) == Cardinality({j \in DOMAIN values : values[j] <= x})
  IN  pc = "start" =>
        /\ U1(values, b) = Cardinality(ahead) - Cardinality(even)
        /\ Shift(values, b) = 0 - Shift(b, values)
        /\ Kept(values) = {j \in DOMAIN values :
             \/ values[j] <= 0
             \/ \E o \in DOMAIN values : /\ values[o] >= values[j]
                                          /\ values[o] <= 2 * upto(values[o])}
=============================================================================
