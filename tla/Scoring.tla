------------------------------- MODULE Scoring -------------------------------
(***************************************************************************)
(* scoring_compute_pillars and scoring_overall_score of src/core/scoring.c: *)
(* one pass over the subtests of a run, three geometric means, and their    *)
(* geometric mean.  A score is represented by its logarithm, an integer, so *)
(* that a geometric mean is a sum with a count; NonPositive stands for any  *)
(* score of zero or less, which has no logarithm.                           *)
(***************************************************************************)
EXTENDS Integers, Sequences, FiniteSets

CONSTANTS
  Categories,   (* categories that occur, some of C1..C15                   *)
  Logs,         (* logarithms of the positive normalized scores             *)
  NonPositive,  (* a normalized score that is not positive                  *)
  MaxSubtests   (* bound: subtests in a run                                 *)

ScoringAssumption ==
  Logs \subseteq Int /\ 0 \in Logs /\ NonPositive \notin Logs /\ MaxSubtests \in Nat

Pillars == {"throughput", "latency", "efficiency"}

Members == [throughput |-> {"C1", "C2", "C3", "C4", "C10", "C13"},
            latency    |-> {"C6", "C7", "C8", "C11", "C12"},
            efficiency |-> {"C5", "C14", "C15"}]

(* What the pass reads of a subtest: the benchmark's category, whether cv   *)
(* is at least SSB_CV_HIGH, and the normalized score.                       *)
Subtests == [category : Categories, high : BOOLEAN, score : Logs \cup {NonPositive}]

VARIABLES
  subtests,  (* the subtests visited so far                                 *)
  scores,    (* t_scores, l_scores and e_scores                             *)
  pillars,   (* *throughput, *latency, *efficiency: sum and count of logs   *)
  done

vars == << subtests, scores, pillars, done >>

Unit == [sum |-> 0, n |-> 1]   \* the score 1.0

TypeOK ==
  /\ subtests \in Seq(Subtests) /\ Len(subtests) <= MaxSubtests
  /\ scores \in [Pillars -> Seq(Logs)]
  /\ pillars \in [Pillars -> [sum : Int, n : Nat \ {0}]]
  /\ done \in BOOLEAN

Init ==
  /\ subtests = << >>
  /\ scores = [p \in Pillars |-> << >>]
  /\ pillars = [p \in Pillars |-> Unit]
  /\ done = FALSE

(* if (sr->stats.cv >= SSB_CV_HIGH) continue;                               *)
Skipped(sr) == sr.high

Counted_Lowest(score) == IF score = NonPositive THEN -9 ELSE score

Counted_Inverted(score) == IF score = NonPositive THEN 0 ELSE 0 - score

(* if (score <= 0) score = 1.0;                                             *)
Counted(score) == IF score = NonPositive THEN 0 ELSE score

Visit ==
  /\ ~done
  /\ Len(subtests) < MaxSubtests
  /\ \E sr \in Subtests :
       /\ subtests' = Append(subtests, sr)
       /\ scores' = [p \in Pillars |->
            IF ~Skipped(sr) /\ sr.category \in Members[p]
            THEN Append(scores[p], Counted(sr.score))
            ELSE scores[p]]
  /\ UNCHANGED << pillars, done >>

Sum(seq) ==
  LET upto[i \in 0..Len(seq)] == IF i = 0 THEN 0 ELSE upto[i - 1] + seq[i]
  IN  upto[Len(seq)]

(* exp(w_log / w_sum) with w = 1 throughout, and 1.0 for an empty pillar.   *)
Mean(seq) == IF seq = << >> THEN Unit ELSE [sum |-> Sum(seq), n |-> Len(seq)]

Finish ==
  /\ ~done
  /\ pillars' = [p \in Pillars |-> Mean(scores[p])]
  /\ done' = TRUE
  /\ UNCHANGED << subtests, scores >>

Over == done /\ UNCHANGED vars

Next == Visit \/ Finish \/ Over

Spec == Init /\ [][Next]_vars

AtMost(x, y) == x.sum * y.n <= y.sum * x.n

(* Geometric mean of the three pillars.                                     *)
Overall(ps) ==
  [sum |-> ps.throughput.sum * ps.latency.n * ps.efficiency.n
           + ps.latency.sum * ps.throughput.n * ps.efficiency.n
           + ps.efficiency.sum * ps.throughput.n * ps.latency.n,
   n   |-> 3 * ps.throughput.n * ps.latency.n * ps.efficiency.n]

-----------------------------------------------------------------------------
(* The definition to compare with: the subtests that take part in a pillar. *)
Rated(p) == {k \in DOMAIN subtests : /\ ~subtests[k].high
                                     /\ subtests[k].category \in Members[p]}

(* What a pillar would be if subtest k had the score s.                     *)
PillarWith(p, k, s) ==
  [sum |-> Sum([j \in DOMAIN subtests |->
                  IF j \notin Rated(p) THEN 0
                  ELSE Counted(IF j = k THEN s ELSE subtests[j].score)]),
   n   |-> Cardinality(Rated(p))]

(* A subtest with an unstable result, or one of C9, has no influence on the *)
(* overall score: leaving it out gives the same.                            *)
UnratedIsIrrelevant ==
  done => \A p \in Pillars :
    pillars[p] = IF Rated(p) = {} THEN Unit ELSE PillarWith(p, 0, 0)

(* Raising a positive score raises its pillar and the overall score.        *)
BetterIsHigher ==
  done => \A p \in Pillars : \A k \in Rated(p), s \in Logs :
    subtests[k].score # NonPositive /\ subtests[k].score <= s =>
      /\ AtMost(pillars[p], PillarWith(p, k, s))
      /\ AtMost(Overall(pillars), Overall([pillars EXCEPT ![p] = PillarWith(p, k, s)]))
=============================================================================
