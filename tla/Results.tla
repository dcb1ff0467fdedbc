--------------------------------- MODULE Results ---------------------------------
(***************************************************************************)
(* What becomes of samples once they are measured: scoring.c turns the      *)
(* subtests into pillars (Scoring); stats.c removes outliers and compares   *)
(* groups (Stats); main.c and output.c write documents and a reference,     *)
(* which scoring.c can read (Report).  They share the results and do not    *)
(* change them, so a behaviour is one of one of the three.                  *)
(***************************************************************************)
EXTENDS Integers, Sequences

CONSTANTS
  Categories, Logs, NonPositive, MaxSubtests,    (* of Scoring              *)
  Samples, MaxCount, MaxOther, MaxOutliers,      (* of Stats                *)
  Means, PerDigit, MaxRows, Absent, Null         (* of Report               *)

VARIABLES
  part,
  subtests, scores, pillars, done,               (* Scoring                 *)
  values, b, pc, work, k, mask,                  (* Stats                   *)
  rows, rpc, files, announced, ref, n, pos, idx, table, ret, edited  (* Report *)

Scores == INSTANCE Scoring
Tests  == INSTANCE Stats
Papers == INSTANCE Report WITH pc <- rpc

ASSUME ScoringAssumption == Scores!ScoringAssumption
ASSUME StatsAssumption == Tests!StatsAssumption
ASSUME ReportAssumption == Papers!ReportAssumption

scoreVars == << subtests, scores, pillars, done >>
testVars  == << values, b, pc, work, k, mask >>
paperVars == << rows, rpc, files, announced, ref, n, pos, idx, table, ret, edited >>

TypeOK ==
  /\ part \in {"scoring", "stats", "report"}
  /\ part = "scoring" => Scores!TypeOK
  /\ part = "stats" => Tests!TypeOK
  /\ part = "report" => Papers!TypeOK

(* A part that does not run has no values.                                  *)
NoScores == subtests = "none" /\ scores = "none" /\ pillars = "none" /\ done = "none"

NoTests ==
  /\ values = "none" /\ b = "none" /\ pc = "none" /\ work = "none" /\ k = "none"
  /\ mask = "none"

NoPapers ==
  /\ rows = "none" /\ rpc = "none" /\ files = "none" /\ announced = "none" /\ ref = "none"
  /\ n = "none" /\ pos = "none" /\ idx = "none" /\ table = "none" /\ ret = "none"
  /\ edited = "none"

Init ==
  \/ part = "scoring" /\ Scores!Init /\ NoTests /\ NoPapers
  \/ part = "stats" /\ Tests!Init /\ NoScores /\ NoPapers
  \/ part = "report" /\ Papers!Init /\ NoScores /\ NoTests

Next ==
  \/ part = "scoring" /\ Scores!Next /\ UNCHANGED << part, testVars, paperVars >>
  \/ part = "stats" /\ Tests!Next /\ UNCHANGED << part, scoreVars, paperVars >>
  \/ part = "report" /\ Papers!Next /\ UNCHANGED << part, scoreVars, testVars >>

Spec == Init /\ [][Next]_<< part, scoreVars, testVars, paperVars >>

-----------------------------------------------------------------------------
(* A subtest with an unstable result, or one of C9, has no influence on the *)
(* overall score: leaving it out gives the same; and raising a positive     *)
(* score raises its pillar and the overall score (scoring.c:56-135).        *)
ScoresFollowResults ==
  part = "scoring" => Scores!UnratedIsIrrelevant /\ Scores!BetterIsHigher

(* The outliers removed lie outside the range of the samples kept, and each *)
(* sample kept is still known under its own index (stats.c:266-323).        *)
OutliersAreExtreme == part = "stats" => Tests!OutliersAreExtreme

(* The ranks count the pairs they stand for, ties included, the shift       *)
(* changes its sign with the order of the groups, and step-up keeps what it *)
(* should (stats.c:326-399).                                                *)
RanksCountPairs == part = "stats" => Tests!RanksCountPairs

(* A reference reads back as it was written, but for a last line that was   *)
(* cut, and a run compared with its own reference comes out as 1.0; a file  *)
(* edited between the two passes never fills more than was counted          *)
(* (main.c:397-418, scoring.c:32-34, 149-203).                              *)
ReferenceReadBack == part = "report" => Papers!ReferenceReadBack
=============================================================================
