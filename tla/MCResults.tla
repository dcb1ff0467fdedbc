-------------------------------- MODULE MCResults --------------------------------
(***************************************************************************)
(* Scores of one, above one and below one; a category of each pillar, a     *)
(* second one of throughput, and C9, which is in no pillar.                 *)
(***************************************************************************)
EXTENDS Results

ThreeLogs == {0, 2, -3}
FiveCategories == {"C1", "C3", "C6", "C5", "C9"}
=============================================================================
