--------------------------------- MODULE Report ---------------------------------
(***************************************************************************)
(* What a finished run leaves behind and what may be read back of it: main  *)
(* writes three documents and, if it is asked to, a reference, and          *)
(* scoring_load_reference of src/core/scoring.c reads a reference in two    *)
(* passes, one that counts and one that parses.                             *)
(*                                                                          *)
(* A file may not open, and what is written to it may end anywhere, as on a *)
(* full disk: nothing of that is looked at.  Between the passes somebody    *)
(* may edit the reference.  A subtest is known by its place in the run; its *)
(* mean is a multiple of 1 / PerDigit of the last digit that is printed. The *)
(* path of the reference fits its comment into a line of 511 characters.    *)
(***************************************************************************)
EXTENDS Integers, Sequences, FiniteSets, SequencesExt

CONSTANTS
  Means,       (* means of subtests with statistics                         *)
  PerDigit,    (* see above                                                 *)
  MaxRows,     (* bound: subtests in a run                                  *)
  Absent,      (* a file that is not there                                  *)
  Null         (* an entry of the arrays that was never written             *)

Line == [name : {Null} \cup Nat, value : Nat]   \* of a reference

ReportAssumption ==
  /\ Means \subseteq Nat /\ PerDigit \in Nat \ {0} /\ MaxRows \in Nat
  /\ Absent \notin Seq(Line) /\ Null \notin Nat /\ Null \notin Line

Docs == {"provenance", "jsonl", "html"}

VARIABLES
  rows,        (* the subtests: their iterations, if any, and their mean    *)
  pc,
  files,       (* what became of each document                              *)
  announced,   (* the documents whose path was printed                      *)
  ref,         (* the lines of the reference                                *)
  n,           (* *count                                                    *)
  pos, idx,    (* the line and the entry of the second pass                 *)
  table,       (* *names and *baselines                                     *)
  ret,
  edited

written == << rows, files, announced >>
vars == << written, pc, ref, n, pos, idx, table, ret, edited >>

Rows == [iterations : {0}, mean : {0}] \cup [iterations : {5}, mean : Means]
Note == [name |-> Null, value |-> 0]   \* a comment, an empty line, one without =

TypeOK ==
  /\ rows \in BoundedSeq(Rows, MaxRows)
  /\ pc \in Docs \cup {"reference", "count", "parse", "end"}
  /\ files \in [Docs -> {"none", "cut", "whole"}]
  /\ announced \subseteq Docs \cup {"reference"}
  /\ ref \in Seq(Line) \cup {Absent}
  /\ n \in Nat /\ pos \in Nat /\ idx \in Nat /\ table \in Seq(Line \cup {Null})
  /\ ret \in {-1, 0} /\ edited \in BOOLEAN

Init ==
  /\ rows \in BoundedSeq(Rows, MaxRows)
  /\ pc = "provenance"
  /\ files = [d \in Docs |-> "none"] /\ announced = {}
  /\ ref = Absent
  /\ n = 0 /\ pos = 0 /\ idx = 0 /\ table = << >> /\ ret = -1
  /\ edited = FALSE

-----------------------------------------------------------------------------
(* Every subtest has its row.  The path is printed whatever became of the   *)
(* document.                                                                *)
Write(doc, then) ==
  /\ pc = doc
  /\ \E extent \in {"none", "cut", "whole"} : files' = [files EXCEPT ![doc] = extent]
  /\ announced' = announced \cup {doc}
  /\ pc' = then
  /\ UNCHANGED << rows, ref, n, pos, idx, table, ret, edited >>

output_provenance == Write("provenance", "jsonl")
output_jsonl == Write("jsonl", "html")
output_html_report == Write("html", "reference")

(* %.6f.                                                                    *)
Printed(mean) == (2 * mean + PerDigit) \div (2 * PerDigit)

Entry(j) == [name |-> j, value |-> Printed(rows[j].mean)]

(* Three comments, the first with the line feed of ctime, and an entry for  *)
(* each of the first i subtests that has statistics.                        *)
Lines[i \in 0..Len(rows)] ==
  IF i = 0 THEN << Note, Note, Note, Note, Note >>
  ELSE IF rows[i].iterations > 0 THEN Append(Lines[i - 1], Entry(i)) ELSE Lines[i - 1]

Reference == Lines[Len(rows)]

(* A line that ends early has no =, or some of the digits.                  *)
Torn(line) == {Note} \cup (IF line.name = Null THEN {}
                           ELSE [name : {line.name}, value : 0..line.value])

WriteReference ==
  /\ pc = "reference"
  /\ \/ ref' = Absent /\ announced' = announced
     \/ /\ announced' = announced \cup {"reference"}
        /\ \/ ref' = Reference
           \/ \E k \in DOMAIN Reference : \E last \in Torn(Reference[k]) :
                ref' = Append(SubSeq(Reference, 1, k - 1), last)
  /\ pc' = "count"
  /\ UNCHANGED << rows, files, n, pos, idx, table, ret, edited >>

-----------------------------------------------------------------------------
Entries(lines) == {j \in DOMAIN lines : lines[j].name # Null}

(* Another program removes a line or adds one.                              *)
Edit ==
  /\ pc \in {"count", "parse"} /\ ref # Absent /\ ~edited
  /\ \/ \E k \in DOMAIN ref : ref' = RemoveAt(ref, k)
     \/ ref' = Append(ref, [name |-> 0, value |-> 1])
  /\ edited' = TRUE
  /\ UNCHANGED << written, pc, n, pos, idx, table, ret >>

(* Nothing to count, or no room for it.                                     *)
CountFails ==
  /\ pc = "count"
  /\ pc' = "end"
  /\ UNCHANGED << written, ref, n, pos, idx, table, ret, edited >>

Count ==
  /\ pc = "count"
  /\ ref # Absent /\ Entries(ref) # {}
  /\ n' = Cardinality(Entries(ref))
  /\ table' = [j \in 1..n' |-> Null]
  /\ pc' = "parse"
  /\ UNCHANGED << written, ref, pos, idx, ret, edited >>

ParseLine_Unbounded ==
  /\ pc = "parse" /\ pos < Len(ref)
  /\ IF ref[pos + 1].name = Null THEN UNCHANGED << idx, table >>
     ELSE /\ table' = [table EXCEPT ![idx + 1] = ref[pos + 1]]
          /\ idx' = idx + 1
  /\ pos' = pos + 1
  /\ UNCHANGED << written, pc, ref, n, ret, edited >>

ParseLine ==
  /\ pc = "parse" /\ pos < Len(ref) /\ idx < n
  /\ IF ref[pos + 1].name = Null THEN UNCHANGED << idx, table >>
     ELSE /\ table' = [table EXCEPT ![idx + 1] = ref[pos + 1]]
          /\ idx' = idx + 1
  /\ pos' = pos + 1
  /\ UNCHANGED << written, pc, ref, n, ret, edited >>

ParseEnds ==
  /\ pc = "parse" /\ (pos >= Len(ref) \/ idx = n)
  /\ pc' = "end" /\ ret' = 0
  /\ UNCHANGED << written, ref, n, pos, idx, table, edited >>

Finished == pc = "end" /\ UNCHANGED vars

Next ==
  \/ output_provenance \/ output_jsonl \/ output_html_report \/ WriteReference \/ Edit
  \/ CountFails \/ Count \/ ParseLine \/ ParseEnds \/ Finished

(* scoring_normalize, as numerator and denominator.                         *)
Normalized(raw, baseline) ==
  IF baseline > 0 THEN << raw, baseline * PerDigit >> ELSE << 1, 1 >>

-----------------------------------------------------------------------------
(* Only a file that was edited between the passes leaves entries unwritten, *)
(* and none ever takes more than there is room for (scoring.c:169-183).     *)
FillsItsArrays ==
  /\ idx <= n
  /\ \A j \in 1..n : table[j] = Null <=> j > idx
  /\ pc = "end" /\ ret = 0 /\ ~edited => idx = n

(* A reference that nobody edited gives each subtest with statistics, in    *)
(* order and none twice, and a run compared with its own reference comes    *)
(* out as 1.0 within the rounding of the last digit; where the file ends    *)
(* early the last entry alone may be too low (main.c:404-411,               *)
(* scoring.c:32-34, 186-203).                                               *)
OwnReferenceIsOne ==
  pc = "end" /\ ret = 0 /\ ~edited =>
    /\ "reference" \in announced
    /\ \A j \in 1..n : rows[table[j].name].iterations > 0
    /\ \A i, j \in 1..n : i < j => table[i].name < table[j].name
    /\ \A i \in DOMAIN rows, j \in 1..n :
         rows[i].iterations > 0 /\ i < table[j].name => \E l \in 1..j : table[l].name = i
    /\ \A j \in 1..n :
         LET ratio == Normalized(rows[table[j].name].mean, table[j].value)
             off   == 2 * (ratio[1] - ratio[2])
         IN  \/ off \in -PerDigit..PerDigit
             \/ j = n /\ off > 0

ReferenceReadBack == FillsItsArrays /\ OwnReferenceIsOne
=============================================================================
