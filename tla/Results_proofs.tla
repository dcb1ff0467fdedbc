----------------------------- MODULE Results_proofs -----------------------------
(***************************************************************************)
(* What becomes of the samples is right, proved for any number of subtests, *)
(* of samples and of lines, and any scores and means: the reference reads   *)
(* back as it was written, the pillars are the means of the rated subtests  *)
(* and rise with them, and outliers are extreme.  The loops over arrays are *)
(* recursive functions: that they are defined, and what they compute, is    *)
(* shown by induction over the index.                                       *)
(***************************************************************************)
EXTENDS Results, FiniteSetTheorems, SequenceTheorems, WellFoundedInduction, TLAPS

-----------------------------------------------------------------------------
(* Induction over an index.                                                 *)

(* A set of natural numbers has a least one.                                *)
LEMMA LeastOf ==
  ASSUME NEW S, S \subseteq Nat, S # {}
  PROVE  \E x \in S : \A y \in S : x <= y
<1>1. PICK x \in S : \A y \in S : ~(<< y, x >> \in OpToRel(<, Nat))
  BY NatLessThanWellFounded, WFMin
<1>2. OpToRel(<, Nat) = {ss \in Nat \X Nat : ss[1] < ss[2]}
  BY DEF OpToRel
<1>3. ASSUME NEW y \in S PROVE x <= y
  <2>1. x \in Nat /\ y \in Nat
    OBVIOUS
  <2>2. ~(<< y, x >> \in {ss \in Nat \X Nat : ss[1] < ss[2]})
    BY <1>1, <1>2
  <2>3. ~(y < x)
    BY <2>1, <2>2
  <2> QED
    BY <2>1, <2>3
<1> QED
  BY <1>3

(* What holds of 0 and of the next number of each below n holds up to n.    *)
LEMMA UpTo ==
  ASSUME NEW n0 \in Nat, NEW S, 0 \in S, \A j \in 0..n0 - 1 : j \in S => j + 1 \in S
  PROVE  0..n0 \subseteq S
<1>1. SUFFICES ASSUME (0..n0) \ S # {} PROVE FALSE
  OBVIOUS
<1>2. PICK x \in (0..n0) \ S : \A y \in (0..n0) \ S : x <= y
  <2>1. (0..n0) \ S \subseteq Nat
    OBVIOUS
  <2> QED
    BY <1>1, <2>1, LeastOf
<1>3. x # 0 /\ x \in 0..n0
  BY <1>2
<1>4. x - 1 \in 0..n0 - 1
  BY <1>3
<1>5. x - 1 \in S
  BY <1>2, <1>4
<1> QED
  BY <1>2, <1>3, <1>4, <1>5

(* What holds of 0 and of the next number of each holds of all.             *)
LEMMA ByInduction ==
  ASSUME NEW S, 0 \in S, \A j \in Nat : j \in S => j + 1 \in S
  PROVE  Nat \subseteq S
<1>1. SUFFICES ASSUME NEW m \in Nat PROVE m \in S
  OBVIOUS
<1>2. \A j \in 0..m - 1 : j \in S => j + 1 \in S
  OBVIOUS
<1>3. 0..m \subseteq S
  BY <1>2, UpTo
<1> QED
  BY <1>3

(* A function whose value at each index is computed from the one before.    *)
Steps(f, m, z, step) == f = [j \in 0..m |-> IF j = 0 THEN z ELSE step[<< j, f[j - 1] >>]]

(* There is one.                                                            *)
LEMMA Iterates ==
  ASSUME NEW n0 \in Nat, NEW z, NEW step
  PROVE  \E f : Steps(f, n0, z, step)
<1>1. PICK S : S = {m \in Nat : \E f : Steps(f, m, z, step)}
  OBVIOUS
<1>2. 0 \in S
  <2>1. PICK f : f = [j \in 0..0 |-> z]
    OBVIOUS
  <2>2. \A j \in 0..0 : j = 0
    OBVIOUS
  <2>3. f = [j \in 0..0 |-> IF j = 0 THEN z ELSE step[<< j, f[j - 1] >>]]
    BY <2>1, <2>2
  <2> QED
    BY <1>1, <2>3 DEF Steps
<1>3. ASSUME NEW m \in Nat, m \in S PROVE m + 1 \in S
  <2>1. PICK g : Steps(g, m, z, step)
    BY <1>1, <1>3
  <2>2. PICK last : last = step[<< m + 1, g[m] >>]
    OBVIOUS
  <2>3. PICK f : f = [j \in 0..m + 1 |-> IF j <= m THEN g[j] ELSE last]
    OBVIOUS
  <2>4. ASSUME NEW j \in 0..m + 1
        PROVE  f[j] = IF j = 0 THEN z ELSE step[<< j, f[j - 1] >>]
    <3>1. CASE j <= m
      <4>1. j \in 0..m /\ f[j] = g[j] /\ (j # 0 => f[j - 1] = g[j - 1])
        BY <2>3, <3>1
      <4>2. g[j] = IF j = 0 THEN z ELSE step[<< j, g[j - 1] >>]
        BY <2>1, <4>1, Zenon DEF Steps
      <4> QED
        BY <4>1, <4>2, Zenon
    <3>2. CASE j = m + 1
      <4>1. f[j] = last /\ j # 0 /\ j - 1 = m /\ f[m] = g[m]
        BY <2>3, <3>2
      <4> QED
        BY <2>2, <3>2, <4>1, Zenon
    <3> QED
      BY <3>1, <3>2
  <2>5. Steps(f, m + 1, z, step)
    BY <2>3, <2>4, Zenon DEF Steps
  <2> QED
    BY <1>1, <2>5
<1>4. Nat \subseteq S
  BY <1>2, <1>3, ByInduction
<1> QED
  BY <1>1, <1>4

(* If a step never leaves T, neither does the function.                     *)
LEMMA IteratesIn ==
  ASSUME NEW n0 \in Nat, NEW T, NEW z \in T, NEW step \in [(1..n0) \X T -> T],
         NEW f, Steps(f, n0, z, step)
  PROVE  f \in [0..n0 -> T]
<1>1. PICK S : S = {j \in 0..n0 : f[j] \in T}
  OBVIOUS
<1>2. 0 \in S
  <2>1. 0 \in 0..n0
    OBVIOUS
  <2>2. f[0] = z
    BY <2>1 DEF Steps
  <2> QED
    BY <1>1, <2>1, <2>2
<1>3. ASSUME NEW j \in 0..n0 - 1, j \in S PROVE j + 1 \in S
  <2>1. j + 1 \in 0..n0 /\ j + 1 # 0 /\ j + 1 \in 1..n0 /\ (j + 1) - 1 = j
    OBVIOUS
  <2>2. f[j + 1] = step[<< j + 1, f[j] >>]
    BY <2>1 DEF Steps
  <2>3. << j + 1, f[j] >> \in (1..n0) \X T
    BY <1>1, <1>3, <2>1
  <2>4. step[<< j + 1, f[j] >>] \in T
    BY <2>3
  <2> QED
    BY <1>1, <2>1, <2>2, <2>4
<1>4. 0..n0 \subseteq S
  BY <1>2, <1>3, UpTo
<1>5. \A j \in 0..n0 : f[j] \in T
  BY <1>1, <1>4
<1>6. f = [j \in 0..n0 |-> f[j]]
  BY Zenon DEF Steps
<1> QED
  BY <1>5, <1>6

-----------------------------------------------------------------------------
(* The reference as it is written.                                          *)

Entries == Papers!Entries(ref)

HasStatistics(i) == rows[i].iterations > 0

(* The lines for the first i subtests.                                      *)
LinesFor(lines, i) ==
  /\ lines \in Seq(Papers!Line)
  /\ \A j \in Papers!Entries(lines) :
       /\ lines[j].name \in 1..i /\ HasStatistics(lines[j].name)
       /\ lines[j].value = Papers!Printed(rows[lines[j].name].mean)
  /\ \A j, l \in Papers!Entries(lines) : j < l => lines[j].name < lines[l].name
  /\ \A c \in 1..i : HasStatistics(c) => \E l \in Papers!Entries(lines) : lines[l].name = c

(* What the reference is as long as nobody edits it: an entry for each      *)
(* subtest that has statistics, in order, up to the place where it ends.    *)
AsWritten(lines) ==
  /\ \A j \in Papers!Entries(lines) :
       /\ lines[j].name \in DOMAIN rows /\ HasStatistics(lines[j].name)
       /\ lines[j].value <= Papers!Printed(rows[lines[j].name].mean)
       /\ j < Len(lines) => lines[j].value = Papers!Printed(rows[lines[j].name].mean)
  /\ \A j, l \in Papers!Entries(lines) : j < l => lines[j].name < lines[l].name
  /\ \A j \in Papers!Entries(lines), c \in DOMAIN rows :
       HasStatistics(c) /\ c < lines[j].name =>
         \E l \in Papers!Entries(lines) : l < j /\ lines[l].name = c

(* The subtests.                                                            *)
LEMMA RowsTyped ==
  ASSUME rows \in Papers!BoundedSeq(Papers!Rows, MaxRows)
  PROVE  /\ rows \in Seq(Papers!Rows)
         /\ Len(rows) \in Nat /\ DOMAIN rows = 1..Len(rows)
         /\ \A c \in DOMAIN rows : rows[c].mean \in Nat /\ rows[c].iterations \in Nat
<1>1. MaxRows \in Nat /\ Means \subseteq Nat
  BY ReportAssumption DEF Papers!ReportAssumption
<1>2. rows \in Seq(Papers!Rows)
  BY <1>1 DEF Papers!BoundedSeq, Papers!SeqOf
<1>3. ASSUME NEW r \in Papers!Rows PROVE r.mean \in Nat /\ r.iterations \in Nat
  <2>1. CASE r \in [iterations : {0}, mean : {0}]
    BY <2>1
  <2>2. CASE r \in [iterations : {5}, mean : Means]
    <3>1. r.mean \in Means /\ r.iterations = 5
      BY <2>2, Zenon
    <3>2. 5 \in Nat
      OBVIOUS
    <3> QED
      BY <1>1, <3>1, <3>2, Zenon
  <2> QED
    BY <2>1, <2>2 DEF Papers!Rows
<1> QED
  BY <1>2, <1>3

(* What is printed of a mean is the nearest multiple of the last digit.     *)
LEMMA PrintedIsNear ==
  ASSUME NEW mean \in Nat
  PROVE  /\ Papers!Printed(mean) \in Nat
         /\ 2 * (mean - Papers!Printed(mean) * PerDigit) \in (0 - PerDigit)..PerDigit
<1>1. PICK d : d = PerDigit
  OBVIOUS
<1>2. d \in Nat \ {0}
  BY <1>1, ReportAssumption DEF Papers!ReportAssumption
<1>3. PICK x, y : x = 2 * mean + d /\ y = 2 * d
  OBVIOUS
<1>4. x \in Nat /\ y \in Nat \ {0}
  BY <1>2, <1>3
<1>5. PICK q : q = x \div y
  OBVIOUS
<1>6. q \in Nat /\ q * y <= x /\ x < q * y + y
  BY <1>4, <1>5
<1>7. Papers!Printed(mean) = q
  BY <1>1, <1>3, <1>5 DEF Papers!Printed
<1>8. q * y = 2 * (q * d)
  BY <1>2, <1>3, <1>6
<1>9. PICK m : m = q * d
  OBVIOUS
<1>10. m \in Nat
  BY <1>2, <1>6, <1>9
<1>11. 2 * m <= 2 * mean + d /\ 2 * mean + d < 2 * m + 2 * d
  BY <1>3, <1>6, <1>8, <1>9
<1>12. 2 * (mean - m) \in (0 - d)..d
  BY <1>2, <1>10, <1>11
<1> QED
  BY <1>1, <1>6, <1>7, <1>9, <1>12

(* The lines for one subtest more.                                          *)
LEMMA NextLines ==
  ASSUME rows \in Papers!BoundedSeq(Papers!Rows, MaxRows),
         NEW i \in 0..Len(rows) - 1, NEW lines, LinesFor(lines, i)
  PROVE  LinesFor(IF HasStatistics(i + 1) THEN Append(lines, Papers!Entry(i + 1)) ELSE lines, i + 1)
<1>1. Null \notin Nat /\ i \in Nat /\ i + 1 \in DOMAIN rows
  BY RowsTyped, ReportAssumption DEF Papers!ReportAssumption
<1>2. PICK m : m = Len(lines)
  OBVIOUS
<1>3. m \in Nat /\ DOMAIN lines = 1..m /\ lines \in Seq(Papers!Line)
  BY <1>2 DEF LinesFor
<1>4. \A j \in Papers!Entries(lines) : j \in 1..m /\ lines[j].name \in 1..i /\ lines[j].name # i + 1
  BY <1>1, <1>3 DEF LinesFor, Papers!Entries
<1>5. CASE HasStatistics(i + 1)
  <2>1. PICK entry : entry = Papers!Entry(i + 1)
    OBVIOUS
  <2>2. /\ entry.name = i + 1 /\ entry.value = Papers!Printed(rows[i + 1].mean)
        /\ entry \in Papers!Line
    <3>1. Papers!Printed(rows[i + 1].mean) \in Nat
      BY <1>1, RowsTyped, PrintedIsNear
    <3> QED
      BY <1>1, <2>1, <3>1 DEF Papers!Entry, Papers!Line
  <2>3. PICK more : more = Append(lines, entry)
    OBVIOUS
  <2>4. /\ more \in Seq(Papers!Line) /\ DOMAIN more = 1..m + 1 /\ more[m + 1] = entry
        /\ \A j \in 1..m : more[j] = lines[j]
    BY <1>2, <1>3, <2>2, <2>3
  <2>5. Papers!Entries(more) = Papers!Entries(lines) \cup {m + 1}
    BY <1>1, <1>3, <2>2, <2>4 DEF Papers!Entries
  <2>6. ASSUME NEW j \in Papers!Entries(more)
        PROVE  /\ more[j].name \in 1..i + 1 /\ HasStatistics(more[j].name)
               /\ more[j].value = Papers!Printed(rows[more[j].name].mean)
    <3>1. CASE j = m + 1
      BY <1>1, <1>5, <2>2, <2>4, <3>1
    <3>2. CASE j \in Papers!Entries(lines)
      <4>1. more[j] = lines[j]
        BY <1>4, <2>4, <3>2
      <4> QED
        BY <1>1, <3>2, <4>1 DEF LinesFor
    <3> QED
      BY <2>5, <3>1, <3>2
  <2>7. ASSUME NEW j \in Papers!Entries(more), NEW l \in Papers!Entries(more), j < l
        PROVE  more[j].name < more[l].name
    <3>1. j \in Papers!Entries(lines) /\ more[j] = lines[j]
      BY <1>3, <1>4, <2>4, <2>5, <2>7
    <3>2. CASE l = m + 1
      <4>1. more[l].name = i + 1
        BY <2>2, <2>4, <3>2
      <4>2. more[j].name \in 1..i
        BY <1>4, <3>1
      <4> QED
        BY <1>1, <4>1, <4>2
    <3>3. CASE l \in Papers!Entries(lines)
      <4>1. more[l] = lines[l]
        BY <1>4, <2>4, <3>3
      <4> QED
        BY <2>7, <3>1, <3>3, <4>1 DEF LinesFor
    <3> QED
      BY <2>5, <3>2, <3>3
  <2>8. ASSUME NEW c \in 1..i + 1, HasStatistics(c)
        PROVE  \E l \in Papers!Entries(more) : more[l].name = c
    <3>1. CASE c = i + 1
      BY <2>2, <2>4, <2>5, <3>1
    <3>2. CASE c # i + 1
      <4>1. c \in 1..i
        BY <1>1, <3>2
      <4>2. PICK l \in Papers!Entries(lines) : lines[l].name = c
        BY <2>8, <4>1 DEF LinesFor
      <4> QED
        BY <1>4, <2>4, <2>5, <4>2
    <3> QED
      BY <3>1, <3>2
  <2> QED
    BY <1>5, <2>1, <2>3, <2>4, <2>6, <2>7, <2>8 DEF LinesFor
<1>6. CASE ~HasStatistics(i + 1)
  <2>1. \A c \in 1..i + 1 : HasStatistics(c) => c \in 1..i
    <3> TAKE c \in 1..i + 1
    <3>1. c = i + 1 \/ c \in 1..i
      BY <1>1
    <3> QED
      BY <1>6, <3>1
  <2>2. \A j \in Papers!Entries(lines) : lines[j].name \in 1..i + 1
    BY <1>1, <1>4
  <2> QED
    BY <1>6, <2>1, <2>2 DEF LinesFor
<1> QED
  BY <1>5, <1>6

(* The loop over the subtests, and what it writes.                          *)
LinesAre(f) ==
  f = [i \in 0..Len(rows) |->
         IF i = 0 THEN << Papers!Note, Papers!Note, Papers!Note, Papers!Note, Papers!Note >>
         ELSE IF rows[i].iterations > 0 THEN Append(f[i - 1], Papers!Entry(i)) ELSE f[i - 1]]

LEMMA ReferenceLines ==
  ASSUME rows \in Papers!BoundedSeq(Papers!Rows, MaxRows)
  PROVE  LinesFor(Papers!Reference, Len(rows))
<1>1. PICK len, T, z : /\ len = Len(rows) /\ T = Seq(Papers!Line)
                       /\ z = << Papers!Note, Papers!Note, Papers!Note, Papers!Note, Papers!Note >>
  OBVIOUS
<1>2. len \in Nat /\ z \in T
  <2>1. Papers!Note \in Papers!Line
    BY DEF Papers!Note, Papers!Line
  <2> QED
    BY <1>1, <2>1, RowsTyped
<1>3. \A i \in 1..len : Papers!Entry(i) \in Papers!Line
  <2> TAKE i \in 1..len
  <2>1. i \in Nat /\ rows[i].mean \in Nat
    BY <1>1, RowsTyped
  <2>2. Papers!Printed(rows[i].mean) \in Nat
    BY <2>1, PrintedIsNear
  <2> QED
    BY <2>1, <2>2 DEF Papers!Entry, Papers!Line
<1>4. PICK step : step = [q \in (1..len) \X T |-> IF rows[q[1]].iterations > 0
                                                  THEN Append(q[2], Papers!Entry(q[1])) ELSE q[2]]
  OBVIOUS
<1>5. step \in [(1..len) \X T -> T]
  <2>1. \A q \in (1..len) \X T : Append(q[2], Papers!Entry(q[1])) \in T /\ q[2] \in T
    BY <1>1, <1>3
  <2> QED
    BY <1>4, <2>1
<1>6. PICK g : Steps(g, len, z, step)
  BY <1>2, Iterates
<1>7. g \in [0..len -> T]
  BY <1>2, <1>5, <1>6, IteratesIn
<1>8. LinesAre(g)
  <2>1. ASSUME NEW i \in 0..len
        PROVE  g[i] = IF i = 0 THEN z
                      ELSE IF rows[i].iterations > 0 THEN Append(g[i - 1], Papers!Entry(i))
                      ELSE g[i - 1]
    <3>1. CASE i = 0
      BY <1>6, <3>1 DEF Steps
    <3>2. CASE i # 0
      <4>1. i \in 1..len /\ i - 1 \in 0..len
        BY <1>2, <3>2
      <4>2. << i, g[i - 1] >> \in (1..len) \X T
        BY <1>7, <4>1
      <4>3. g[i] = step[<< i, g[i - 1] >>]
        BY <1>6, <3>2 DEF Steps
      <4> QED
        BY <1>4, <3>2, <4>2, <4>3
    <3> QED
      BY <3>1, <3>2
  <2>2. g = [i \in 0..len |-> g[i]]
    BY <1>6, Zenon DEF Steps
  <2> QED
    BY <1>1, <2>1, <2>2, Zenon DEF LinesAre
<1>9. PICK f : f = (CHOOSE x : LinesAre(x)) /\ Papers!Lines = f
  BY Zenon DEF Papers!Lines, LinesAre
<1>10. LinesAre(f)
  BY <1>8, <1>9
<1>11. PICK S : S = {i \in 0..len : LinesFor(f[i], i)}
  OBVIOUS
<1>12. 0 \in S
  <2>1. 0 \in 0..len
    BY <1>2
  <2>2. f[0] = z
    BY <1>1, <1>10, <2>1 DEF LinesAre
  <2>3. Papers!Entries(z) = {}
    BY <1>1 DEF Papers!Entries, Papers!Note
  <2>4. LinesFor(z, 0)
    BY <1>1, <1>2, <2>3 DEF LinesFor
  <2> QED
    BY <1>11, <2>1, <2>2, <2>4
<1>13. ASSUME NEW i \in 0..len - 1, i \in S PROVE i + 1 \in S
  <2>1. i + 1 \in 0..len /\ i + 1 # 0 /\ (i + 1) - 1 = i
    BY <1>2
  <2>2. f[i + 1] = IF rows[i + 1].iterations > 0 THEN Append(f[i], Papers!Entry(i + 1)) ELSE f[i]
    BY <1>1, <1>10, <2>1 DEF LinesAre
  <2>3. LinesFor(f[i], i)
    BY <1>11, <1>13
  <2>4. LinesFor(f[i + 1], i + 1)
    BY <1>1, <2>2, <2>3, NextLines DEF HasStatistics
  <2> QED
    BY <1>11, <2>1, <2>4
<1>14. 0..len \subseteq S
  BY <1>2, <1>12, <1>13, UpTo
<1>15. len \in S
  BY <1>2, <1>14
<1> QED
  BY <1>1, <1>9, <1>11, <1>15 DEF Papers!Reference

(* A reference that ends early is one that is as it was written, too.       *)
LEMMA WrittenLines ==
  ASSUME rows \in Papers!BoundedSeq(Papers!Rows, MaxRows)
  PROVE  Papers!Reference \in Seq(Papers!Line) /\ AsWritten(Papers!Reference)
<1>1. LinesFor(Papers!Reference, Len(rows))
  BY ReferenceLines
<1>2. PICK lines : lines = Papers!Reference
  OBVIOUS
<1>3. PICK E : E = Papers!Entries(lines)
  OBVIOUS
<1>4. Len(lines) \in Nat /\ E \subseteq 1..Len(lines)
  BY <1>1, <1>2, <1>3 DEF LinesFor, Papers!Entries
<1>5. \A j \in E : Papers!Printed(rows[lines[j].name].mean) \in Nat
  <2> TAKE j \in E
  <2>1. lines[j].name \in DOMAIN rows
    BY <1>1, <1>2, <1>3, RowsTyped DEF LinesFor
  <2>2. rows[lines[j].name].mean \in Nat
    BY <2>1, RowsTyped
  <2> QED
    BY <2>2, PrintedIsNear
<1>6. ASSUME NEW j \in E, NEW c \in DOMAIN rows, HasStatistics(c), c < lines[j].name
      PROVE  \E l \in E : l < j /\ lines[l].name = c
  <2>1. PICK l \in E : lines[l].name = c
    BY <1>1, <1>2, <1>3, <1>6, RowsTyped DEF LinesFor
  <2>2. lines[j].name \in Nat /\ c \in Nat
    BY <1>1, <1>2, <1>3, <1>6, RowsTyped DEF LinesFor
  <2>3. ~(j < l)
    BY <1>1, <1>2, <1>3, <1>6, <2>1, <2>2 DEF LinesFor
  <2>4. j # l
    BY <1>6, <2>1, <2>2
  <2> QED
    BY <1>4, <2>1, <2>3, <2>4
<1> QED
  BY <1>1, <1>2, <1>3, <1>5, <1>6, RowsTyped DEF LinesFor, AsWritten

LEMMA TornLines ==
  ASSUME rows \in Papers!BoundedSeq(Papers!Rows, MaxRows),
         NEW c \in DOMAIN Papers!Reference, NEW last \in Papers!Torn(Papers!Reference[c])
  PROVE  /\ Append(SubSeq(Papers!Reference, 1, c - 1), last) \in Seq(Papers!Line)
         /\ AsWritten(Append(SubSeq(Papers!Reference, 1, c - 1), last))
<1>1. PICK whole : whole = Papers!Reference
  OBVIOUS
<1>2. /\ whole \in Seq(Papers!Line) /\ AsWritten(whole)
      /\ c \in 1..Len(whole) /\ Len(whole) \in Nat
  BY <1>1, WrittenLines
<1>3. whole[c] \in Papers!Line /\ Null \notin Nat
  BY <1>2, ReportAssumption DEF Papers!ReportAssumption
<1>4. /\ last \in Papers!Line
      /\ last.name # Null => whole[c].name = last.name /\ last.value <= whole[c].value
  <2>1. CASE last = Papers!Note
    BY <2>1 DEF Papers!Note, Papers!Line
  <2>2. CASE /\ whole[c].name # Null
             /\ last \in [name : {whole[c].name}, value : 0..whole[c].value]
    BY <1>3, <2>2 DEF Papers!Line
  <2> QED
    BY <1>1, <2>1, <2>2 DEF Papers!Torn
<1>5. PICK torn : torn = Append(SubSeq(whole, 1, c - 1), last)
  OBVIOUS
<1>6. /\ torn \in Seq(Papers!Line) /\ Len(torn) = c /\ torn[c] = last
      /\ \A j \in 1..c - 1 : torn[j] = whole[j]
  <2>1. PICK front : front = SubSeq(whole, 1, c - 1)
    OBVIOUS
  <2>2. front \in Seq(Papers!Line) /\ Len(front) = c - 1 /\ \A j \in 1..c - 1 : front[j] = whole[j]
    BY <1>2, <2>1
  <2> QED
    BY <1>2, <1>4, <1>5, <2>1, <2>2
<1>7. PICK E, F : E = Papers!Entries(whole) /\ F = Papers!Entries(torn)
  OBVIOUS
<1>8. /\ F \subseteq E /\ F \subseteq 1..c /\ E \subseteq 1..Len(whole)
      /\ \A j \in E : j < c => j \in F
  BY <1>2, <1>4, <1>6, <1>7 DEF Papers!Entries
<1>9. \A j \in F : torn[j].name = whole[j].name /\ (j < c => torn[j].value = whole[j].value)
                    /\ torn[j].value <= whole[j].value
  <2> TAKE j \in F
  <2>1. CASE j = c
    BY <1>2, <1>4, <1>6, <1>7, <2>1 DEF Papers!Entries
  <2>2. CASE j # c
    <3>1. torn[j] = whole[j] /\ whole[j] \in Papers!Line
      BY <1>2, <1>6, <1>8, <2>2
    <3> QED
      BY <3>1 DEF Papers!Line
  <2> QED
    BY <2>1, <2>2
<1>10. ASSUME NEW j \in F
       PROVE  /\ torn[j].name \in DOMAIN rows /\ HasStatistics(torn[j].name)
              /\ torn[j].value <= Papers!Printed(rows[torn[j].name].mean)
              /\ j < c => torn[j].value = Papers!Printed(rows[torn[j].name].mean)
  <2>1. /\ whole[j].name \in DOMAIN rows /\ HasStatistics(whole[j].name)
        /\ whole[j].value <= Papers!Printed(rows[whole[j].name].mean)
        /\ j < Len(whole) => whole[j].value = Papers!Printed(rows[whole[j].name].mean)
    BY <1>2, <1>7, <1>8 DEF AsWritten
  <2>2. j < c => j < Len(whole)
    BY <1>2, <1>8
  <2>3. rows[whole[j].name].mean \in Nat
    BY <2>1, RowsTyped
  <2>4. Papers!Printed(rows[whole[j].name].mean) \in Nat
    BY <2>3, PrintedIsNear
  <2>5. torn[j] \in Papers!Line /\ whole[j] \in Papers!Line
    BY <1>2, <1>6, <1>8
  <2>6. torn[j].value \in Nat /\ whole[j].value \in Nat
    BY <2>5 DEF Papers!Line
  <2> QED
    BY <1>9, <2>1, <2>2, <2>4, <2>6
<1>11. \A j, l \in F : j < l => torn[j].name < torn[l].name
  BY <1>2, <1>7, <1>8, <1>9 DEF AsWritten
<1>12. ASSUME NEW j \in F, NEW d \in DOMAIN rows, HasStatistics(d), d < torn[j].name
       PROVE  \E l \in F : l < j /\ torn[l].name = d
  <2>1. PICK l \in E : l < j /\ whole[l].name = d
    BY <1>2, <1>7, <1>8, <1>9, <1>12 DEF AsWritten
  <2>2. l < c
    BY <1>2, <1>8, <2>1
  <2> QED
    BY <1>8, <1>9, <2>1, <2>2
<1>13. AsWritten(torn)
  <2>1. Len(torn) = c
    BY <1>6
  <2> QED
    BY <1>7, <1>10, <1>11, <1>12, <2>1, Zenon DEF AsWritten
<1> QED
  BY <1>1, <1>5, <1>6, <1>13

-----------------------------------------------------------------------------
(* The invariant of the reader.                                             *)

EntriesTo(p) == {j \in Entries : j <= p}

(* What has been read of a reference that nobody edited.                    *)
ReadSoFar ==
  /\ n = Cardinality(Entries)
  /\ pos <= Len(ref)
  /\ idx = Cardinality(EntriesTo(pos))
  /\ \A j \in 1..idx : \E l \in EntriesTo(pos) : table[j] = ref[l]
  /\ \A l \in EntriesTo(pos) : \E j \in 1..idx : table[j] = ref[l]
  /\ \A i, j \in 1..idx : i < j => table[i].name < table[j].name

Before == Papers!Docs \cup {"reference"}

PaperInv ==
  /\ Papers!TypeOK
  /\ rpc \in Before => ref = Absent /\ ~edited
  /\ rpc \in Before \cup {"count"} => n = 0 /\ pos = 0 /\ idx = 0 /\ ret = -1
  /\ rpc = "parse" => ret = -1 /\ ref # Absent
  /\ rpc = "end" /\ ret = 0 => ref # Absent /\ (~edited => pos = Len(ref) \/ idx = n)
  /\ ref # Absent => "reference" \in announced /\ (~edited => AsWritten(ref))
  /\ Len(table) = n /\ idx <= n
  /\ \A j \in 1..n : table[j] = Null <=> j > idx
  /\ rpc = "parse" \/ (rpc = "end" /\ ret = 0) => (~edited => ReadSoFar)


(* A run before its documents.                                              *)
LEMMA PaperInit == Papers!Init => PaperInv
<1>1. SUFFICES ASSUME Papers!Init PROVE PaperInv
  OBVIOUS
<1>2. table \in Seq(Papers!Line \cup {Null}) /\ Len(table) = 0
  BY <1>1 DEF Papers!Init
<1>3. Papers!TypeOK
  BY <1>1, <1>2 DEF Papers!Init, Papers!TypeOK, Papers!Docs
<1> QED
  BY <1>1, <1>2, <1>3 DEF Papers!Init, PaperInv, Before, Papers!Docs

(* What is not changed stays as written.                                    *)
LEMMA SameReference ==
  ASSUME rows' = rows, ref' = ref
  PROVE  AsWritten(ref)' <=> AsWritten(ref)
  BY DEF AsWritten, HasStatistics, Papers!Entries

LEMMA SameReading ==
  ASSUME ref' = ref, n' = n, pos' = pos, idx' = idx, table' = table
  PROVE  ReadSoFar' <=> ReadSoFar
  BY DEF ReadSoFar, EntriesTo, Entries, Papers!Entries

(* One more document, or none.                                              *)
LEMMA PaperWrite ==
  ASSUME PaperInv, NEW doc \in Papers!Docs, NEW then \in Before, Papers!Write(doc, then)
  PROVE  PaperInv'
<1>1. /\ rpc = doc /\ rpc' = then /\ announced' = announced \cup {doc}
      /\ UNCHANGED << rows, ref, n, pos, idx, table, ret, edited >>
      /\ files' \in [Papers!Docs -> {"none", "cut", "whole"}]
  BY DEF Papers!Write, PaperInv, Papers!TypeOK
<1>2. /\ ref = Absent /\ ~edited /\ n = 0 /\ pos = 0 /\ idx = 0 /\ ret = -1
  BY <1>1 DEF PaperInv, Before
<1>3. Papers!TypeOK'
  BY <1>1 DEF PaperInv, Papers!TypeOK, Before, Papers!Docs
<1>4. rpc' \in Before /\ rpc' # "parse" /\ rpc' # "end"
  BY <1>1 DEF Before, Papers!Docs
<1> QED
  BY <1>1, <1>2, <1>3, <1>4 DEF PaperInv, Before, Papers!Docs

(* The reference, or what becomes of it.                                    *)
LEMMA PaperReference ==
  ASSUME PaperInv, Papers!WriteReference
  PROVE  PaperInv'
<1>1. /\ rpc = "reference" /\ rpc' = "count"
      /\ UNCHANGED << rows, files, n, pos, idx, table, ret, edited >>
      /\ rows \in Papers!BoundedSeq(Papers!Rows, MaxRows)
  BY DEF Papers!WriteReference, PaperInv, Papers!TypeOK
<1>2. ref = Absent /\ ~edited /\ n = 0 /\ pos = 0 /\ idx = 0 /\ ret = -1
  BY <1>1 DEF PaperInv, Before
<1>3. \/ ref' = Absent /\ announced' = announced
      \/ /\ announced' = announced \cup {"reference"}
         /\ ref' \in Seq(Papers!Line) /\ AsWritten(ref')
  BY <1>1, WrittenLines, TornLines DEF Papers!WriteReference
<1>4. Papers!TypeOK'
  BY <1>1, <1>3 DEF PaperInv, Papers!TypeOK
<1>5. ref' # Absent => "reference" \in announced' /\ AsWritten(ref')
  BY <1>3
<1>6. ref' # Absent => AsWritten(ref)'
  <2>1. AsWritten(ref') => AsWritten(ref)'
    BY <1>1 DEF AsWritten, HasStatistics, Papers!Entries
  <2> QED
    BY <1>5, <2>1
<1> QED
  BY <1>1, <1>2, <1>4, <1>5, <1>6 DEF PaperInv, Before, Papers!Docs

(* Another program changes the reference.                                   *)
LEMMA PaperEdit ==
  ASSUME PaperInv, Papers!Edit
  PROVE  PaperInv'
<1>1. /\ rpc \in {"count", "parse"} /\ ref # Absent /\ edited' = TRUE
      /\ UNCHANGED << rows, files, announced, rpc, n, pos, idx, table, ret >>
  BY DEF Papers!Edit, Papers!written
<1>2. ref \in Seq(Papers!Line)
  BY <1>1 DEF PaperInv, Papers!TypeOK
<1>3. ref' \in Seq(Papers!Line)
  <2>1. ASSUME NEW c \in DOMAIN ref PROVE Papers!RemoveAt(ref, c) \in Seq(Papers!Line)
    <3>1. c \in 1..Len(ref) /\ Len(ref) \in Nat
      BY <1>2
    <3>2. SubSeq(ref, 1, c - 1) \in Seq(Papers!Line) /\ SubSeq(ref, c + 1, Len(ref)) \in Seq(Papers!Line)
      BY <1>2, <3>1
    <3> QED
      BY <3>2 DEF Papers!RemoveAt
  <2>2. [name |-> 0, value |-> 1] \in Papers!Line
    BY DEF Papers!Line
  <2>3. Append(ref, [name |-> 0, value |-> 1]) \in Seq(Papers!Line)
    BY <1>2, <2>2
  <2> QED
    BY <2>1, <2>3 DEF Papers!Edit
<1>4. ref' # Absent
  BY <1>3, ReportAssumption DEF Papers!ReportAssumption
<1>5. Papers!TypeOK'
  BY <1>1, <1>3 DEF PaperInv, Papers!TypeOK
<1> QED
  BY <1>1, <1>4, <1>5 DEF PaperInv, Before, Papers!Docs

(* Nothing to count, or no room.                                            *)
LEMMA PaperFails ==
  ASSUME PaperInv, Papers!CountFails
  PROVE  PaperInv'
<1>1. /\ rpc = "count" /\ rpc' = "end" /\ ret = -1
      /\ UNCHANGED << rows, files, announced, ref, n, pos, idx, table, ret, edited >>
  BY DEF Papers!CountFails, Papers!written, PaperInv
<1>2. Papers!TypeOK'
  BY <1>1 DEF PaperInv, Papers!TypeOK
<1>3. AsWritten(ref)' <=> AsWritten(ref)
  BY <1>1, SameReference
<1> QED
  BY <1>1, <1>2, <1>3 DEF PaperInv, Before, Papers!Docs

(* The number of elements, as an instance has it.                           *)
LEMMA EntriesCounted == \A S : Papers!Cardinality(S) = Cardinality(S)
  BY DEF Papers!Cardinality, Cardinality

(* The first pass.                                                          *)
LEMMA PaperCount ==
  ASSUME PaperInv, Papers!Count
  PROVE  PaperInv'
<1>1. /\ rpc = "count" /\ rpc' = "parse" /\ ref # Absent
      /\ n' = Cardinality(Entries) /\ table' = [j \in 1..n' |-> Null]
      /\ UNCHANGED << rows, files, announced, ref, pos, idx, ret, edited >>
  BY EntriesCounted DEF Papers!Count, Papers!written, Entries
<1>2. pos = 0 /\ idx = 0 /\ ret = -1 /\ ref \in Seq(Papers!Line)
  BY <1>1 DEF PaperInv, Papers!TypeOK
<1>3. IsFiniteSet(Entries)
  <2>1. Entries \subseteq 1..Len(ref) /\ Len(ref) \in Nat
    BY <1>2 DEF Entries, Papers!Entries
  <2>2. IsFiniteSet(1..Len(ref))
    BY <2>1, FS_Interval
  <2> QED
    BY <2>1, <2>2, FS_Subset
<1>4. n' \in Nat
  BY <1>1, <1>3, FS_CardinalityType
<1>5. table' \in Seq(Papers!Line \cup {Null}) /\ Len(table') = n'
  BY <1>1, <1>4
<1>6. Papers!TypeOK'
  BY <1>1, <1>4, <1>5 DEF PaperInv, Papers!TypeOK
<1>7. AsWritten(ref)' <=> AsWritten(ref)
  BY <1>1, SameReference
<1>8. EntriesTo(pos)' = {} /\ Entries' = Entries
  BY <1>1, <1>2 DEF EntriesTo, Entries, Papers!Entries
<1>9. idx' <= n' /\ \A j \in 1..n' : table'[j] = Null <=> j > idx'
  BY <1>1, <1>2, <1>4
<1>10. ReadSoFar'
  <2>1. idx' = Cardinality(EntriesTo(pos)')
    BY <1>1, <1>2, <1>8, FS_EmptySet
  <2>2. n' = Cardinality(Entries')
    BY <1>1, <1>8
  <2>3. pos' <= Len(ref') /\ 1..idx' = {}
    BY <1>1, <1>2
  <2> QED
    BY <1>8, <2>1, <2>2, <2>3 DEF ReadSoFar
<1> QED
  BY <1>1, <1>5, <1>6, <1>7, <1>9, <1>10 DEF PaperInv, Before, Papers!Docs

(* One line of the second pass.                                             *)
LEMMA PaperParseLine ==
  ASSUME PaperInv, Papers!ParseLine
  PROVE  PaperInv'
<1>1. /\ rpc = "parse" /\ rpc' = "parse" /\ pos < Len(ref) /\ idx < n /\ pos' = pos + 1
      /\ UNCHANGED << rows, files, announced, ref, n, ret, edited >>
  BY DEF Papers!ParseLine, Papers!written
<1>2. /\ ref \in Seq(Papers!Line) /\ n \in Nat /\ pos \in Nat /\ idx \in Nat
      /\ ref # Absent /\ ret = -1
      /\ table \in Seq(Papers!Line \cup {Null}) /\ Len(table) = n
  BY <1>1 DEF PaperInv, Papers!TypeOK
<1>3. ref[pos + 1] \in Papers!Line /\ pos + 1 \in 1..Len(ref) /\ Len(ref) \in Nat /\ Null \notin Papers!Line
  BY <1>1, <1>2, ReportAssumption DEF Papers!ReportAssumption
<1>4. AsWritten(ref)' <=> AsWritten(ref)
  BY <1>1, SameReference
<1>5. Entries' = Entries /\ IsFiniteSet(Entries) /\ Entries \subseteq 1..Len(ref)
  <2>1. Entries \subseteq 1..Len(ref) /\ Entries' = Entries
    BY <1>1, <1>2 DEF Entries, Papers!Entries
  <2>2. IsFiniteSet(1..Len(ref))
    BY <1>3, FS_Interval
  <2> QED
    BY <2>1, <2>2, FS_Subset
<1>6. IsFiniteSet(EntriesTo(pos))
  <2>1. EntriesTo(pos) \in SUBSET Entries
    BY DEF EntriesTo
  <2> QED
    BY <1>5, <2>1, FS_Subset
<1>7. CASE ref[pos + 1].name = Null
  <2>1. idx' = idx /\ table' = table
    BY <1>7 DEF Papers!ParseLine
  <2>2. Papers!TypeOK'
    BY <1>1, <1>2, <2>1 DEF PaperInv, Papers!TypeOK
  <2>3. EntriesTo(pos)' = EntriesTo(pos)
    <3>1. pos + 1 \notin Entries
      BY <1>7 DEF Entries, Papers!Entries
    <3>2. \A j \in Entries : j <= pos + 1 <=> j <= pos
      BY <1>2, <1>5, <3>1
    <3> QED
      BY <1>1, <1>5, <3>2 DEF EntriesTo
  <2>4. ~edited => ReadSoFar'
    <3>1. SUFFICES ASSUME ~edited PROVE ReadSoFar'
      OBVIOUS
    <3>2. ReadSoFar
      BY <1>1, <3>1 DEF PaperInv
    <3>3. pos' <= Len(ref')
      BY <1>1, <1>2, <1>3
    <3> QED
      BY <1>1, <1>5, <2>1, <2>3, <3>2, <3>3 DEF ReadSoFar
  <2> QED
    BY <1>1, <1>2, <1>4, <2>1, <2>2, <2>4 DEF PaperInv, Before, Papers!Docs
<1>8. CASE ref[pos + 1].name # Null
  <2>1. PICK line, to : line = ref[pos + 1] /\ to = idx + 1
    OBVIOUS
  <2>2. /\ idx' = to /\ table' = [table EXCEPT ![to] = line] /\ to \in 1..n
        /\ line \in Papers!Line /\ line # Null
    BY <1>1, <1>2, <1>3, <1>8, <2>1 DEF Papers!ParseLine
  <2>3. /\ table' \in Seq(Papers!Line \cup {Null}) /\ Len(table') = n
        /\ table'[to] = line /\ \A j \in 1..n : j # to => table'[j] = table[j]
    BY <1>2, <2>2
  <2>4. Papers!TypeOK'
    BY <1>1, <1>2, <2>1, <2>2, <2>3 DEF PaperInv, Papers!TypeOK
  <2>5. idx' <= n' /\ \A j \in 1..n' : table'[j] = Null <=> j > idx'
    <3>1. ASSUME NEW j \in 1..n PROVE table'[j] = Null <=> j > to
      <4>1. table[j] = Null <=> j > idx
        BY DEF PaperInv
      <4>2. CASE j = to
        BY <1>2, <2>1, <2>2, <2>3, <4>2
      <4>3. CASE j # to
        BY <1>2, <2>1, <2>3, <4>1, <4>3
      <4> QED
        BY <4>2, <4>3
    <3> QED
      BY <1>1, <1>2, <2>2, <3>1
  <2>6. EntriesTo(pos)' = EntriesTo(pos) \cup {pos + 1} /\ pos + 1 \notin EntriesTo(pos)
    <3>1. pos + 1 \in Entries
      BY <1>2, <1>3, <1>8 DEF Entries, Papers!Entries
    <3>2. \A j \in Entries : j <= pos + 1 <=> j <= pos \/ j = pos + 1
      BY <1>2, <1>5
    <3>3. EntriesTo(pos)' = {j \in Entries : j <= pos + 1}
      BY <1>1, <1>5 DEF EntriesTo
    <3>4. ~(pos + 1 <= pos)
      BY <1>2
    <3> QED
      BY <3>1, <3>2, <3>3, <3>4, Zenon DEF EntriesTo
  <2>7. ASSUME ~edited PROVE ReadSoFar'
    <3>1. ReadSoFar /\ AsWritten(ref)
      BY <1>1, <1>2, <2>7 DEF PaperInv
    <3>2. PICK T : T = EntriesTo(pos)
      OBVIOUS
    <3>3. EntriesTo(pos)' = T \cup {pos + 1}
      BY <2>6, <3>2
    <3>4. idx' = Cardinality(T \cup {pos + 1})
      BY <1>6, <2>1, <2>2, <2>6, <3>1, <3>2, FS_AddElement DEF ReadSoFar
    <3>5. pos' <= Len(ref') /\ n' = Cardinality(Entries')
      BY <1>1, <1>2, <1>3, <1>5, <3>1 DEF ReadSoFar
    <3>6. ASSUME NEW j \in 1..to PROVE \E l \in T \cup {pos + 1} : table'[j] = ref[l]
      <4>1. CASE j = to
        BY <2>1, <2>3, <4>1
      <4>2. CASE j # to
        <5>1. j \in 1..idx /\ j \in 1..n
          BY <1>2, <2>1, <2>2, <4>2
        <5>2. PICK l \in T : table[j] = ref[l]
          BY <3>1, <3>2, <5>1 DEF ReadSoFar
        <5> QED
          BY <2>3, <4>2, <5>1, <5>2
      <4> QED
        BY <4>1, <4>2
    <3>7. ASSUME NEW l \in T \cup {pos + 1} PROVE \E j \in 1..to : table'[j] = ref[l]
      <4>1. CASE l = pos + 1
        BY <2>1, <2>2, <2>3, <4>1
      <4>2. CASE l \in T
        <5>1. PICK j \in 1..idx : table[j] = ref[l]
          BY <3>1, <3>2, <4>2 DEF ReadSoFar
        <5>2. j \in 1..to /\ j \in 1..n /\ j # to
          BY <1>2, <2>1, <2>2, <5>1
        <5> QED
          BY <2>3, <5>1, <5>2
      <4> QED
        BY <4>1, <4>2
    <3>8. ASSUME NEW i \in 1..to, NEW j \in 1..to, i < j PROVE table'[i].name < table'[j].name
      <4>1. i \in 1..idx /\ i \in 1..n /\ i # to /\ table'[i] = table[i]
        BY <1>2, <2>1, <2>2, <2>3, <3>8
      <4>2. CASE j = to
        <5>1. PICK l \in T : table[i] = ref[l]
          BY <3>1, <3>2, <4>1 DEF ReadSoFar
        <5>2. l \in Entries /\ pos + 1 \in Entries /\ l < pos + 1
          BY <1>2, <1>3, <1>5, <1>8, <3>2, <5>1 DEF EntriesTo, Entries, Papers!Entries
        <5>3. ref[l].name < ref[pos + 1].name
          BY <3>1, <5>2 DEF AsWritten, Entries
        <5> QED
          BY <2>1, <2>3, <4>1, <4>2, <5>1, <5>3
      <4>3. CASE j # to
        <5>1. j \in 1..idx /\ j \in 1..n /\ table'[j] = table[j]
          BY <1>2, <2>1, <2>2, <2>3, <4>3
        <5> QED
          BY <3>1, <3>8, <4>1, <5>1 DEF ReadSoFar
      <4> QED
        BY <4>2, <4>3
    <3>9. ref' = ref /\ idx' = to
      BY <1>1, <2>2
    <3> QED
      BY <3>3, <3>4, <3>5, <3>6, <3>7, <3>8, <3>9 DEF ReadSoFar
  <2> QED
    BY <1>1, <1>2, <1>4, <2>3, <2>4, <2>5, <2>7 DEF PaperInv, Before, Papers!Docs
<1> QED
  BY <1>7, <1>8

(* The end of the second pass.                                              *)
LEMMA PaperEnds ==
  ASSUME PaperInv, Papers!ParseEnds
  PROVE  PaperInv'
<1>1. /\ rpc = "parse" /\ rpc' = "end" /\ ret' = 0 /\ (pos >= Len(ref) \/ idx = n)
      /\ UNCHANGED << rows, files, announced, ref, n, pos, idx, table, edited >>
  BY DEF Papers!ParseEnds, Papers!written
<1>2. Papers!TypeOK'
  BY <1>1 DEF PaperInv, Papers!TypeOK
<1>3. (AsWritten(ref)' <=> AsWritten(ref)) /\ (ReadSoFar' <=> ReadSoFar)
  BY <1>1, SameReference, SameReading
<1>4. ~edited => pos = Len(ref) \/ idx = n
  <2>1. SUFFICES ASSUME ~edited PROVE pos = Len(ref) \/ idx = n
    OBVIOUS
  <2>2. pos <= Len(ref) /\ pos \in Nat /\ ref \in Seq(Papers!Line)
    BY <1>1, <2>1 DEF PaperInv, ReadSoFar, Papers!TypeOK
  <2> QED
    BY <1>1, <2>2
<1> QED
  BY <1>1, <1>2, <1>3, <1>4 DEF PaperInv, Before, Papers!Docs

(* Every step of the report.                                                *)
LEMMA PaperStep ==
  ASSUME PaperInv, Papers!Next \/ UNCHANGED paperVars
  PROVE  PaperInv'
<1>1. CASE Papers!output_provenance
  BY <1>1, PaperWrite DEF Papers!output_provenance, Papers!Docs, Before
<1>2. CASE Papers!output_jsonl
  BY <1>2, PaperWrite DEF Papers!output_jsonl, Papers!Docs, Before
<1>3. CASE Papers!output_html_report
  BY <1>3, PaperWrite DEF Papers!output_html_report, Papers!Docs, Before
<1>4. CASE Papers!WriteReference
  BY <1>4, PaperReference
<1>5. CASE Papers!Edit
  BY <1>5, PaperEdit
<1>6. CASE Papers!CountFails
  BY <1>6, PaperFails
<1>7. CASE Papers!Count
  BY <1>7, PaperCount
<1>8. CASE Papers!ParseLine
  BY <1>8, PaperParseLine
<1>9. CASE Papers!ParseEnds
  BY <1>9, PaperEnds
<1>10. CASE UNCHANGED paperVars
  <2>1. UNCHANGED << rows, rpc, files, announced, ref, n, pos, idx, table, ret, edited >>
    BY <1>10 DEF paperVars
  <2>2. (AsWritten(ref)' <=> AsWritten(ref)) /\ (ReadSoFar' <=> ReadSoFar)
    BY <2>1, SameReference, SameReading
  <2>3. Papers!TypeOK'
    BY <2>1 DEF PaperInv, Papers!TypeOK
  <2> QED
    BY <2>1, <2>2, <2>3 DEF PaperInv
<1>11. CASE Papers!Finished
  <2>1. UNCHANGED paperVars
    BY <1>11 DEF Papers!Finished, Papers!vars, Papers!written, paperVars
  <2> QED
    BY <1>10, <2>1
<1> QED
  BY <1>1, <1>2, <1>3, <1>4, <1>5, <1>6, <1>7, <1>8, <1>9, <1>10, <1>11 DEF Papers!Next

(* When the second pass ends, all of a reference nobody edited is read.     *)
LEMMA AllRead ==
  ASSUME PaperInv, rpc = "end", ret = 0, ~edited
  PROVE  /\ idx = n /\ EntriesTo(pos) = Entries
         /\ ReadSoFar /\ AsWritten(ref) /\ ref \in Seq(Papers!Line)
<1>1. /\ ReadSoFar /\ AsWritten(ref) /\ ref \in Seq(Papers!Line) /\ n \in Nat
      /\ pos = Len(ref) \/ idx = n
  BY DEF PaperInv, Papers!TypeOK
<1>2. IsFiniteSet(Entries) /\ Entries \subseteq 1..Len(ref) /\ Len(ref) \in Nat
  <2>1. Entries \subseteq 1..Len(ref) /\ Len(ref) \in Nat
    BY <1>1 DEF Entries, Papers!Entries
  <2>2. IsFiniteSet(1..Len(ref))
    BY <2>1, FS_Interval
  <2> QED
    BY <2>1, <2>2, FS_Subset
<1>3. EntriesTo(pos) \in SUBSET Entries
  BY DEF EntriesTo
<1>4. EntriesTo(pos) = Entries
  <2>1. CASE pos = Len(ref)
    <3>1. \A j \in Entries : j <= pos
      BY <1>2, <2>1
    <3> QED
      BY <3>1 DEF EntriesTo
  <2>2. CASE idx = n
    <3>1. Cardinality(EntriesTo(pos)) = Cardinality(Entries)
      BY <1>1, <2>2 DEF ReadSoFar
    <3> QED
      BY <1>2, <1>3, <3>1, FS_Subset
  <2> QED
    BY <1>1, <2>1, <2>2
<1>5. idx = n
  BY <1>1, <1>4 DEF ReadSoFar
<1> QED
  BY <1>1, <1>4, <1>5

(* An entry of the table is one of the lines, and what it is worth to the   *)
(* run that wrote it.                                                       *)
LEMMA EntryIsOne ==
  ASSUME PaperInv, rpc = "end", ret = 0, ~edited, NEW j \in 1..n
  PROVE  /\ table[j].name \in DOMAIN rows /\ HasStatistics(table[j].name)
         /\ LET ratio == Papers!Normalized(rows[table[j].name].mean, table[j].value)
                off   == 2 * (ratio[1] - ratio[2])
            IN  \/ off \in (0 - PerDigit)..PerDigit
                \/ j = n /\ off > 0
<1>1. /\ idx = n /\ EntriesTo(pos) = Entries /\ ReadSoFar /\ AsWritten(ref)
      /\ ref \in Seq(Papers!Line)
  BY AllRead
<1>2. PICK l \in Entries : table[j] = ref[l]
  BY <1>1 DEF ReadSoFar
<1>3. l \in 1..Len(ref) /\ Len(ref) \in Nat /\ table[j] \in Papers!Line /\ n \in Nat
  BY <1>1, <1>2 DEF Entries, Papers!Entries, PaperInv, Papers!TypeOK
<1>4. PICK name, value : name = table[j].name /\ value = table[j].value
  OBVIOUS
<1>5. /\ name \in DOMAIN rows /\ HasStatistics(name)
      /\ value <= Papers!Printed(rows[name].mean)
      /\ l < Len(ref) => value = Papers!Printed(rows[name].mean)
  BY <1>1, <1>2, <1>4 DEF AsWritten, Entries
<1>6. PICK mean, printed, d : /\ mean = rows[name].mean /\ printed = Papers!Printed(mean)
                              /\ d = PerDigit
  OBVIOUS
<1>7. /\ mean \in Nat /\ printed \in Nat /\ d \in Nat \ {0} /\ value \in Nat
      /\ 2 * (mean - printed * d) \in (0 - d)..d
  <2>1. mean \in Nat
    BY <1>5, <1>6, RowsTyped DEF PaperInv, Papers!TypeOK
  <2>2. d \in Nat \ {0}
    BY <1>6, ReportAssumption DEF Papers!ReportAssumption
  <2>3. value \in Nat
    BY <1>3, <1>4 DEF Papers!Line
  <2> QED
    BY <1>6, <2>1, <2>2, <2>3, PrintedIsNear
<1>8. l = Len(ref) => j = n
  <2>1. SUFFICES ASSUME l = Len(ref), j # n PROVE FALSE
    OBVIOUS
  <2>2. j < n /\ n \in 1..idx /\ j \in 1..idx
    BY <1>1, <1>3, <2>1
  <2>3. table[j].name < table[n].name
    BY <1>1, <2>2 DEF ReadSoFar
  <2>4. PICK o \in Entries : table[n] = ref[o]
    BY <1>1, <2>2 DEF ReadSoFar
  <2>5. o \in 1..Len(ref) /\ ref[o].name \in Nat /\ ref[l].name \in Nat
    <3>1. ref[o].name \in DOMAIN rows /\ ref[l].name \in DOMAIN rows
      BY <1>1, <1>2, <2>4 DEF AsWritten, Entries
    <3>2. DOMAIN rows \subseteq Nat
      BY RowsTyped DEF PaperInv, Papers!TypeOK
    <3> QED
      BY <1>1, <2>4, <3>1, <3>2 DEF Entries, Papers!Entries
  <2>6. o < l \/ o = l
    BY <1>3, <2>1, <2>5
  <2>7. ref[o].name < ref[l].name \/ ref[o].name = ref[l].name
    BY <1>1, <1>2, <2>4, <2>6 DEF AsWritten, Entries
  <2> QED
    BY <1>2, <2>3, <2>4, <2>5, <2>7
<1>9. PICK ratio, off : ratio = Papers!Normalized(mean, value) /\ off = 2 * (ratio[1] - ratio[2])
  OBVIOUS
<1>10. off \in (0 - d)..d \/ (j = n /\ off > 0)
  <2>1. CASE value = 0
    <3>1. ratio = << 1, 1 >>
      BY <1>9, <2>1 DEF Papers!Normalized
    <3> QED
      BY <1>7, <1>9, <3>1
  <2>2. CASE value # 0
    <3>1. ratio = << mean, value * d >>
      BY <1>6, <1>7, <1>9, <2>2 DEF Papers!Normalized
    <3>2. CASE value = printed
      BY <1>7, <1>9, <3>1, <3>2
    <3>3. CASE value # printed
      <4>1. j = n
        BY <1>3, <1>5, <1>6, <1>8, <3>3
      <4>2. value + 1 <= printed
        BY <1>5, <1>6, <1>7, <3>3
      <4>3. PICK a, c : a = value * d /\ c = printed * d
        OBVIOUS
      <4>4. a \in Nat /\ c \in Nat /\ a + d <= c
        <5>1. PICK more \in Nat : printed = value + 1 + more
          <6>1. printed - value - 1 \in Nat /\ printed = value + 1 + (printed - value - 1)
            BY <1>7, <4>2
          <6> QED
            BY <6>1
        <5>2. printed * d = value * d + d + more * d
          BY <1>7, <5>1
        <5>3. more * d \in Nat /\ value * d \in Nat
          BY <1>7, <5>1
        <5> QED
          BY <1>7, <4>3, <5>2, <5>3
      <4>5. 2 * (mean - c) >= 0 - d
        BY <1>7, <4>3, <4>4
      <4>6. 2 * (mean - a) > 0
        BY <1>7, <4>4, <4>5
      <4> QED
        BY <1>9, <3>1, <4>1, <4>3, <4>6
    <3> QED
      BY <3>2, <3>3
  <2> QED
    BY <2>1, <2>2
<1> QED
  BY <1>4, <1>5, <1>6, <1>9, <1>10, Zenon

(* What the reader promises.                                                *)
LEMMA PaperReadsBack == PaperInv => Papers!TypeOK /\ Papers!ReferenceReadBack
<1>1. SUFFICES ASSUME PaperInv PROVE Papers!ReferenceReadBack
  BY DEF PaperInv
<1>2. Papers!FillsItsArrays
  BY <1>1, AllRead DEF PaperInv, Papers!FillsItsArrays
<1>3. ASSUME rpc = "end", ret = 0, ~edited
      PROVE  /\ "reference" \in announced
             /\ \A j \in 1..n : HasStatistics(table[j].name)
             /\ \A i, j \in 1..n : i < j => table[i].name < table[j].name
             /\ \A i \in DOMAIN rows, j \in 1..n :
                  HasStatistics(i) /\ i < table[j].name => \E l \in 1..j : table[l].name = i
  <2>1. /\ idx = n /\ EntriesTo(pos) = Entries /\ ReadSoFar /\ AsWritten(ref)
        /\ ref \in Seq(Papers!Line)
    BY <1>1, <1>3, AllRead
  <2>2. "reference" \in announced
    BY <1>1, <1>3 DEF PaperInv
  <2>3. \A j \in 1..n : HasStatistics(table[j].name)
    BY <1>1, <1>3, EntryIsOne
  <2>4. \A i, j \in 1..n : i < j => table[i].name < table[j].name
    BY <2>1 DEF ReadSoFar
  <2>5. ASSUME NEW i \in DOMAIN rows, NEW j \in 1..n, HasStatistics(i), i < table[j].name
        PROVE  \E l \in 1..j : table[l].name = i
    <3>1. PICK o \in Entries : table[j] = ref[o]
      BY <2>1 DEF ReadSoFar
    <3>2. PICK p \in Entries : p < o /\ ref[p].name = i
      BY <2>1, <2>5, <3>1 DEF AsWritten, Entries
    <3>3. PICK l \in 1..n : table[l] = ref[p]
      BY <2>1 DEF ReadSoFar
    <3>4. i \in Nat /\ table[j].name \in Nat /\ n \in Nat
      <4>1. table[j].name \in DOMAIN rows
        BY <1>1, <1>3, EntryIsOne
      <4>2. DOMAIN rows \subseteq Nat
        BY <1>1, RowsTyped DEF PaperInv, Papers!TypeOK
      <4> QED
        BY <1>1, <4>1, <4>2 DEF PaperInv, Papers!TypeOK
    <3>5. ~(j < l) /\ j # l
      BY <2>4, <2>5, <3>2, <3>3, <3>4
    <3>6. l \in 1..j
      BY <3>4, <3>5
    <3> QED
      BY <3>2, <3>3, <3>6
  <2> QED
    BY <2>2, <2>3, <2>4, <2>5
<1>4. Papers!OwnReferenceIsOne
  <2>1. SUFFICES ASSUME rpc = "end", ret = 0, ~edited
                 PROVE  \A j \in 1..n :
                          LET ratio == Papers!Normalized(rows[table[j].name].mean, table[j].value)
                              off   == 2 * (ratio[1] - ratio[2])
                          IN  off \in -PerDigit..PerDigit \/ (j = n /\ off > 0)
    BY <1>3, Zenon DEF Papers!OwnReferenceIsOne, HasStatistics
  <2>2. -PerDigit = 0 - PerDigit
    BY ReportAssumption DEF Papers!ReportAssumption
  <2> QED
    BY <1>1, <2>1, <2>2, EntryIsOne, Zenon
<1> QED
  BY <1>2, <1>4 DEF Papers!ReferenceReadBack

-----------------------------------------------------------------------------
(* Sums of the numbers in an array.                                         *)

SumsTo(f, s) == f = [i \in 0..Len(s) |-> IF i = 0 THEN 0 ELSE f[i - 1] + s[i]]

(* f holds the sums of the first numbers of s.                              *)
Partial(f, s) ==
  /\ f \in [0..Len(s) -> Int] /\ f[0] = 0
  /\ \A i \in 1..Len(s) : f[i] = f[i - 1] + s[i]

LEMMA SumsExist ==
  ASSUME NEW s \in Seq(Int)
  PROVE  Partial(CHOOSE f : SumsTo(f, s), s)
<1>1. PICK len : len = Len(s)
  OBVIOUS
<1>2. len \in Nat /\ \A i \in 1..len : s[i] \in Int
  BY <1>1
<1>3. PICK step : step = [q \in (1..len) \X Int |-> q[2] + s[q[1]]]
  OBVIOUS
<1>4. step \in [(1..len) \X Int -> Int]
  BY <1>2, <1>3
<1>5. PICK g : Steps(g, len, 0, step)
  BY <1>2, Iterates
<1>6. g \in [0..len -> Int]
  <2>1. PICK T : T = Int
    OBVIOUS
  <2>2. 0 \in T /\ step \in [(1..len) \X T -> T]
    BY <1>4, <2>1
  <2>3. g \in [0..len -> T]
    BY <1>2, <1>5, <2>2, IteratesIn
  <2> QED
    BY <2>1, <2>3
<1>7. SumsTo(g, s)
  <2>1. ASSUME NEW i \in 0..len PROVE g[i] = IF i = 0 THEN 0 ELSE g[i - 1] + s[i]
    <3>1. CASE i = 0
      BY <1>5, <3>1 DEF Steps
    <3>2. CASE i # 0
      <4>1. i \in 1..len /\ i - 1 \in 0..len
        BY <1>2, <3>2
      <4>2. << i, g[i - 1] >> \in (1..len) \X Int
        BY <1>6, <4>1
      <4>3. g[i] = step[<< i, g[i - 1] >>]
        BY <1>5, <3>2 DEF Steps
      <4> QED
        BY <1>3, <3>2, <4>2, <4>3
    <3> QED
      BY <3>1, <3>2
  <2>2. g = [i \in 0..len |-> g[i]]
    BY <1>5, Zenon DEF Steps
  <2> QED
    BY <1>1, <2>1, <2>2, Zenon DEF SumsTo
<1>8. PICK f : f = (CHOOSE x : SumsTo(x, s))
  OBVIOUS
<1>9. SumsTo(f, s)
  BY <1>7, <1>8
<1>10. f[0] = 0 /\ \A i \in 1..len : f[i] = f[i - 1] + s[i]
  <2>1. 0 \in 0..len /\ \A i \in 1..len : i \in 0..len /\ i # 0
    BY <1>2
  <2> QED
    BY <1>1, <1>9, <2>1 DEF SumsTo
<1>11. PICK S : S = {i \in 0..len : f[i] \in Int}
  OBVIOUS
<1>12. 0 \in S
  BY <1>2, <1>10, <1>11
<1>13. ASSUME NEW i \in 0..len - 1, i \in S PROVE i + 1 \in S
  <2>1. i + 1 \in 1..len /\ i + 1 \in 0..len /\ (i + 1) - 1 = i
    BY <1>2
  <2>2. f[i + 1] = f[i] + s[i + 1]
    BY <1>10, <2>1
  <2> QED
    BY <1>2, <1>11, <1>13, <2>1, <2>2
<1>14. 0..len \subseteq S
  BY <1>2, <1>12, <1>13, UpTo
<1>15. \A i \in 0..len : f[i] \in Int
  BY <1>11, <1>14
<1>16. f = [i \in 0..len |-> f[i]]
  BY <1>1, <1>9, Zenon DEF SumsTo
<1> QED
  BY <1>1, <1>8, <1>10, <1>15, <1>16 DEF Partial

(* The sum is the last of them.                                             *)
LEMMA SumIsLast ==
  ASSUME NEW s \in Seq(Int)
  PROVE  \E f : Partial(f, s) /\ Scores!Sum(s) = f[Len(s)]
<1>1. Scores!Sum(s) = (CHOOSE f : SumsTo(f, s))[Len(s)]
  BY Zenon DEF Scores!Sum, SumsTo
<1> QED
  BY <1>1, SumsExist

LEMMA SumTyped ==
  ASSUME NEW s \in Seq(Int)
  PROVE  Scores!Sum(s) \in Int /\ (Len(s) = 0 => Scores!Sum(s) = 0)
<1>1. PICK f : Partial(f, s) /\ Scores!Sum(s) = f[Len(s)]
  BY SumIsLast
<1>2. Len(s) \in 0..Len(s)
  OBVIOUS
<1> QED
  BY <1>1, <1>2 DEF Partial

(* One number more.                                                         *)
LEMMA SumOfMore ==
  ASSUME NEW s \in Seq(Int), NEW t \in Seq(Int), Len(t) = Len(s) + 1,
         \A i \in 1..Len(s) : t[i] = s[i]
  PROVE  Scores!Sum(t) = Scores!Sum(s) + t[Len(t)]
<1>1. PICK f : Partial(f, s) /\ Scores!Sum(s) = f[Len(s)]
  BY SumIsLast
<1>2. PICK g : Partial(g, t) /\ Scores!Sum(t) = g[Len(t)]
  BY SumIsLast
<1>3. PICK len : len = Len(s)
  OBVIOUS
<1>4. len \in Nat /\ Len(t) = len + 1
  BY <1>3
<1>5. PICK S : S = {i \in 0..len : g[i] = f[i]}
  OBVIOUS
<1>6. 0 \in S
  BY <1>1, <1>2, <1>4, <1>5 DEF Partial
<1>7. ASSUME NEW i \in 0..len - 1, i \in S PROVE i + 1 \in S
  <2>1. i + 1 \in 1..len /\ i + 1 \in 0..len /\ i + 1 \in 1..len + 1 /\ (i + 1) - 1 = i
    BY <1>4
  <2>2. f[i + 1] = f[i] + s[i + 1] /\ g[i + 1] = g[i] + t[i + 1]
    BY <1>1, <1>2, <1>3, <1>4, <2>1 DEF Partial
  <2> QED
    BY <1>3, <1>5, <1>7, <2>1, <2>2
<1>8. 0..len \subseteq S
  BY <1>4, <1>6, <1>7, UpTo
<1>9. g[len] = f[len]
  BY <1>4, <1>5, <1>8
<1>10. len + 1 \in 1..len + 1 /\ (len + 1) - 1 = len
  BY <1>4
<1>11. g[len + 1] = g[len] + t[len + 1]
  BY <1>2, <1>4, <1>10 DEF Partial
<1> QED
  BY <1>1, <1>2, <1>3, <1>4, <1>9, <1>11


(* Numbers that are no smaller.                                             *)
LEMMA SumRises ==
  ASSUME NEW s \in Seq(Int), NEW t \in Seq(Int), Len(t) = Len(s),
         \A i \in 1..Len(s) : s[i] <= t[i]
  PROVE  Scores!Sum(s) <= Scores!Sum(t)
<1>1. PICK f : Partial(f, s) /\ Scores!Sum(s) = f[Len(s)]
  BY SumIsLast
<1>2. PICK g : Partial(g, t) /\ Scores!Sum(t) = g[Len(t)]
  BY SumIsLast
<1>3. PICK len : len = Len(s)
  OBVIOUS
<1>4. len \in Nat /\ Len(t) = len /\ \A i \in 1..len : s[i] \in Int /\ t[i] \in Int
  BY <1>3
<1>5. PICK S : S = {i \in 0..len : f[i] <= g[i]}
  OBVIOUS
<1>6. 0 \in S
  BY <1>1, <1>2, <1>4, <1>5 DEF Partial
<1>7. ASSUME NEW i \in 0..len - 1, i \in S PROVE i + 1 \in S
  <2>1. i + 1 \in 1..len /\ i + 1 \in 0..len /\ i \in 0..len /\ (i + 1) - 1 = i
    BY <1>4
  <2>2. f[i + 1] = f[i] + s[i + 1] /\ g[i + 1] = g[i] + t[i + 1]
    BY <1>1, <1>2, <1>3, <1>4, <2>1 DEF Partial
  <2>3. f[i] \in Int /\ g[i] \in Int
    BY <1>1, <1>2, <1>3, <1>4, <2>1 DEF Partial
  <2>4. f[i] <= g[i] /\ s[i + 1] <= t[i + 1]
    BY <1>3, <1>5, <1>7, <2>1
  <2>5. f[i + 1] <= g[i + 1]
    BY <1>4, <2>1, <2>2, <2>3, <2>4
  <2> QED
    BY <1>5, <2>1, <2>5
<1>8. 0..len \subseteq S
  BY <1>4, <1>6, <1>7, UpTo
<1>9. f[len] <= g[len]
  BY <1>4, <1>5, <1>8
<1> QED
  BY <1>1, <1>2, <1>3, <1>4, <1>9

-----------------------------------------------------------------------------
(* The pillars.                                                             *)

(* What each subtest has in a pillar.                                       *)
Shares(p) ==
  [j \in DOMAIN subtests |-> IF j \notin Scores!Rated(p) THEN 0
                             ELSE Scores!Counted(subtests[j].score)]

(* The scores of a pillar are those of its rated subtests.                  *)
Gathered(p) ==
  /\ Scores!Sum(scores[p]) = Scores!Sum(Shares(p))
  /\ Len(scores[p]) = Cardinality(Scores!Rated(p))

ScoreInv ==
  /\ Scores!TypeOK
  /\ \A p \in Scores!Pillars : Gathered(p)
  /\ done => \A p \in Scores!Pillars : pillars[p] = Scores!Mean(scores[p])

LEMMA ScoresCounted == \A S : Scores!Cardinality(S) = Cardinality(S)
  BY DEF Scores!Cardinality, Cardinality

LEMMA CountedIsLog ==
  ASSUME NEW score \in Logs \cup {NonPositive}
  PROVE  Scores!Counted(score) \in Logs /\ Scores!Counted(score) \in Int
  BY ScoringAssumption DEF Scores!ScoringAssumption, Scores!Counted

(* The subtests.                                                            *)
LEMMA SubtestsTyped ==
  ASSUME Scores!TypeOK
  PROVE  /\ Len(subtests) \in Nat /\ DOMAIN subtests = 1..Len(subtests)
         /\ \A j \in DOMAIN subtests : subtests[j] \in Scores!Subtests
         /\ \A j \in DOMAIN subtests : subtests[j].score \in Logs \cup {NonPositive}
<1>1. subtests \in Seq(Scores!Subtests)
  BY DEF Scores!TypeOK
<1>2. \A j \in DOMAIN subtests : subtests[j] \in Scores!Subtests
  BY <1>1
<1>3. \A r \in Scores!Subtests : r.score \in Logs \cup {NonPositive}
  BY DEF Scores!Subtests
<1> QED
  BY <1>1, <1>2, <1>3

LEMMA RatedFinite ==
  ASSUME Scores!TypeOK, NEW p
  PROVE  /\ Scores!Rated(p) \subseteq 1..Len(subtests) /\ IsFiniteSet(Scores!Rated(p))
         /\ Cardinality(Scores!Rated(p)) \in Nat
<1>1. Scores!Rated(p) \in SUBSET (1..Len(subtests)) /\ Len(subtests) \in Nat
  BY SubtestsTyped DEF Scores!Rated
<1>2. IsFiniteSet(1..Len(subtests))
  BY <1>1, FS_Interval
<1>3. IsFiniteSet(Scores!Rated(p))
  BY <1>1, <1>2, FS_Subset
<1> QED
  BY <1>1, <1>3, FS_CardinalityType

LEMMA SharesTyped ==
  ASSUME Scores!TypeOK, NEW p
  PROVE  Shares(p) \in Seq(Int) /\ Len(Shares(p)) = Len(subtests)
<1>1. PICK len : len = Len(subtests)
  OBVIOUS
<1>2. len \in Nat /\ DOMAIN subtests = 1..len
  BY <1>1, SubtestsTyped
<1>3. ASSUME NEW j \in 1..len
      PROVE  (IF j \notin Scores!Rated(p) THEN 0 ELSE Scores!Counted(subtests[j].score)) \in Int
  <2>1. Scores!Counted(subtests[j].score) \in Int
    BY <1>2, SubtestsTyped, CountedIsLog
  <2> QED
    BY <2>1
<1>4. Shares(p) \in [1..len -> Int]
  BY <1>2, <1>3 DEF Shares
<1> QED
  BY <1>1, <1>2, <1>4

LEMMA ScoreInit == Scores!Init => ScoreInv
<1>1. SUFFICES ASSUME Scores!Init PROVE ScoreInv
  OBVIOUS
<1>2. subtests = << >> /\ done = FALSE /\ \A p \in Scores!Pillars : scores[p] = << >>
  BY <1>1 DEF Scores!Init
<1>3. Scores!TypeOK
  <2>1. MaxSubtests \in Nat
    BY ScoringAssumption DEF Scores!ScoringAssumption
  <2>2. subtests \in Seq(Scores!Subtests) /\ Len(subtests) <= MaxSubtests
    BY <1>2, <2>1
  <2>3. scores \in [Scores!Pillars -> Seq(Logs)]
    BY <1>1 DEF Scores!Init
  <2>4. pillars \in [Scores!Pillars -> [sum : Int, n : Nat \ {0}]]
    BY <1>1 DEF Scores!Init, Scores!Unit
  <2> QED
    BY <1>2, <2>2, <2>3, <2>4 DEF Scores!TypeOK
<1>4. ASSUME NEW p \in Scores!Pillars PROVE Gathered(p)
  <2>1. Scores!Rated(p) = {}
    BY <1>2 DEF Scores!Rated
  <2>2. Shares(p) \in Seq(Int) /\ Len(Shares(p)) = 0
    BY <1>2, <1>3, SharesTyped
  <2>3. << >> \in Seq(Int) /\ Len(<< >>) = 0
    OBVIOUS
  <2>4. Scores!Sum(Shares(p)) = 0 /\ Scores!Sum(<< >>) = 0
    BY <2>2, <2>3, SumTyped
  <2> QED
    BY <1>2, <2>1, <2>3, <2>4, FS_EmptySet DEF Gathered
<1> QED
  BY <1>2, <1>3, <1>4 DEF ScoreInv

(* One subtest more.                                                        *)
LEMMA ScoreVisit ==
  ASSUME ScoreInv, Scores!Visit
  PROVE  ScoreInv'
<1>1. PICK sr \in Scores!Subtests :
        /\ subtests' = Append(subtests, sr)
        /\ scores' = [p \in Scores!Pillars |->
             IF ~Scores!Skipped(sr) /\ sr.category \in Scores!Members[p]
             THEN Append(scores[p], Scores!Counted(sr.score)) ELSE scores[p]]
  BY DEF Scores!Visit
<1>2. ~done /\ done' = done /\ pillars' = pillars /\ Len(subtests) < MaxSubtests
  BY DEF Scores!Visit
<1>3. PICK len : len = Len(subtests)
  OBVIOUS
<1>4. /\ len \in Nat /\ DOMAIN subtests = 1..len /\ MaxSubtests \in Nat
      /\ subtests \in Seq(Scores!Subtests) /\ scores \in [Scores!Pillars -> Seq(Logs)]
      /\ Logs \subseteq Int /\ Scores!TypeOK
  BY <1>3, SubtestsTyped, ScoringAssumption DEF ScoreInv, Scores!TypeOK, Scores!ScoringAssumption
<1>5. /\ subtests' \in Seq(Scores!Subtests) /\ Len(subtests') = len + 1
      /\ subtests'[len + 1] = sr /\ \A j \in 1..len : subtests'[j] = subtests[j]
      /\ DOMAIN subtests' = 1..len + 1
  BY <1>1, <1>3, <1>4
<1>6. Scores!Counted(sr.score) \in Logs /\ Scores!Counted(sr.score) \in Int
  BY <1>1, CountedIsLog DEF Scores!Subtests
<1>7. scores' \in [Scores!Pillars -> Seq(Logs)]
  BY <1>1, <1>4, <1>6
<1>8. Scores!TypeOK'
  BY <1>2, <1>3, <1>4, <1>5, <1>7 DEF ScoreInv, Scores!TypeOK
<1>9. ASSUME NEW p \in Scores!Pillars PROVE Gathered(p)'
  <2>1. PICK R, S, T : R = Scores!Rated(p) /\ S = Shares(p) /\ T = Shares(p)'
    OBVIOUS
  <2>2. /\ R \subseteq 1..len /\ IsFiniteSet(R) /\ Cardinality(R) \in Nat
        /\ S \in Seq(Int) /\ Len(S) = len
    BY <1>3, <1>4, <2>1, RatedFinite, SharesTyped
  <2>3. /\ T \in Seq(Int) /\ Len(T) = len + 1
        /\ T = [j \in 1..len + 1 |-> IF j \notin Scores!Rated(p)' THEN 0
                                     ELSE Scores!Counted(subtests'[j].score)]
    <3>1. T = [j \in 1..len + 1 |-> IF j \notin Scores!Rated(p)' THEN 0
                                    ELSE Scores!Counted(subtests'[j].score)]
      BY <1>5, <2>1 DEF Shares, Scores!Counted
    <3>2. ASSUME NEW j \in 1..len + 1 PROVE Scores!Counted(subtests'[j].score) \in Int
      <4>1. subtests'[j] \in Scores!Subtests
        BY <1>5
      <4> QED
        BY <4>1, CountedIsLog DEF Scores!Subtests
    <3>3. T \in [1..len + 1 -> Int]
      BY <3>1, <3>2
    <3> QED
      BY <1>4, <3>1, <3>3
  <2>4. Scores!Rated(p)' = {j \in 1..len + 1 : /\ ~subtests'[j].high
                                               /\ subtests'[j].category \in Scores!Members[p]}
    BY <1>5 DEF Scores!Rated, Scores!Members
  <2>5. \A j \in 1..len : j \in Scores!Rated(p)' <=> j \in R
    BY <1>4, <1>5, <2>1, <2>4 DEF Scores!Rated
  <2>12. /\ len + 1 \in Scores!Rated(p)' <=> ~Scores!Skipped(sr) /\ sr.category \in Scores!Members[p]
         /\ Scores!Rated(p)' \subseteq 1..len + 1 /\ len + 1 \notin R
         /\ \A j \in 1..len + 1 : j = len + 1 \/ j \in 1..len
    BY <1>4, <1>5, <2>2, <2>4 DEF Scores!Skipped
  <2>6. ASSUME NEW j \in 1..len PROVE T[j] = S[j]
    <3>1. j \in 1..len + 1 /\ subtests'[j] = subtests[j] /\ j \in DOMAIN subtests
      BY <1>4, <1>5
    <3>2. T[j] = IF j \notin R THEN 0 ELSE Scores!Counted(subtests[j].score)
      BY <2>3, <2>5, <3>1
    <3>3. S[j] = IF j \notin R THEN 0 ELSE Scores!Counted(subtests[j].score)
      BY <2>1, <3>1 DEF Shares
    <3> QED
      BY <3>2, <3>3
  <2>7. Scores!Sum(T) = Scores!Sum(S) + T[len + 1]
    BY <2>2, <2>3, <2>6, SumOfMore
  <2>8. Gathered(p)
    BY <1>9 DEF ScoreInv
  <2>9. Scores!Sum(scores[p])' = Scores!Sum(scores'[p]) /\ Scores!Sum(Shares(p))' = Scores!Sum(T)
    BY <2>1 DEF Scores!Sum
  <2>10. CASE ~Scores!Skipped(sr) /\ sr.category \in Scores!Members[p]
    <3>1. Scores!Rated(p)' = R \cup {len + 1}
      BY <2>2, <2>5, <2>10, <2>12
    <3>2. Cardinality(Scores!Rated(p)') = Cardinality(R) + 1
      BY <2>2, <2>12, <3>1, FS_AddElement
    <3>3. T[len + 1] = Scores!Counted(sr.score)
      BY <1>4, <1>5, <2>1, <3>1 DEF Shares, Scores!Counted
    <3>4. scores'[p] = Append(scores[p], Scores!Counted(sr.score))
      BY <1>1, <2>10
    <3>5. scores[p] \in Seq(Int) /\ scores'[p] \in Seq(Int)
      <4>1. scores[p] \in Seq(Int)
        BY <1>4, SeqMonotonic
      <4> QED
        BY <1>6, <3>4, <4>1
    <3>6. /\ Len(scores'[p]) = Len(scores[p]) + 1
          /\ \A j \in 1..Len(scores[p]) : scores'[p][j] = scores[p][j]
          /\ scores'[p][Len(scores'[p])] = Scores!Counted(sr.score)
      BY <1>6, <3>4, <3>5
    <3>7. Scores!Sum(scores'[p]) = Scores!Sum(scores[p]) + Scores!Counted(sr.score)
      BY <3>5, <3>6, SumOfMore
    <3> QED
      BY <2>1, <2>7, <2>8, <2>9, <3>2, <3>3, <3>6, <3>7 DEF Gathered
  <2>11. CASE ~(~Scores!Skipped(sr) /\ sr.category \in Scores!Members[p])
    <3>1. Scores!Rated(p)' = R
      BY <2>2, <2>5, <2>11, <2>12
    <3>2. T[len + 1] = 0
      BY <1>4, <1>5, <2>1, <2>2, <3>1 DEF Shares
    <3>3. scores'[p] = scores[p]
      BY <1>1, <2>11
    <3>4. Scores!Sum(S) \in Int
      BY <2>2, SumTyped
    <3> QED
      BY <2>1, <2>7, <2>8, <2>9, <3>1, <3>2, <3>3, <3>4 DEF Gathered
  <2> QED
    BY <2>10, <2>11
<1> QED
  BY <1>2, <1>8, <1>9 DEF ScoreInv, Scores!Pillars


LEMMA ScoresTyped ==
  ASSUME Scores!TypeOK, NEW p \in Scores!Pillars
  PROVE  /\ scores[p] \in Seq(Int) /\ Len(scores[p]) \in Nat
         /\ scores[p] = << >> <=> Len(scores[p]) = 0
<1>1. scores[p] \in Seq(Logs) /\ Logs \subseteq Int
  BY ScoringAssumption DEF Scores!TypeOK, Scores!ScoringAssumption
<1>2. scores[p] \in Seq(Int)
  BY <1>1, SeqMonotonic
<1> QED
  BY <1>2

LEMMA MeanTyped ==
  ASSUME Scores!TypeOK, NEW p \in Scores!Pillars
  PROVE  Scores!Mean(scores[p]) \in [sum : Int, n : Nat \ {0}]
<1>1. CASE scores[p] = << >>
  BY <1>1 DEF Scores!Mean, Scores!Unit
<1>2. CASE scores[p] # << >>
  <2>1. Scores!Sum(scores[p]) \in Int /\ Len(scores[p]) \in Nat \ {0}
    BY <1>2, ScoresTyped, SumTyped
  <2>2. Scores!Mean(scores[p]) = [sum |-> Scores!Sum(scores[p]), n |-> Len(scores[p])]
    BY <1>2, Zenon DEF Scores!Mean
  <2> QED
    BY <2>1, <2>2
<1> QED
  BY <1>1, <1>2

LEMMA GatheredStays ==
  ASSUME NEW p, Gathered(p), UNCHANGED << subtests, scores >>
  PROVE  Gathered(p)'
<1>1. subtests' = subtests /\ scores' = scores
  OBVIOUS
<1>2. Scores!Rated(p)' = Scores!Rated(p)
  BY <1>1 DEF Scores!Rated, Scores!Members
<1>3. Shares(p)' = Shares(p)
  BY <1>1, <1>2 DEF Shares, Scores!Counted
<1>4. Scores!Sum(scores[p])' = Scores!Sum(scores[p])
  BY <1>1 DEF Scores!Sum
<1>5. Scores!Sum(Shares(p))' = Scores!Sum(Shares(p))
  BY <1>3 DEF Scores!Sum
<1> QED
  BY <1>1, <1>2, <1>4, <1>5 DEF Gathered

LEMMA ScoreFinish ==
  ASSUME ScoreInv, Scores!Finish
  PROVE  ScoreInv'
<1>1. /\ subtests' = subtests /\ scores' = scores /\ done' = TRUE
      /\ pillars' = [p \in Scores!Pillars |-> Scores!Mean(scores[p])]
  BY DEF Scores!Finish
<1>2. pillars' \in [Scores!Pillars -> [sum : Int, n : Nat \ {0}]]
  <2>1. \A p \in Scores!Pillars : Scores!Mean(scores[p]) \in [sum : Int, n : Nat \ {0}]
    BY MeanTyped DEF ScoreInv
  <2> QED
    BY <1>1, <2>1
<1>3. Scores!TypeOK'
  BY <1>1, <1>2 DEF ScoreInv, Scores!TypeOK
<1>4. \A p \in Scores!Pillars : Gathered(p)'
  BY <1>1, GatheredStays DEF ScoreInv
<1>5. ASSUME NEW p \in Scores!Pillars PROVE (pillars[p] = Scores!Mean(scores[p]))'
  <2>1. Scores!Mean(scores[p])' = Scores!Mean(scores[p])
    BY <1>1 DEF Scores!Mean, Scores!Sum
  <2> QED
    BY <1>1, <2>1
<1> QED
  BY <1>3, <1>4, <1>5 DEF ScoreInv, Scores!Pillars

LEMMA ScoreStays ==
  ASSUME ScoreInv, UNCHANGED scoreVars
  PROVE  ScoreInv'
<1>1. subtests' = subtests /\ scores' = scores /\ pillars' = pillars /\ done' = done
  BY DEF scoreVars
<1>2. Scores!TypeOK'
  BY <1>1 DEF ScoreInv, Scores!TypeOK
<1>3. \A p \in Scores!Pillars : Gathered(p)'
  BY <1>1, GatheredStays DEF ScoreInv
<1>4. \A p : Scores!Mean(scores[p])' = Scores!Mean(scores[p])
  BY <1>1 DEF Scores!Mean, Scores!Sum
<1> QED
  BY <1>1, <1>2, <1>3, <1>4 DEF ScoreInv, Scores!Pillars

LEMMA ScoreStep == ScoreInv /\ (Scores!Next \/ UNCHANGED scoreVars) => ScoreInv'
<1>1. SUFFICES ASSUME ScoreInv, Scores!Next \/ UNCHANGED scoreVars PROVE ScoreInv'
  OBVIOUS
<1>2. Scores!Over => UNCHANGED scoreVars
  BY DEF Scores!Over, Scores!vars, scoreVars
<1> QED
  BY <1>1, <1>2, ScoreVisit, ScoreFinish, ScoreStays DEF Scores!Next

(* A pillar that has no rated subtest has no score.                         *)
LEMMA EmptyPillar ==
  ASSUME ScoreInv, NEW p \in Scores!Pillars
  PROVE  scores[p] = << >> <=> Scores!Rated(p) = {}
<1>1. Len(scores[p]) = Cardinality(Scores!Rated(p))
  BY DEF ScoreInv, Gathered
<1>2. Cardinality(Scores!Rated(p)) = 0 <=> Scores!Rated(p) = {}
  BY RatedFinite, FS_EmptySet DEF ScoreInv
<1> QED
  BY <1>1, <1>2, ScoresTyped DEF ScoreInv

(* When the pass is over, a pillar with rated subtests is their mean.       *)
LEMMA PillarIs ==
  ASSUME ScoreInv, done, NEW p \in Scores!Pillars
  PROVE  pillars[p] = IF Scores!Rated(p) = {} THEN Scores!Unit
                      ELSE [sum |-> Scores!Sum(Shares(p)), n |-> Cardinality(Scores!Rated(p))]
<1>1. pillars[p] = Scores!Mean(scores[p]) /\ Gathered(p)
  BY DEF ScoreInv
<1>2. scores[p] = << >> <=> Scores!Rated(p) = {}
  BY EmptyPillar
<1> QED
  BY <1>1, <1>2, Zenon DEF Scores!Mean, Gathered

(* No subtest has the index 0.                                              *)
LEMMA PillarAsItIs ==
  ASSUME Scores!TypeOK, NEW p \in Scores!Pillars
  PROVE  Scores!PillarWith(p, 0, 0)
           = [sum |-> Scores!Sum(Shares(p)), n |-> Cardinality(Scores!Rated(p))]
<1>1. PICK F : F = [j \in DOMAIN subtests |->
                      IF j \notin Scores!Rated(p) THEN 0
                      ELSE Scores!Counted(IF j = 0 THEN 0 ELSE subtests[j].score)]
  OBVIOUS
<1>2. \A j \in DOMAIN subtests : j # 0
  BY SubtestsTyped
<1>3. F = Shares(p)
  BY <1>1, <1>2 DEF Shares
<1>4. Scores!PillarWith(p, 0, 0) = [sum |-> Scores!Sum(F), n |-> Cardinality(Scores!Rated(p))]
  BY <1>1, ScoresCounted, Zenon DEF Scores!PillarWith
<1> QED
  BY <1>3, <1>4

LEMMA Irrelevant == ScoreInv => Scores!UnratedIsIrrelevant
<1>1. ASSUME ScoreInv, done, NEW p \in Scores!Pillars
      PROVE  pillars[p] = IF Scores!Rated(p) = {} THEN Scores!Unit
                          ELSE Scores!PillarWith(p, 0, 0)
  BY <1>1, PillarIs, PillarAsItIs, Zenon DEF ScoreInv
<1> QED
  BY <1>1, Zenon DEF Scores!UnratedIsIrrelevant

-----------------------------------------------------------------------------
(* A higher score.                                                          *)

LEMMA TimesRises ==
  ASSUME NEW x \in Int, NEW y \in Int, NEW m \in Nat, x <= y
  PROVE  x * m <= y * m /\ x * m \in Int /\ y * m \in Int
<1>1. y - x \in Nat /\ (y - x) * m \in Nat /\ y * m = x * m + (y - x) * m
  OBVIOUS
<1>2. x * m \in Int /\ y * m \in Int
  OBVIOUS
<1> QED
  BY <1>1, <1>2

(* Only the sum of a pillar changes, and it does not fall.                  *)
LEMMA PillarRises ==
  ASSUME ScoreInv, done, NEW p \in Scores!Pillars, NEW kk \in Scores!Rated(p), NEW s \in Logs,
         subtests[kk].score # NonPositive, subtests[kk].score <= s
  PROVE  \E x \in Int, y \in Int, m \in Nat \ {0} :
           /\ pillars[p] = [sum |-> x, n |-> m] /\ x <= y
           /\ Scores!PillarWith(p, kk, s) = [sum |-> y, n |-> m]
<1>1. PICK F : F = [j \in DOMAIN subtests |->
                      IF j \notin Scores!Rated(p) THEN 0
                      ELSE Scores!Counted(IF j = kk THEN s ELSE subtests[j].score)]
  OBVIOUS
<1>2. PICK len : len = Len(subtests)
  OBVIOUS
<1>3. len \in Nat /\ DOMAIN subtests = 1..len
  BY <1>2, SubtestsTyped DEF ScoreInv
<1>4. s \in Int /\ Scores!Counted(s) = s /\ s \in Logs \cup {NonPositive}
  BY ScoringAssumption DEF Scores!ScoringAssumption, Scores!Counted
<1>5. ASSUME NEW j \in 1..len PROVE F[j] \in Int /\ Shares(p)[j] \in Int /\ Shares(p)[j] <= F[j]
  <2>1. F[j] = IF j \notin Scores!Rated(p) THEN 0
               ELSE Scores!Counted(IF j = kk THEN s ELSE subtests[j].score)
    BY <1>1, <1>3
  <2>2. Shares(p)[j] = IF j \notin Scores!Rated(p) THEN 0 ELSE Scores!Counted(subtests[j].score)
    BY <1>3 DEF Shares
  <2>3. Scores!Counted(subtests[j].score) \in Int
    BY <1>3, SubtestsTyped, CountedIsLog DEF ScoreInv
  <2>4. CASE j # kk \/ j \notin Scores!Rated(p)
    <3>1. F[j] = Shares(p)[j]
      BY <2>1, <2>2, <2>4
    <3>2. Shares(p)[j] \in Int
      BY <2>2, <2>3
    <3> QED
      BY <3>1, <3>2
  <2>5. CASE j = kk /\ j \in Scores!Rated(p)
    <3>1. F[j] = s /\ Shares(p)[j] = Scores!Counted(subtests[kk].score)
      BY <1>4, <2>1, <2>2, <2>5
    <3>2. Scores!Counted(subtests[kk].score) = subtests[kk].score
      BY DEF Scores!Counted
    <3> QED
      BY <1>4, <2>3, <2>5, <3>1, <3>2
  <2> QED
    BY <2>4, <2>5
<1>6. F \in Seq(Int) /\ Len(F) = len
  <2>1. F = [j \in 1..len |-> F[j]]
    BY <1>1, <1>3, Zenon
  <2>2. F \in [1..len -> Int]
    BY <1>5, <2>1
  <2> QED
    BY <1>3, <2>2
<1>7. Shares(p) \in Seq(Int) /\ Len(Shares(p)) = len
  BY <1>2, SharesTyped DEF ScoreInv
<1>8. /\ Scores!Sum(Shares(p)) <= Scores!Sum(F)
      /\ Scores!Sum(Shares(p)) \in Int /\ Scores!Sum(F) \in Int
  BY <1>5, <1>6, <1>7, SumRises, SumTyped
<1>9. Scores!Rated(p) # {} /\ Cardinality(Scores!Rated(p)) \in Nat \ {0}
  BY RatedFinite, FS_EmptySet DEF ScoreInv
<1>10. pillars[p] = [sum |-> Scores!Sum(Shares(p)), n |-> Cardinality(Scores!Rated(p))]
  BY <1>9, PillarIs, Zenon
<1>11. Scores!PillarWith(p, kk, s) = [sum |-> Scores!Sum(F), n |-> Cardinality(Scores!Rated(p))]
  BY <1>1, ScoresCounted, Zenon DEF Scores!PillarWith
<1> QED
  BY <1>8, <1>9, <1>10, <1>11

(* The overall score, as numbers.                                           *)
LEMMA OverallRises ==
  ASSUME NEW ps \in [Scores!Pillars -> [sum : Int, n : Nat \ {0}]], NEW p \in Scores!Pillars,
         NEW x \in Int, NEW y \in Int, NEW m \in Nat \ {0},
         ps[p] = [sum |-> x, n |-> m], x <= y
  PROVE  Scores!AtMost(Scores!Overall(ps), Scores!Overall([ps EXCEPT ![p] = [sum |-> y, n |-> m]]))
<1>1. PICK qs : qs = [ps EXCEPT ![p] = [sum |-> y, n |-> m]]
  OBVIOUS
<1>2. PICK c1, c2, c3 : c1 = ps.throughput.n /\ c2 = ps.latency.n /\ c3 = ps.efficiency.n
  OBVIOUS
<1>3. PICK a1, a2, a3 : a1 = ps.throughput.sum /\ a2 = ps.latency.sum /\ a3 = ps.efficiency.sum
  OBVIOUS
<1>4. PICK d1, d2, d3 : d1 = qs.throughput.sum /\ d2 = qs.latency.sum /\ d3 = qs.efficiency.sum
  OBVIOUS
<1>5. /\ c1 \in Nat /\ c2 \in Nat /\ c3 \in Nat /\ a1 \in Int /\ a2 \in Int /\ a3 \in Int
  BY <1>2, <1>3 DEF Scores!Pillars
<1>6. /\ qs.throughput.n = c1 /\ qs.latency.n = c2 /\ qs.efficiency.n = c3
      /\ d1 \in Int /\ d2 \in Int /\ d3 \in Int /\ a1 <= d1 /\ a2 <= d2 /\ a3 <= d3
  <2>1. CASE p = "throughput"
    BY <1>1, <1>2, <1>3, <1>4, <1>5, <2>1 DEF Scores!Pillars
  <2>2. CASE p = "latency"
    BY <1>1, <1>2, <1>3, <1>4, <1>5, <2>2 DEF Scores!Pillars
  <2>3. CASE p = "efficiency"
    BY <1>1, <1>2, <1>3, <1>4, <1>5, <2>3 DEF Scores!Pillars
  <2> QED
    BY <2>1, <2>2, <2>3 DEF Scores!Pillars
<1>7. PICK A, D, M : /\ A = a1 * c2 * c3 + a2 * c1 * c3 + a3 * c1 * c2
                     /\ D = d1 * c2 * c3 + d2 * c1 * c3 + d3 * c1 * c2
                     /\ M = 3 * c1 * c2 * c3
  OBVIOUS
<1>8. /\ Scores!Overall(ps) = [sum |-> A, n |-> M]
      /\ Scores!Overall(qs) = [sum |-> D, n |-> M]
  BY <1>2, <1>3, <1>4, <1>6, <1>7 DEF Scores!Overall
<1>9. A \in Int /\ D \in Int /\ A <= D
  <2>1. a1 * c2 <= d1 * c2 /\ a1 * c2 \in Int /\ d1 * c2 \in Int
    BY <1>5, <1>6, TimesRises
  <2>2. a1 * c2 * c3 <= d1 * c2 * c3 /\ a1 * c2 * c3 \in Int /\ d1 * c2 * c3 \in Int
    BY <1>5, <2>1, TimesRises
  <2>3. a2 * c1 <= d2 * c1 /\ a2 * c1 \in Int /\ d2 * c1 \in Int
    BY <1>5, <1>6, TimesRises
  <2>4. a2 * c1 * c3 <= d2 * c1 * c3 /\ a2 * c1 * c3 \in Int /\ d2 * c1 * c3 \in Int
    BY <1>5, <2>3, TimesRises
  <2>5. a3 * c1 <= d3 * c1 /\ a3 * c1 \in Int /\ d3 * c1 \in Int
    BY <1>5, <1>6, TimesRises
  <2>6. a3 * c1 * c2 <= d3 * c1 * c2 /\ a3 * c1 * c2 \in Int /\ d3 * c1 * c2 \in Int
    BY <1>5, <2>5, TimesRises
  <2>7. PICK r1, r2, r3, w1, w2, w3 :
          /\ r1 = a1 * c2 * c3 /\ r2 = a2 * c1 * c3 /\ r3 = a3 * c1 * c2
          /\ w1 = d1 * c2 * c3 /\ w2 = d2 * c1 * c3 /\ w3 = d3 * c1 * c2
    OBVIOUS
  <2>8. /\ r1 \in Int /\ r2 \in Int /\ r3 \in Int /\ w1 \in Int /\ w2 \in Int /\ w3 \in Int
        /\ r1 <= w1 /\ r2 <= w2 /\ r3 <= w3
    BY <2>2, <2>4, <2>6, <2>7
  <2>9. A = r1 + r2 + r3 /\ D = w1 + w2 + w3
    BY <1>7, <2>7, Zenon
  <2> QED
    BY <2>8, <2>9
<1>10. M \in Nat
  BY <1>5, <1>7
<1>11. A * M <= D * M
  BY <1>9, <1>10, TimesRises
<1> QED
  BY <1>1, <1>8, <1>11 DEF Scores!AtMost

LEMMA Higher == ScoreInv => Scores!BetterIsHigher
<1>1. ASSUME ScoreInv, done, NEW p \in Scores!Pillars, NEW kk \in Scores!Rated(p), NEW s \in Logs,
             subtests[kk].score # NonPositive, subtests[kk].score <= s
      PROVE  /\ Scores!AtMost(pillars[p], Scores!PillarWith(p, kk, s))
             /\ Scores!AtMost(Scores!Overall(pillars),
                  Scores!Overall([pillars EXCEPT ![p] = Scores!PillarWith(p, kk, s)]))
  <2>1. PICK x \in Int, y \in Int, m \in Nat \ {0} :
           /\ pillars[p] = [sum |-> x, n |-> m] /\ x <= y
           /\ Scores!PillarWith(p, kk, s) = [sum |-> y, n |-> m]
    BY <1>1, PillarRises
  <2>2. Scores!AtMost(pillars[p], Scores!PillarWith(p, kk, s))
    <3>1. x * m <= y * m
      BY <2>1, TimesRises
    <3> QED
      BY <2>1, <3>1 DEF Scores!AtMost
  <2>3. pillars \in [Scores!Pillars -> [sum : Int, n : Nat \ {0}]]
    BY <1>1 DEF ScoreInv, Scores!TypeOK
  <2> QED
    BY <2>1, <2>2, <2>3, OverallRises
<1> QED
  BY <1>1, Zenon DEF Scores!BetterIsHigher

-----------------------------------------------------------------------------
(* The exchange sort.                                                       *)

(* Records with a number.                                                   *)
Numbered(R) == \A r \in R : r.v \in Int

(* t has the first m elements of s, each as often as s.                             *)
Arranged(t, s, m) ==
  \E f \in [1..m -> 1..m] :
    /\ \A i, j \in 1..m : f[i] = f[j] => i = j
    /\ \A i \in 1..m : \E j \in 1..m : f[j] = i
    /\ t = [j \in 1..m |-> s[f[j]]]

(* The first m of t are in their places.                                    *)
Placed(t, m) == \A i \in 1..m, j \in 1..Len(t) : i < j => t[i].v <= t[j].v

(* One pass of the inner loop from i on.                                    *)
Inner(f, t, i) ==
  f = [j \in i..Len(t) |-> IF j = i THEN t ELSE Tests!Exchange(f[j - 1], i, j)]

Pass(t, i) == (CHOOSE f : Inner(f, t, i))[Len(t)]

Outer(f, s) ==
  f = [i \in 0..Len(s) |->
         IF i = 0 THEN s
         ELSE (CHOOSE g : g = [j \in i..Len(s) |->
                  IF j = i THEN f[i - 1] ELSE Tests!Exchange(g[j - 1], i, j)])[Len(s)]]

LEMMA ArrangedItself ==
  ASSUME NEW R, NEW len \in Nat, NEW s \in [1..len -> R]
  PROVE  Arranged(s, s, len)
<1>1. PICK f : f = [j \in 1..len |-> j]
  OBVIOUS
<1>2. f \in [1..len -> 1..len] /\ \A i \in 1..len : f[i] = i
  BY <1>1
<1>3. s = [j \in 1..len |-> s[f[j]]]
  BY <1>2
<1> QED
  BY <1>2, <1>3 DEF Arranged

(* Exchanging two elements.                                                 *)
LEMMA ExchangeTyped ==
  ASSUME NEW R, Numbered(R), NEW n0 \in Nat, NEW t \in [1..n0 -> R],
         NEW i \in 1..n0, NEW j \in 1..n0, i < j
  PROVE  /\ Tests!Exchange(t, i, j) \in [1..n0 -> R]
         /\ Tests!Exchange(t, i, j)[i].v <= Tests!Exchange(t, i, j)[j].v
         /\ \A o \in 1..n0 : o # i /\ o # j => Tests!Exchange(t, i, j)[o] = t[o]
         /\ \/ /\ Tests!Exchange(t, i, j)[i] = t[i] /\ Tests!Exchange(t, i, j)[j] = t[j]
            \/ /\ Tests!Exchange(t, i, j)[i] = t[j] /\ Tests!Exchange(t, i, j)[j] = t[i]
               /\ t[j].v < t[i].v
<1>1. t[i] \in R /\ t[j] \in R /\ t[i].v \in Int /\ t[j].v \in Int
  BY DEF Numbered
<1>2. CASE t[i].v > t[j].v
  <2>1. Tests!Exchange(t, i, j) = [t EXCEPT ![i] = t[j], ![j] = t[i]]
    BY <1>2 DEF Tests!Exchange
  <2> QED
    BY <1>1, <1>2, <2>1
<1>3. CASE ~(t[i].v > t[j].v)
  <2>1. Tests!Exchange(t, i, j) = t
    BY <1>3 DEF Tests!Exchange
  <2> QED
    BY <1>1, <1>3, <2>1
<1> QED
  BY <1>2, <1>3

LEMMA ExchangeArranged ==
  ASSUME NEW R, Numbered(R), NEW len \in Nat, NEW s, NEW t \in [1..len -> R],
         Arranged(t, s, len), NEW i \in 1..len, NEW j \in 1..len, i < j
  PROVE  Arranged(Tests!Exchange(t, i, j), s, len)
<1>2. len \in Nat /\ i \in 1..len /\ j \in 1..len
  OBVIOUS
<1>3. PICK f \in [1..len -> 1..len] :
        /\ \A c, d \in 1..len : f[c] = f[d] => c = d
        /\ \A c \in 1..len : \E d \in 1..len : f[d] = c
        /\ t = [c \in 1..len |-> s[f[c]]]
  BY Zenon DEF Arranged
<1>4. PICK u : u = Tests!Exchange(t, i, j)
  OBVIOUS
<1>5. /\ u \in [1..len -> R]
      /\ \A o \in 1..len : o # i /\ o # j => u[o] = t[o]
      /\ (u[i] = t[i] /\ u[j] = t[j]) \/ (u[i] = t[j] /\ u[j] = t[i])
  <2>1. /\ Tests!Exchange(t, i, j) \in [1..len -> R]
    BY ExchangeTyped
  <2>3. \A o \in 1..len : o # i /\ o # j => Tests!Exchange(t, i, j)[o] = t[o]
    <3>1. ASSUME NEW o \in 1..len, o # i, o # j
          PROVE  [t EXCEPT ![i] = t[j], ![j] = t[i]][o] = t[o]
      BY <3>1
    <3> QED
      BY <3>1 DEF Tests!Exchange
  <2>2. \/ /\ Tests!Exchange(t, i, j)[i] = t[i] /\ Tests!Exchange(t, i, j)[j] = t[j]
        \/ /\ Tests!Exchange(t, i, j)[i] = t[j] /\ Tests!Exchange(t, i, j)[j] = t[i]
           /\ t[j].v < t[i].v
    BY ExchangeTyped
  <2> QED
    BY <1>4, <2>1, <2>2, <2>3, Zenon
<1>6. CASE u[i] = t[i] /\ u[j] = t[j]
  <2>1. \A o \in 1..len : u[o] = t[o]
    BY <1>5, <1>6
  <2>2. u = t
    BY <1>5, <2>1
  <2> QED
    BY <1>4, <2>2
<1>7. CASE u[i] = t[j] /\ u[j] = t[i]
  <2>1. PICK g : g = [f EXCEPT ![i] = f[j], ![j] = f[i]]
    OBVIOUS
  <2>2. /\ g \in [1..len -> 1..len] /\ g[i] = f[j] /\ g[j] = f[i]
        /\ \A o \in 1..len : o # i /\ o # j => g[o] = f[o]
    BY <1>2, <1>3, <2>1
  <2>3. ASSUME NEW c \in 1..len, NEW d \in 1..len, g[c] = g[d] PROVE c = d
    <3>1. /\ g[c] = f[IF c = i THEN j ELSE IF c = j THEN i ELSE c]
          /\ g[d] = f[IF d = i THEN j ELSE IF d = j THEN i ELSE d]
      BY <2>2
    <3>2. (IF c = i THEN j ELSE IF c = j THEN i ELSE c)
            = (IF d = i THEN j ELSE IF d = j THEN i ELSE d)
      BY <1>2, <1>3, <2>3, <3>1
    <3> QED
      BY <3>2
  <2>4. ASSUME NEW c \in 1..len PROVE \E d \in 1..len : g[d] = c
    <3>1. PICK d \in 1..len : f[d] = c
      BY <1>3
    <3>2. CASE d = i
      BY <1>2, <2>2, <3>1, <3>2
    <3>3. CASE d = j
      BY <1>2, <2>2, <3>1, <3>3
    <3>4. CASE d # i /\ d # j
      BY <2>2, <3>1, <3>4
    <3> QED
      BY <3>2, <3>3, <3>4
  <2>5. ASSUME NEW o \in 1..len PROVE u[o] = s[g[o]]
    BY <1>2, <1>3, <1>5, <1>7, <2>2
  <2>6. u = [o \in 1..len |-> s[g[o]]]
    BY <1>5, <2>5
  <2> QED
    <3>1. Arranged(u, s, len)
      BY <2>2, <2>3, <2>4, <2>6 DEF Arranged
    <3> QED
      BY <1>4, <3>1
<1> QED
  BY <1>5, <1>6, <1>7

(* The inner loop is defined.                                               *)
LEMMA InnerExists ==
  ASSUME NEW R, Numbered(R), NEW n0 \in Nat, NEW t \in [1..n0 -> R],
         NEW i \in 1..n0
  PROVE  Inner(CHOOSE f : Inner(f, t, i), t, i)
<1>1. SUFFICES \E f : Inner(f, t, i)
  OBVIOUS
<1>2. PICK T : T = [1..n0 -> R]
  OBVIOUS
<1>3. PICK step : step = [q \in (1..n0 - i) \X T |-> Tests!Exchange(q[2], i, i + q[1])]
  OBVIOUS
<1>4. n0 - i \in Nat /\ Len(t) = n0
  OBVIOUS
<1>5. ASSUME NEW q \in (1..n0 - i) \X T PROVE Tests!Exchange(q[2], i, i + q[1]) \in T
  <2>1. q[2] \in [1..n0 -> R] /\ i + q[1] \in 1..n0 /\ i < i + q[1]
    BY <1>2, <1>4, <1>5
  <2> QED
    <3>1. i + q[1] \in 1..n0 /\ q[2] \in [1..n0 -> R] /\ i < i + q[1]
      BY <2>1
    <3>2. PICK x, d : x = q[2] /\ d = i + q[1]
      OBVIOUS
    <3>3. x \in [1..n0 -> R] /\ d \in 1..n0 /\ i < d
      BY <3>1, <3>2
    <3>4. Tests!Exchange(x, i, d) \in [1..n0 -> R]
      BY <3>3, ExchangeTyped
    <3> QED
      BY <1>2, <3>2, <3>4, Zenon
<1>6. step \in [(1..n0 - i) \X T -> T]
  BY <1>3, <1>5
<1>7. PICK g : Steps(g, n0 - i, t, step)
  BY <1>4, Iterates
<1>8. g \in [0..n0 - i -> T]
  BY <1>2, <1>4, <1>6, <1>7, IteratesIn
<1>9. PICK f : f = [j \in i..n0 |-> g[j - i]]
  OBVIOUS
<1>10. ASSUME NEW j \in i..n0
       PROVE  f[j] = IF j = i THEN t ELSE Tests!Exchange(f[j - 1], i, j)
  <2>1. f[j] = g[j - i] /\ j - i \in 0..n0 - i
    BY <1>9
  <2>2. CASE j = i
    <3>1. j - i = 0 /\ 0 \in 0..n0 - i
      BY <2>1, <2>2
    <3>2. g[0] = t
      BY <1>7, <3>1 DEF Steps
    <3> QED
      BY <2>1, <2>2, <3>1, <3>2
  <2>3. CASE j # i
    <3>1. /\ j - i # 0 /\ j - i \in 1..n0 - i /\ j - 1 \in i..n0 /\ (j - 1) - i = (j - i) - 1
          /\ (j - i) - 1 \in 0..n0 - i /\ i + (j - i) = j
      BY <1>4, <2>1, <2>3
    <3>2. g[j - i] = step[<< j - i, g[(j - i) - 1] >>]
      BY <1>7, <2>1, <3>1 DEF Steps
    <3>3. f[j - 1] = g[(j - i) - 1]
      BY <1>9, <3>1
    <3>4. << j - i, f[j - 1] >> \in (1..n0 - i) \X T
      BY <1>8, <3>1, <3>3
    <3>5. step[<< j - i, f[j - 1] >>] = Tests!Exchange(f[j - 1], i, i + (j - i))
      BY <1>3, <3>4
    <3> QED
      BY <2>1, <2>3, <3>1, <3>2, <3>3, <3>5
  <2> QED
    BY <2>2, <2>3
<1>11. f = [j \in i..n0 |-> f[j]]
  BY <1>9
<1> QED
  BY <1>4, <1>10, <1>11, Zenon DEF Inner

(* A pass puts one element more in its place.                               *)
LEMMA PassPlaces ==
  ASSUME NEW R, Numbered(R), NEW len \in Nat, NEW s, NEW t \in [1..len -> R],
         NEW i \in 1..len, Placed(t, i - 1), Arranged(t, s, len)
  PROVE  /\ Pass(t, i) \in [1..len -> R] /\ Placed(Pass(t, i), i)
         /\ Arranged(Pass(t, i), s, len)
<1>2. len \in Nat /\ Len(t) = len /\ i \in 1..len /\ t \in [1..len -> R] /\ len \in i..len
  OBVIOUS
<1>3. PICK f : f = (CHOOSE g : Inner(g, t, i))
  OBVIOUS
<1>4. Inner(f, t, i)
  BY <1>2, <1>3, InnerExists
<1>5. f[i] = t /\ \A j \in i + 1..len : f[j] = Tests!Exchange(f[j - 1], i, j)
  <2>1. i \in i..len /\ \A j \in i + 1..len : j \in i..len /\ j # i
    BY <1>2
  <2> QED
    BY <1>2, <1>4, <2>1 DEF Inner
<1>6. PICK S : S = {m \in 0..len - i :
        /\ f[i + m] \in [1..len -> R] /\ Arranged(f[i + m], s, len)
        /\ \A c \in 1..i - 1, d \in 1..len : c < d => f[i + m][c].v <= f[i + m][d].v
        /\ \A d \in i..i + m : f[i + m][i].v <= f[i + m][d].v}
  OBVIOUS
<1>7. 0 \in S
  <2>1. 0 \in 0..len - i /\ i + 0 = i
    BY <1>2
  <2>2. \A c \in 1..i - 1, d \in 1..len : c < d => t[c].v <= t[d].v
    BY <1>2 DEF Placed
  <2>3. \A d \in i..i : t[i].v <= t[d].v
    <3>1. t[i] \in R /\ t[i].v \in Int
      BY <1>2 DEF Numbered
    <3>2. \A d \in i..i : d = i
      BY <1>2
    <3> QED
      BY <3>1, <3>2
  <2> QED
    BY <1>2, <1>5, <1>6, <2>1, <2>2, <2>3
<1>8. ASSUME NEW m \in 0..len - i - 1, m \in S PROVE m + 1 \in S
  <2>1. PICK j, u, w : j = i + m + 1 /\ u = f[i + m] /\ w = f[j]
    OBVIOUS
  <2>2. /\ j \in i + 1..len /\ j \in 1..len /\ i < j /\ j - 1 = i + m /\ i + (m + 1) = j
        /\ m + 1 \in 0..len - i
    BY <1>2, <2>1
  <2>3. /\ u \in [1..len -> R] /\ Arranged(u, s, len)
        /\ \A c \in 1..i - 1, d \in 1..len : c < d => u[c].v <= u[d].v
        /\ \A d \in i..i + m : u[i].v <= u[d].v
    BY <1>6, <1>8, <2>1
  <2>4. w = Tests!Exchange(u, i, j)
    BY <1>5, <2>1, <2>2
  <2>5. /\ w \in [1..len -> R] /\ w[i].v <= w[j].v
        /\ \A o \in 1..len : o # i /\ o # j => w[o] = u[o]
        /\ \/ w[i] = u[i] /\ w[j] = u[j]
           \/ w[i] = u[j] /\ w[j] = u[i] /\ u[j].v < u[i].v
    BY <1>2, <2>2, <2>3, <2>4, ExchangeTyped
  <2>6. Arranged(w, s, len)
    BY <1>2, <2>2, <2>3, <2>4, ExchangeArranged
  <2>7. \A o \in 1..len : u[o].v \in Int /\ w[o].v \in Int
    BY <2>3, <2>5 DEF Numbered
  <2>8. ASSUME NEW c \in 1..i - 1, NEW d \in 1..len, c < d PROVE w[c].v <= w[d].v
    <3>1. c \in 1..len /\ c # i /\ c # j /\ c < i /\ c < j
      BY <1>2, <2>2
    <3>2. w[c] = u[c] /\ u[c].v <= u[d].v /\ u[c].v <= u[i].v /\ u[c].v <= u[j].v
      BY <1>2, <2>2, <2>3, <2>5, <2>8, <3>1
    <3>3. w[d] = u[d] \/ w[d] = u[i] \/ w[d] = u[j]
      BY <2>2, <2>5
    <3> QED
      BY <3>2, <3>3
  <2>9. ASSUME NEW d \in i..i + (m + 1) PROVE w[i].v <= w[d].v
    <3>1. d \in 1..len /\ i \in 1..len
      BY <1>2, <2>2
    <3>2. CASE d = i
      BY <2>7, <3>1, <3>2
    <3>3. CASE d = j
      BY <2>5, <3>3
    <3>4. CASE d # i /\ d # j
      <4>1. d \in i..i + m
        BY <1>2, <2>2, <3>4
      <4>2. w[d] = u[d] /\ u[i].v <= u[d].v
        BY <2>3, <2>5, <3>1, <3>4, <4>1
      <4> QED
        BY <2>2, <2>5, <2>7, <3>1, <4>2
    <3> QED
      BY <3>2, <3>3, <3>4
  <2> QED
    BY <1>6, <2>1, <2>2, <2>5, <2>6, <2>8, <2>9
<1>9. 0..len - i \subseteq S
  <2>1. len - i \in Nat
    BY <1>2
  <2> QED
    BY <1>7, <1>8, <2>1, UpTo, Zenon
<1>10. /\ f[len] \in [1..len -> R] /\ Arranged(f[len], s, len)
       /\ \A c \in 1..i - 1, d \in 1..len : c < d => f[len][c].v <= f[len][d].v
       /\ \A d \in i..len : f[len][i].v <= f[len][d].v
  <2>1. len - i \in S /\ i + (len - i) = len
    BY <1>2, <1>9
  <2> QED
    BY <1>6, <2>1
<1>11. Placed(f[len], i)
  <2>1. ASSUME NEW c \in 1..i, NEW d \in 1..len, c < d PROVE f[len][c].v <= f[len][d].v
    <3>1. CASE c = i
      BY <1>2, <1>10, <2>1, <3>1
    <3>2. CASE c # i
      BY <1>2, <1>10, <2>1, <3>2
    <3> QED
      BY <3>1, <3>2
  <2>2. Len(f[len]) = len
    BY <1>2, <1>10
  <2> QED
    BY <2>1, <2>2 DEF Placed
<1>12. Pass(t, i) = f[len]
  BY <1>2, <1>3 DEF Pass
<1> QED
  BY <1>10, <1>11, <1>12

(* So is the outer loop.                                                    *)
LEMMA OuterStep ==
  ASSUME NEW s, NEW f, Outer(f, s), NEW i \in 1..Len(s), Len(s) \in Nat, Len(f[i - 1]) = Len(s)
  PROVE  f[i] = Pass(f[i - 1], i)
<1>1. i \in 0..Len(s) /\ i # 0
  OBVIOUS
<1>2. f[i] = (CHOOSE g : g = [j \in i..Len(s) |->
                IF j = i THEN f[i - 1] ELSE Tests!Exchange(g[j - 1], i, j)])[Len(s)]
  BY <1>1 DEF Outer
<1>3. Pass(f[i - 1], i) = (CHOOSE g : g = [j \in i..Len(s) |->
                IF j = i THEN f[i - 1] ELSE Tests!Exchange(g[j - 1], i, j)])[Len(s)]
  BY DEF Pass, Inner
<1> QED
  BY <1>2, <1>3

(* A pass keeps the records.                                                *)
LEMMA PassTyped ==
  ASSUME NEW R, Numbered(R), NEW len \in Nat, NEW t \in [1..len -> R], NEW i \in 1..len
  PROVE  Pass(t, i) \in [1..len -> R]
<1>1. len \in Nat /\ Len(t) = len /\ i \in 1..len /\ len \in i..len
  OBVIOUS
<1>2. PICK f : f = (CHOOSE g : Inner(g, t, i))
  OBVIOUS
<1>3. Inner(f, t, i)
  BY <1>2, InnerExists
<1>4. f[i] = t /\ \A j \in i + 1..len : f[j] = Tests!Exchange(f[j - 1], i, j)
  <2>1. i \in i..len /\ \A j \in i + 1..len : j \in i..len /\ j # i
    BY <1>1
  <2> QED
    BY <1>1, <1>3, <2>1 DEF Inner
<1>5. PICK S : S = {m \in 0..len - i : f[i + m] \in [1..len -> R]}
  OBVIOUS
<1>6. 0 \in S
  <2>1. 0 \in 0..len - i /\ i + 0 = i
    BY <1>1
  <2> QED
    BY <1>4, <1>5, <2>1
<1>7. ASSUME NEW m \in 0..len - i - 1, m \in S PROVE m + 1 \in S
  <2>1. PICK j, u, w : j = i + m + 1 /\ u = f[i + m] /\ w = f[j]
    OBVIOUS
  <2>2. /\ j \in i + 1..len /\ j \in 1..len /\ i < j /\ j - 1 = i + m /\ i + (m + 1) = j
        /\ m + 1 \in 0..len - i
    BY <1>1, <2>1
  <2>3. u \in [1..len -> R]
    BY <1>5, <1>7, <2>1
  <2>4. w = Tests!Exchange(u, i, j)
    BY <1>4, <2>1, <2>2
  <2>5. Tests!Exchange(u, i, j) \in [1..len -> R]
    BY <2>2, <2>3, ExchangeTyped
  <2> QED
    BY <1>5, <2>1, <2>2, <2>4, <2>5
<1>8. 0..len - i \subseteq S
  <2>1. len - i \in Nat
    BY <1>1
  <2> QED
    BY <1>6, <1>7, <2>1, UpTo, Zenon
<1>9. f[len] \in [1..len -> R]
  <2>1. len - i \in S /\ i + (len - i) = len
    BY <1>1, <1>8
  <2> QED
    BY <1>5, <2>1
<1> QED
  BY <1>1, <1>2, <1>9 DEF Pass

LEMMA OuterExists ==
  ASSUME NEW R, Numbered(R), NEW len \in Nat, NEW s \in [1..len -> R]
  PROVE  /\ Outer(CHOOSE f : Outer(f, s), s)
         /\ \A i \in 0..len : (CHOOSE f : Outer(f, s))[i] \in [1..len -> R]
<1>1. PICK T : T = [1..len -> R]
  OBVIOUS
<1>2. PICK step : step = [q \in (1..len) \X T |-> Pass(q[2], q[1])]
  OBVIOUS
<1>3. Len(s) = len
  OBVIOUS
<1>4. ASSUME NEW q \in (1..len) \X T PROVE Pass(q[2], q[1]) \in T
  <2>1. PICK x, d : x = q[2] /\ d = q[1]
    OBVIOUS
  <2>2. x \in [1..len -> R] /\ d \in 1..len
    BY <1>1, <2>1
  <2>3. Pass(x, d) \in [1..len -> R]
    BY <2>2, PassTyped
  <2> QED
    BY <1>1, <2>1, <2>3
<1>5. step \in [(1..len) \X T -> T]
  BY <1>2, <1>4
<1>6. PICK g : Steps(g, len, s, step)
  BY Iterates
<1>7. g \in [0..len -> T]
  BY <1>1, <1>5, <1>6, IteratesIn
<1>8. ASSUME NEW i \in 0..len
      PROVE  g[i] = IF i = 0 THEN s
                    ELSE (CHOOSE h : h = [j \in i..len |->
                       IF j = i THEN g[i - 1] ELSE Tests!Exchange(h[j - 1], i, j)])[len]
  <2>1. CASE i = 0
    BY <1>6, <2>1 DEF Steps
  <2>2. CASE i # 0
    <3>1. i \in 1..len /\ i - 1 \in 0..len
      BY <2>2
    <3>2. g[i] = step[<< i, g[i - 1] >>] /\ g[i - 1] \in T
      BY <1>6, <1>7, <2>2, <3>1 DEF Steps
    <3>3. step[<< i, g[i - 1] >>] = Pass(g[i - 1], i)
      <4>1. << i, g[i - 1] >> \in (1..len) \X T
        BY <3>1, <3>2
      <4> QED
        BY <1>2, <4>1
    <3>4. Len(g[i - 1]) = len
      BY <1>1, <3>2
    <3>5. Pass(g[i - 1], i)
            = (CHOOSE h : h = [j \in i..len |->
                 IF j = i THEN g[i - 1] ELSE Tests!Exchange(h[j - 1], i, j)])[len]
      BY <3>4 DEF Pass, Inner
    <3> QED
      BY <2>2, <3>2, <3>3, <3>5
  <2> QED
    BY <2>1, <2>2
<1>9. g = [i \in 0..len |-> g[i]]
  BY <1>6, Zenon DEF Steps
<1>10. Outer(g, s)
  BY <1>3, <1>8, <1>9, Zenon DEF Outer
<1>11. PICK f : f = (CHOOSE x : Outer(x, s))
  OBVIOUS
<1>12. Outer(f, s)
  BY <1>10, <1>11
<1>13. PICK S : S = {i \in 0..len : f[i] \in [1..len -> R]}
  OBVIOUS
<1>14. 0 \in S
  <2>1. 0 \in 0..len
    OBVIOUS
  <2>2. f[0] = s
    BY <1>3, <1>12, <2>1 DEF Outer
  <2> QED
    BY <1>13, <2>1, <2>2
<1>15. ASSUME NEW i \in 0..len - 1, i \in S PROVE i + 1 \in S
  <2>1. i + 1 \in 1..len /\ (i + 1) - 1 = i /\ i + 1 \in 0..len
    OBVIOUS
  <2>2. f[i] \in [1..len -> R] /\ Len(f[i]) = len
    BY <1>13, <1>15
  <2>3. f[i + 1] = Pass(f[i], i + 1)
    BY <1>3, <1>12, <2>1, <2>2, OuterStep
  <2>4. Pass(f[i], i + 1) \in [1..len -> R]
    BY <2>1, <2>2, PassTyped
  <2> QED
    BY <1>13, <2>1, <2>3, <2>4
<1>16. 0..len \subseteq S
  BY <1>14, <1>15, UpTo
<1> QED
  BY <1>11, <1>12, <1>13, <1>16

(* The sort arranges its records by their numbers.                          *)
LEMMA Sorts ==
  ASSUME NEW R, Numbered(R), NEW len \in Nat, NEW s \in [1..len -> R]
  PROVE  /\ Tests!ExchangeSorted(s) \in [1..len -> R]
         /\ Arranged(Tests!ExchangeSorted(s), s, len)
         /\ Placed(Tests!ExchangeSorted(s), len)
<1>1. PICK f : f = (CHOOSE x : Outer(x, s))
  OBVIOUS
<1>2. Len(s) = len
  OBVIOUS
<1>3. Tests!ExchangeSorted(s) = f[len]
  BY <1>1, <1>2, Zenon DEF Tests!ExchangeSorted, Outer
<1>4. Outer(f, s) /\ \A i \in 0..len : f[i] \in [1..len -> R]
  BY <1>1, OuterExists
<1>5. PICK S : S = {i \in 0..len : Placed(f[i], i) /\ Arranged(f[i], s, len)}
  OBVIOUS
<1>6. 0 \in S
  <2>1. 0 \in 0..len
    OBVIOUS
  <2>2. f[0] = s
    BY <1>2, <1>4, <2>1 DEF Outer
  <2>3. Placed(s, 0)
    BY DEF Placed
  <2>4. Arranged(s, s, len)
    BY ArrangedItself
  <2> QED
    BY <1>5, <2>1, <2>2, <2>3, <2>4
<1>7. ASSUME NEW i \in 0..len - 1, i \in S PROVE i + 1 \in S
  <2>1. i + 1 \in 1..len /\ (i + 1) - 1 = i /\ i + 1 \in 0..len
    OBVIOUS
  <2>2. f[i] \in [1..len -> R] /\ Len(f[i]) = len /\ Placed(f[i], (i + 1) - 1) /\ Arranged(f[i], s, len)
    BY <1>4, <1>5, <1>7, <2>1
  <2>3. f[i + 1] = Pass(f[i], i + 1)
    BY <1>2, <1>4, <2>1, <2>2, OuterStep
  <2>4. Placed(Pass(f[i], i + 1), i + 1) /\ Arranged(Pass(f[i], i + 1), s, len)
    BY <2>1, <2>2, PassPlaces
  <2> QED
    BY <1>5, <2>1, <2>3, <2>4
<1>8. 0..len \subseteq S
  BY <1>6, <1>7, UpTo
<1>9. len \in 0..len
  OBVIOUS
<1> QED
  BY <1>3, <1>4, <1>5, <1>8, <1>9

-----------------------------------------------------------------------------
(* The furthest sample.                                                     *)

TotalTo(f, s) == f = [j \in 0..Len(s) |-> IF j = 0 THEN 0 ELSE f[j - 1] + s[j].v]

LEMMA TotalTyped ==
  ASSUME NEW R, Numbered(R), NEW len \in Nat, NEW s \in [1..len -> R]
  PROVE  Tests!Total(s) \in Int
<1>1. PICK t : t = [j \in 1..len |-> s[j].v]
  OBVIOUS
<1>2. t \in Seq(Int) /\ Len(t) = len /\ Len(s) = len /\ len \in 0..len
      /\ \A j \in 1..len : s[j].v \in Int /\ t[j] = s[j].v
  <2>1. \A j \in 1..len : s[j].v \in Int
    BY DEF Numbered
  <2>2. t \in [1..len -> Int]
    BY <1>1, <2>1
  <2> QED
    BY <1>1, <2>1, <2>2
<1>3. PICK g : Partial(g, t)
  BY <1>2, SumsExist
<1>4. TotalTo(g, s)
  <2>1. g \in [0..len -> Int] /\ g[0] = 0 /\ \A j \in 1..len : g[j] = g[j - 1] + t[j]
    BY <1>2, <1>3 DEF Partial
  <2>2. ASSUME NEW j \in 0..len PROVE g[j] = IF j = 0 THEN 0 ELSE g[j - 1] + s[j].v
    <3>1. j = 0 \/ j \in 1..len
      OBVIOUS
    <3> QED
      BY <1>2, <2>1, <3>1
  <2>3. g = [j \in 0..len |-> g[j]]
    BY <2>1
  <2> QED
    BY <1>2, <2>2, <2>3, Zenon DEF TotalTo
<1>5. PICK f : f = (CHOOSE x : TotalTo(x, s))
  OBVIOUS
<1>6. TotalTo(f, s)
  BY <1>4, <1>5
<1>7. f[0] = 0 /\ \A j \in 1..len : f[j] = f[j - 1] + s[j].v
  <2>1. 0 \in 0..len /\ \A j \in 1..len : j \in 0..len /\ j # 0
    OBVIOUS
  <2> QED
    BY <1>2, <1>6, <2>1 DEF TotalTo
<1>8. PICK S : S = {j \in 0..len : f[j] \in Int}
  OBVIOUS
<1>9. 0 \in S
  BY <1>7, <1>8
<1>10. ASSUME NEW j \in 0..len - 1, j \in S PROVE j + 1 \in S
  <2>1. j + 1 \in 1..len /\ (j + 1) - 1 = j /\ j + 1 \in 0..len
    OBVIOUS
  <2>2. f[j + 1] = f[j] + s[j + 1].v
    BY <1>7, <2>1
  <2> QED
    BY <1>2, <1>8, <1>10, <2>1, <2>2
<1>11. 0..len \subseteq S
  BY <1>9, <1>10, UpTo
<1>12. Tests!Total(s) = f[len]
  BY <1>2, <1>5, Zenon DEF Tests!Total, TotalTo
<1> QED
  BY <1>2, <1>8, <1>11, <1>12

LEMMA DevTyped ==
  ASSUME NEW R, Numbered(R), NEW len \in Nat, NEW s \in [1..len -> R], NEW j \in 1..len
  PROVE  Tests!Dev(s, j) \in Nat
<1>1. Tests!Total(s) \in Int /\ s[j].v \in Int /\ Len(s) = len
  <2>1. Tests!Total(s) \in Int
    BY TotalTyped
  <2> QED
    BY <2>1 DEF Numbered
<1>2. PICK x : x = len * s[j].v - Tests!Total(s)
  OBVIOUS
<1>3. x \in Int
  BY <1>1, <1>2
<1>4. Tests!Dev(s, j) = IF x < 0 THEN 0 - x ELSE x
  BY <1>1, <1>2 DEF Tests!Dev, Tests!Magnitude
<1> QED
  BY <1>3, <1>4

(* j is the first of the furthest of the first m.                           *)
FurthestOf(s, m, j) ==
  /\ j \in 1..m
  /\ \A o \in 1..m : Tests!Dev(s, o) < Tests!Dev(s, j) \/ (Tests!Dev(s, o) = Tests!Dev(s, j) /\ j <= o)

LEMMA FurthestIs ==
  ASSUME NEW R, Numbered(R), NEW len \in Nat \ {0}, NEW s \in [1..len -> R]
  PROVE  FurthestOf(s, len, Tests!Furthest(s))
<1>1. \A j \in 1..len : Tests!Dev(s, j) \in Nat
  BY DevTyped
<1>2. PICK S : S = {m \in 0..len : m = 0 \/ \E j : FurthestOf(s, m, j)}
  OBVIOUS
<1>3. 0 \in S
  BY <1>2
<1>4. ASSUME NEW m \in 0..len - 1, m \in S PROVE m + 1 \in S
  <2>1. m + 1 \in 1..len /\ m + 1 \in 1..m + 1 /\ m + 1 \in 0..len
        /\ \A o \in 1..m + 1 : o \in 1..len /\ (o = m + 1 \/ o \in 1..m)
    OBVIOUS
  <2>2. CASE m = 0
    <3>1. \A o \in 1..m + 1 : o = m + 1
      BY <2>2
    <3>2. FurthestOf(s, m + 1, m + 1)
      BY <1>1, <2>1, <3>1 DEF FurthestOf
    <3> QED
      BY <1>2, <2>1, <3>2
  <2>3. CASE m # 0
    <3>1. PICK j : FurthestOf(s, m, j)
      BY <1>2, <1>4, <2>3
    <3>2. j \in 1..m /\ j \in 1..m + 1 /\ j \in 1..len /\ j < m + 1
      BY <3>1 DEF FurthestOf
    <3>3. PICK d : d = [o \in 1..len |-> Tests!Dev(s, o)]
      OBVIOUS
    <3>4. \A o \in 1..len : d[o] = Tests!Dev(s, o) /\ d[o] \in Nat
      BY <1>1, <3>3
    <3>5. \A o \in 1..m : d[o] < d[j] \/ (d[o] = d[j] /\ j <= o)
      BY <2>1, <3>1, <3>2, <3>4 DEF FurthestOf
    <3>6. CASE d[m + 1] <= d[j]
      <4>1. \A o \in 1..m + 1 : d[o] < d[j] \/ (d[o] = d[j] /\ j <= o)
        BY <2>1, <3>2, <3>4, <3>5, <3>6
      <4>2. FurthestOf(s, m + 1, j)
        BY <2>1, <3>2, <3>4, <4>1 DEF FurthestOf
      <4> QED
        BY <1>2, <2>1, <4>2
    <3>7. CASE d[j] < d[m + 1]
      <4>1. \A o \in 1..m + 1 : d[o] < d[m + 1] \/ (d[o] = d[m + 1] /\ m + 1 <= o)
        BY <2>1, <3>2, <3>4, <3>5, <3>7
      <4>2. FurthestOf(s, m + 1, m + 1)
        BY <2>1, <3>4, <4>1 DEF FurthestOf
      <4> QED
        BY <1>2, <2>1, <4>2
    <3> QED
      BY <2>1, <3>2, <3>4, <3>6, <3>7
  <2> QED
    BY <2>2, <2>3
<1>5. 0..len \subseteq S
  BY <1>3, <1>4, UpTo
<1>6. PICK j : FurthestOf(s, len, j)
  BY <1>2, <1>5
<1>7. DOMAIN s = 1..len
  OBVIOUS
<1>8. PICK q : q = Tests!Furthest(s)
  OBVIOUS
<1>9. /\ q \in DOMAIN s
      /\ \A o \in DOMAIN s : Tests!Dev(s, o) < Tests!Dev(s, q) \/ (Tests!Dev(s, o) = Tests!Dev(s, q) /\ q <= o)
  <2>1. \E x \in DOMAIN s : \A o \in DOMAIN s :
          Tests!Dev(s, o) < Tests!Dev(s, x) \/ (Tests!Dev(s, o) = Tests!Dev(s, x) /\ x <= o)
    BY <1>6, <1>7, Zenon DEF FurthestOf
  <2> QED
    BY <1>8, <2>1, Zenon DEF Tests!Furthest
<1> QED
  BY <1>7, <1>8, <1>9 DEF FurthestOf

(* The furthest sample is the greatest or the least.                        *)
LEMMA FurthestIsExtreme ==
  ASSUME NEW R, Numbered(R), NEW len \in Nat \ {0}, NEW s \in [1..len -> R]
  PROVE  /\ Tests!Furthest(s) \in 1..len
         /\ \/ \A o \in 1..len : s[o].v <= s[Tests!Furthest(s)].v
            \/ \A o \in 1..len : s[o].v >= s[Tests!Furthest(s)].v
<1>1. PICK j : j = Tests!Furthest(s)
  OBVIOUS
<1>2. FurthestOf(s, len, j)
  BY <1>1, FurthestIs
<1>3. PICK m : m = Tests!Total(s)
  OBVIOUS
<1>4. m \in Int /\ j \in 1..len /\ Len(s) = len /\ \A o \in 1..len : s[o].v \in Int
  <2>1. m \in Int
    BY <1>3, TotalTyped
  <2> QED
    BY <1>2, <2>1 DEF Numbered, FurthestOf
<1>5. \A o \in 1..len : Tests!Dev(s, o) <= Tests!Dev(s, j)
  BY <1>2, <1>4, DevTyped DEF FurthestOf
<1>6. \A o \in 1..len : Tests!Dev(s, o) = IF len * s[o].v - m < 0 THEN 0 - (len * s[o].v - m)
                                          ELSE len * s[o].v - m
  BY <1>3, <1>4 DEF Tests!Dev, Tests!Magnitude
<1>7. CASE len * s[j].v - m >= 0
  <2>1. ASSUME NEW o \in 1..len PROVE s[o].v <= s[j].v
    <3>1. PICK x, y : x = s[o].v /\ y = s[j].v
      OBVIOUS
    <3>2. x \in Int /\ y \in Int
      BY <1>4, <3>1
    <3>3. len * x \in Int /\ len * y \in Int
      BY <3>2
    <3>4. len * x <= len * y
      BY <1>4, <1>5, <1>6, <1>7, <3>1, <3>3, SMTT(30)
    <3>5. ~(y < x)
      <4>1. SUFFICES ASSUME y < x PROVE FALSE
        OBVIOUS
      <4>2. x - y \in Nat \ {0} /\ len * x = len * y + len * (x - y) /\ len * (x - y) >= 1
        BY <3>2, <4>1
      <4> QED
        BY <3>3, <3>4, <4>2
    <3> QED
      BY <3>1, <3>2, <3>5
  <2> QED
    BY <1>1, <1>4, <2>1
<1>8. CASE len * s[j].v - m < 0
  <2>1. ASSUME NEW o \in 1..len PROVE s[o].v >= s[j].v
    <3>1. PICK x, y : x = s[o].v /\ y = s[j].v
      OBVIOUS
    <3>2. x \in Int /\ y \in Int
      BY <1>4, <3>1
    <3>3. len * x \in Int /\ len * y \in Int
      BY <3>2
    <3>4. len * y <= len * x
      BY <1>4, <1>5, <1>6, <1>8, <3>1, <3>3, SMTT(30)
    <3>5. ~(x < y)
      <4>1. SUFFICES ASSUME x < y PROVE FALSE
        OBVIOUS
      <4>2. y - x \in Nat \ {0} /\ len * y = len * x + len * (y - x) /\ len * (y - x) >= 1
        BY <3>2, <4>1
      <4> QED
        BY <3>3, <3>4, <4>2
    <3> QED
      BY <3>1, <3>2, <3>5
  <2> QED
    BY <1>1, <1>4, <2>1
<1>9. len * s[j].v - m \in Int
  BY <1>4
<1> QED
  BY <1>7, <1>8, <1>9

-----------------------------------------------------------------------------
(* The removal of outliers.                                                 *)

Marked == [v : Samples, i : 1..Len(values)]

(* The working set is what is not marked, in between of what is.            *)
Working ==
  /\ work \in [1..Len(work) -> Marked] /\ Len(work) \in Nat
  /\ Len(work) = Len(values) - k /\ Len(work) >= 2
  /\ \A j, o \in 1..Len(work) : work[j].i = work[o].i => j = o
  /\ \A j \in 1..Len(work) : ~mask[work[j].i] /\ work[j].v = values[work[j].i]
  /\ \A c \in 1..Len(values) : ~mask[c] => \E j \in 1..Len(work) : work[j].i = c
  /\ \A c \in 1..Len(values) : mask[c] =>
       \/ \A o \in 1..Len(work) : work[o].v <= values[c]
       \/ \A o \in 1..Len(work) : work[o].v >= values[c]

TestInv ==
  /\ Tests!TypeOK
  /\ pc = "start" => work = << >> /\ k = 0 /\ \A j \in DOMAIN values : mask[j] = FALSE
  /\ pc = "loop" => Working

LEMMA GroupTyped ==
  ASSUME NEW most \in Nat, NEW s \in Tests!Groups(most)
  PROVE  /\ Len(s) \in Nat \ {0} /\ Len(s) <= most /\ DOMAIN s = 1..Len(s)
         /\ s \in [1..Len(s) -> Samples] /\ \A j \in 1..Len(s) : s[j] \in Samples /\ s[j] \in Int
<1>1. Samples \subseteq Int
  BY StatsAssumption DEF Tests!StatsAssumption
<1>2. PICK m \in 0..most : s \in [1..m -> Samples]
  BY DEF Tests!Groups, Tests!BoundedSeq, Tests!SeqOf
<1>3. m \in Nat /\ Len(s) = m /\ s # << >>
  BY <1>2 DEF Tests!Groups
<1>4. m # 0
  <2>1. SUFFICES ASSUME m = 0 PROVE s = << >>
    BY <1>3
  <2>2. s \in Seq(Samples) /\ Len(s) = 0
    BY <1>2, <1>3, <2>1
  <2> QED
    BY <2>2
<1>5. \A j \in 1..m : s[j] \in Samples /\ s[j] \in Int
  BY <1>1, <1>2
<1>6. m <= most /\ m \in Nat \ {0} /\ DOMAIN s = 1..m
  BY <1>2, <1>4
<1> QED
  BY <1>2, <1>3, <1>5, <1>6

LEMMA ValuesTyped ==
  ASSUME Tests!TypeOK
  PROVE  /\ Len(values) \in Nat \ {0} /\ DOMAIN values = 1..Len(values)
         /\ \A j \in 1..Len(values) : values[j] \in Samples /\ values[j] \in Int
         /\ Numbered(Marked)
<1>1. MaxCount \in Nat /\ Samples \subseteq Int
  BY StatsAssumption DEF Tests!StatsAssumption
<1>2. values \in Tests!Groups(MaxCount)
  BY DEF Tests!TypeOK
<1>3. Numbered(Marked)
  BY <1>1 DEF Numbered, Marked
<1> QED
  BY <1>1, <1>2, <1>3, GroupTyped

LEMMA TestInit == Tests!Init => TestInv
<1>1. SUFFICES ASSUME Tests!Init PROVE TestInv
  OBVIOUS
<1>2. /\ values \in Tests!Groups(MaxCount) /\ b \in Tests!Groups(MaxOther)
      /\ pc = "start" /\ work = << >> /\ k = 0
      /\ mask = [j \in DOMAIN values |-> FALSE]
  BY <1>1 DEF Tests!Init
<1>3. DOMAIN work = {} /\ MaxOutliers \in Nat
  BY <1>2, StatsAssumption DEF Tests!StatsAssumption
<1>4. Tests!TypeOK
  BY <1>2, <1>3 DEF Tests!TypeOK
<1> QED
  BY <1>2, <1>4 DEF TestInv

(* The typing part of a step.                                               *)
LEMMA WorkTyped ==
  ASSUME NEW w, NEW m \in Nat, w \in [1..m -> Marked], Tests!TypeOK
  PROVE  \A j \in DOMAIN w : w[j].v \in Samples /\ w[j].i \in DOMAIN values
  BY ValuesTyped DEF Marked

LEMMA SortKeeps ==
  ASSUME TestInv, Tests!Sort
  PROVE  TestInv'
<1>1. /\ pc = "start" /\ values' = values /\ b' = b /\ k' = k /\ mask' = mask
      /\ work = << >> /\ k = 0 /\ \A j \in DOMAIN values : mask[j] = FALSE
      /\ Tests!TypeOK
  BY DEF Tests!Sort, Tests!inputs, TestInv
<1>2. PICK len : len = Len(values)
  OBVIOUS
<1>3. /\ len \in Nat /\ DOMAIN values = 1..len /\ Numbered(Marked)
      /\ \A j \in 1..len : values[j] \in Samples /\ values[j] \in Int
  BY <1>1, <1>2, ValuesTyped
<1>4. CASE len < 3
  <2>1. pc' = "over" /\ work' = work
    BY <1>2, <1>4 DEF Tests!Sort
  <2> QED
    BY <1>1, <2>1 DEF TestInv, Tests!TypeOK
<1>5. CASE ~(len < 3)
  <2>1. PICK s : s = [j \in 1..len |-> [v |-> values[j], i |-> j]]
    OBVIOUS
  <2>2. pc' = "loop" /\ work' = Tests!ExchangeSorted(s)
    BY <1>2, <1>5, <2>1 DEF Tests!Sort
  <2>3. s \in [1..len -> Marked] /\ \A j \in 1..len : s[j].v = values[j] /\ s[j].i = j
    BY <1>2, <1>3, <2>1 DEF Marked
  <2>4. work' \in [1..len -> Marked] /\ Arranged(work', s, len)
    BY <1>3, <2>2, <2>3, Sorts
  <2>5. Len(work') = len /\ DOMAIN work' = 1..len
    BY <1>3, <2>4
  <2>6. PICK f \in [1..len -> 1..len] :
          /\ \A c, d \in 1..len : f[c] = f[d] => c = d
          /\ \A c \in 1..len : \E d \in 1..len : f[d] = c
          /\ work' = [j \in 1..len |-> s[f[j]]]
    BY <2>4, Zenon DEF Arranged
  <2>7. \A j \in 1..len : f[j] \in 1..len /\ work'[j].v = values[f[j]] /\ work'[j].i = f[j]
    BY <2>3, <2>6
  <2>8. Tests!TypeOK'
    <3>1. \A j \in DOMAIN work' : work'[j].v \in Samples /\ work'[j].i \in DOMAIN values'
      BY <1>1, <1>3, <2>4, WorkTyped
    <3> QED
      BY <1>1, <2>2, <3>1 DEF Tests!TypeOK
  <2>9. Working'
    <3>1. /\ work' \in [1..Len(work') -> Marked'] /\ Len(work') \in Nat
          /\ Len(work') = Len(values') - k' /\ Len(work') >= 2
      BY <1>1, <1>2, <1>3, <1>5, <2>4, <2>5 DEF Marked
    <3>2. ASSUME NEW j \in 1..len, NEW o \in 1..len, work'[j].i = work'[o].i PROVE j = o
      <4>1. f[j] = f[o]
        BY <2>7, <3>2
      <4> QED
        BY <2>6, <4>1
    <3>3. \A j \in 1..len : ~mask'[work'[j].i] /\ work'[j].v = values'[work'[j].i]
      BY <1>1, <1>3, <2>7
    <3>4. \A c \in 1..len : \E j \in 1..len : work'[j].i = c
      BY <2>6, <2>7
    <3>5. \A c \in 1..len : ~mask'[c]
      BY <1>1, <1>3
    <3>6. Len(values') = len
      BY <1>1, <1>2
    <3> QED
      BY <2>5, <3>1, <3>2, <3>3, <3>4, <3>5, <3>6, Zenon DEF Working
  <2> QED
    BY <2>2, <2>8, <2>9 DEF TestInv
<1> QED
  BY <1>4, <1>5

(* One sample less.                                                         *)
LEMMA MarkKeeps ==
  ASSUME TestInv, Tests!MarkFurthest
  PROVE  TestInv'
<1>1. PICK at : at = Tests!Furthest(work)
  OBVIOUS
<1>2. /\ pc = "loop" /\ k < MaxOutliers /\ Len(work) > 2
      /\ mask' = [mask EXCEPT ![work[at].i] = TRUE]
      /\ work' = Tests!Without(work, at)
      /\ k' = k + 1 /\ values' = values /\ b' = b /\ pc' = pc
  BY <1>1, Zenon DEF Tests!MarkFurthest, Tests!MayRemove, Tests!inputs
<1>3. Working /\ Tests!TypeOK
  BY <1>2 DEF TestInv
<1>4. PICK len, m : len = Len(values) /\ m = Len(work)
  OBVIOUS
<1>5. /\ len \in Nat /\ m \in Nat /\ m > 2 /\ m = len - k /\ work \in [1..m -> Marked]
      /\ DOMAIN values = 1..len /\ Numbered(Marked)
      /\ k \in 0..MaxOutliers /\ MaxOutliers \in Nat /\ mask \in [1..len -> BOOLEAN]
      /\ \A c \in 1..len : values[c] \in Int
      /\ \A j \in 1..m : work[j].i \in 1..len /\ work[j].v \in Int
  <2>1. MaxOutliers \in Nat
    BY StatsAssumption DEF Tests!StatsAssumption
  <2>2. /\ len \in Nat /\ DOMAIN values = 1..len /\ Numbered(Marked)
        /\ \A c \in 1..len : values[c] \in Int
    BY <1>3, <1>4, ValuesTyped
  <2>3. m \in Nat /\ m > 2 /\ m = len - k /\ work \in [1..m -> Marked]
    BY <1>2, <1>3, <1>4 DEF Working
  <2>4. \A j \in 1..m : work[j].i \in 1..len /\ work[j].v \in Int
    BY <1>4, <2>2, <2>3 DEF Marked, Numbered
  <2>5. k \in 0..MaxOutliers /\ mask \in [1..len -> BOOLEAN]
    BY <1>3, <2>2 DEF Tests!TypeOK
  <2> QED
    BY <2>1, <2>2, <2>3, <2>4, <2>5
<1>6. /\ \A j, o \in 1..m : work[j].i = work[o].i => j = o
      /\ \A j \in 1..m : ~mask[work[j].i] /\ work[j].v = values[work[j].i]
      /\ \A c \in 1..len : ~mask[c] => \E j \in 1..m : work[j].i = c
      /\ \A c \in 1..len : mask[c] =>
           \/ \A o \in 1..m : work[o].v <= values[c]
           \/ \A o \in 1..m : work[o].v >= values[c]
  BY <1>3, <1>4, Zenon DEF Working
<1>7. /\ at \in 1..m
      /\ \/ \A o \in 1..m : work[o].v <= work[at].v
         \/ \A o \in 1..m : work[o].v >= work[at].v
  <2>1. m \in Nat \ {0}
    BY <1>5
  <2> QED
    BY <1>1, <1>5, <2>1, FurthestIsExtreme
<1>8. PICK from : from = [j \in 1..m - 1 |-> IF j < at THEN j ELSE j + 1]
  OBVIOUS
<1>9. /\ \A j \in 1..m - 1 : from[j] \in 1..m /\ from[j] # at
      /\ \A j, o \in 1..m - 1 : from[j] = from[o] => j = o
  <2>1. ASSUME NEW j \in 1..m - 1
        PROVE  /\ from[j] \in 1..m /\ from[j] # at
               /\ (j < at /\ from[j] = j) \/ (at <= j /\ from[j] = j + 1)
    BY <1>5, <1>7, <1>8
  <2>2. ASSUME NEW j \in 1..m - 1, NEW o \in 1..m - 1, from[j] = from[o] PROVE j = o
    <3>1. /\ (j < at /\ from[j] = j) \/ (at <= j /\ from[j] = j + 1)
          /\ (o < at /\ from[o] = o) \/ (at <= o /\ from[o] = o + 1)
      BY <2>1
    <3> QED
      BY <1>5, <1>7, <2>2, <3>1
  <2> QED
    BY <2>1, <2>2
<1>10. ASSUME NEW o \in 1..m, o # at PROVE \E j \in 1..m - 1 : from[j] = o
  <2>1. CASE o < at
    <3>1. o \in 1..m - 1 /\ from[o] = o
      BY <1>5, <1>7, <1>8, <2>1
    <3> QED
      BY <3>1
  <2>2. CASE ~(o < at)
    <3>1. o - 1 \in 1..m - 1 /\ from[o - 1] = o
      BY <1>5, <1>7, <1>8, <1>10, <2>2
    <3> QED
      BY <3>1
  <2> QED
    BY <2>1, <2>2
<1>11. work' = [j \in 1..m - 1 |-> work[from[j]]]
  <2>1. work' = [j \in 1..m - 1 |-> work[IF j < at THEN j ELSE j + 1]]
    BY <1>2, <1>4 DEF Tests!Without
  <2> QED
    BY <1>8, <2>1
<1>12. /\ work' \in [1..m - 1 -> Marked] /\ Len(work') = m - 1 /\ DOMAIN work' = 1..m - 1
       /\ \A j \in 1..m - 1 : work'[j] = work[from[j]]
  BY <1>5, <1>9, <1>11
<1>13. /\ \A c \in 1..len : c # work[at].i => mask'[c] = mask[c]
       /\ mask'[work[at].i] = TRUE /\ work[at].i \in 1..len /\ mask' \in [1..len -> BOOLEAN]
  BY <1>2, <1>5, <1>7
<1>14. Tests!TypeOK'
  <2>1. \A j \in DOMAIN work' : work'[j].v \in Samples /\ work'[j].i \in DOMAIN values'
    <3>1. m - 1 \in Nat
      BY <1>5
    <3> QED
      BY <1>2, <1>3, <1>12, <3>1, WorkTyped
  <2>2. k' \in 0..MaxOutliers
    BY <1>2, <1>5
  <2> QED
    BY <1>2, <1>3, <1>5, <1>13, <2>1, <2>2 DEF Tests!TypeOK
<1>15. Working'
  <2>1. /\ work' \in [1..Len(work') -> Marked'] /\ Len(work') \in Nat
        /\ Len(work') = Len(values') - k' /\ Len(work') >= 2
    <3>1. Marked' = Marked
      BY <1>2 DEF Marked
    <3> QED
      BY <1>2, <1>4, <1>5, <1>12, <3>1
  <2>2. ASSUME NEW j \in 1..m - 1, NEW o \in 1..m - 1, work'[j].i = work'[o].i PROVE j = o
    <3>1. work[from[j]].i = work[from[o]].i /\ from[j] \in 1..m /\ from[o] \in 1..m
      BY <1>9, <1>12, <2>2
    <3>2. from[j] = from[o]
      BY <1>6, <3>1
    <3> QED
      BY <1>9, <3>2
  <2>3. ASSUME NEW j \in 1..m - 1 PROVE ~mask'[work'[j].i] /\ work'[j].v = values'[work'[j].i]
    <3>1. work'[j] = work[from[j]] /\ from[j] \in 1..m /\ from[j] # at
      BY <1>9, <1>12
    <3>2. work[from[j]].i # work[at].i /\ work[from[j]].i \in 1..len
      BY <1>5, <1>6, <1>7, <3>1
    <3> QED
      BY <1>2, <1>6, <1>13, <3>1, <3>2
  <2>4. ASSUME NEW c \in 1..len, ~mask'[c] PROVE \E j \in 1..m - 1 : work'[j].i = c
    <3>1. c # work[at].i /\ ~mask[c]
      BY <1>13, <2>4
    <3>2. PICK o \in 1..m : work[o].i = c
      BY <1>6, <3>1
    <3>3. PICK j \in 1..m - 1 : from[j] = o
      BY <1>10, <3>1, <3>2
    <3> QED
      BY <1>12, <3>2, <3>3
  <2>5. ASSUME NEW c \in 1..len, mask'[c]
        PROVE  \/ \A o \in 1..m - 1 : work'[o].v <= values[c]
               \/ \A o \in 1..m - 1 : work'[o].v >= values[c]
    <3>1. CASE c = work[at].i
      <4>1. work[at].v = values[c]
        BY <1>6, <1>7, <3>1
      <4> QED
        BY <1>7, <1>9, <1>12, <4>1
    <3>2. CASE c # work[at].i
      <4>1. mask[c]
        BY <1>13, <2>5, <3>2
      <4> QED
        BY <1>6, <1>9, <1>12, <4>1
    <3> QED
      BY <3>1, <3>2
  <2>6. Len(work') = m - 1 /\ Len(values') = len /\ values' = values
    BY <1>2, <1>4, <1>12
  <2> QED
    BY <2>1, <2>2, <2>3, <2>4, <2>5, <2>6, Zenon DEF Working
<1> QED
  BY <1>2, <1>14, <1>15 DEF TestInv

LEMMA TestStays ==
  ASSUME TestInv, UNCHANGED testVars
  PROVE  TestInv'
<1>1. /\ values' = values /\ b' = b /\ pc' = pc /\ work' = work /\ k' = k /\ mask' = mask
  BY DEF testVars
<1>2. Marked' = Marked
  BY <1>1 DEF Marked
<1>3. Tests!TypeOK'
  BY <1>1 DEF TestInv, Tests!TypeOK
<1>4. Working => Working'
  BY <1>1, <1>2 DEF Working
<1> QED
  BY <1>1, <1>3, <1>4 DEF TestInv

LEMMA TestStep == TestInv /\ (Tests!Next \/ UNCHANGED testVars) => TestInv'
<1>1. SUFFICES ASSUME TestInv, Tests!Next \/ UNCHANGED testVars PROVE TestInv'
  OBVIOUS
<1>2. CASE Tests!Stop
  <2>1. pc' = "over" /\ values' = values /\ b' = b /\ work' = work /\ k' = k /\ mask' = mask
    BY <1>2 DEF Tests!Stop, Tests!inputs
  <2> QED
    BY <1>1, <2>1 DEF TestInv, Tests!TypeOK
<1>3. Tests!Finished => UNCHANGED testVars
  BY DEF Tests!Finished, Tests!vars, Tests!inputs, testVars
<1> QED
  BY <1>1, <1>2, <1>3, SortKeeps, MarkKeeps, TestStays DEF Tests!Next

LEMMA Extreme == TestInv => Tests!OutliersAreExtreme
<1>1. SUFFICES ASSUME TestInv, pc = "loop" PROVE Tests!OutliersAreExtreme
  BY DEF Tests!OutliersAreExtreme
<1>2. Working /\ Tests!TypeOK
  BY <1>1 DEF TestInv
<1>3. DOMAIN work = 1..Len(work) /\ DOMAIN values = 1..Len(values)
  BY <1>2, ValuesTyped DEF Working
<1>4. {work[j].i : j \in DOMAIN work} = {j \in DOMAIN values : ~mask[j]}
  <2>1. \A j \in 1..Len(work) : work[j].i \in 1..Len(values)
    BY <1>2 DEF Working, Marked
  <2>2. ASSUME NEW c \in 1..Len(values), ~mask[c] PROVE \E j \in 1..Len(work) : c = work[j].i
    BY <1>2, <2>2 DEF Working
  <2>3. \A j \in 1..Len(work) : ~mask[work[j].i]
    BY <1>2 DEF Working
  <2> QED
    BY <1>3, <2>1, <2>2, <2>3
<1> QED
  BY <1>2, <1>3, <1>4 DEF Tests!OutliersAreExtreme, Working

-----------------------------------------------------------------------------
(* Counting by a one-to-one map.                                            *)

LEMMA TestsCounted == \A S : Tests!Cardinality(S) = Cardinality(S)
  BY DEF Tests!Cardinality, Cardinality

OneToOne(f, S, T) ==
  /\ f \in [S -> T]
  /\ \A x, y \in S : f[x] = f[y] => x = y
  /\ \A y \in T : \E x \in S : f[x] = y

LEMMA SameNumber ==
  ASSUME NEW S, NEW T, NEW f, IsFiniteSet(S), OneToOne(f, S, T)
  PROVE  IsFiniteSet(T) /\ Cardinality(T) = Cardinality(S)
<1>1. f \in Bijection(S, T)
  BY Zenon DEF OneToOne, Bijection, Injection, Surjection, IsInjective
<1>2. ExistsBijection(S, T)
  BY <1>1 DEF ExistsBijection
<1> QED
  BY <1>2, FS_Bijection

LEMMA PartOfInterval ==
  ASSUME NEW len \in Nat, NEW S, S \subseteq 1..len
  PROVE  IsFiniteSet(S) /\ Cardinality(S) \in 0..len
<1>1. IsFiniteSet(1..len) /\ Cardinality(1..len) = len
  BY FS_Interval
<1>2. IsFiniteSet(S) /\ Cardinality(S) <= len
  BY <1>1, FS_Subset
<1>3. Cardinality(S) \in Nat
  BY <1>2, FS_CardinalityType
<1> QED
  BY <1>2, <1>3

(* The records that a permutation moves into B are as many as those in B.   *)
MovesInto(f, len, A, B) ==
  /\ OneToOne(f, 1..len, 1..len) /\ A \subseteq 1..len /\ B \subseteq 1..len
  /\ \A j \in 1..len : j \in A <=> f[j] \in B

LEMMA MovedInto ==
  ASSUME NEW len \in Nat, NEW f, NEW A, NEW B, MovesInto(f, len, A, B)
  PROVE  Cardinality(A) = Cardinality(B)
<1>1. /\ OneToOne(f, 1..len, 1..len) /\ A \subseteq 1..len /\ B \subseteq 1..len
      /\ \A j \in 1..len : j \in A <=> f[j] \in B
  BY DEF MovesInto
<1>2. PICK g : g = [j \in A |-> f[j]]
  OBVIOUS
<1>3. g \in [A -> B]
  BY <1>2, <1>1
<1>4. \A x, y \in A : g[x] = g[y] => x = y
  <2>1. ASSUME NEW x \in A, NEW y \in A, g[x] = g[y] PROVE x = y
    <3>1. f[x] = f[y] /\ x \in 1..len /\ y \in 1..len
      BY <1>2, <1>1, <2>1
    <3> QED
      BY <1>1, <3>1 DEF OneToOne
  <2> QED
    BY <2>1
<1>5. ASSUME NEW y \in B PROVE \E x \in A : g[x] = y
  <2>1. PICK x \in 1..len : f[x] = y
    BY <1>1 DEF OneToOne
  <2>2. x \in A /\ g[x] = y
    BY <1>2, <1>1, <2>1
  <2> QED
    BY <2>2
<1>6. OneToOne(g, A, B)
  BY <1>3, <1>4, <1>5, Zenon DEF OneToOne
<1> QED
  BY <1>6, <1>1, PartOfInterval, SameNumber

(* An array of records whose numbers rise.                                  *)
Rising(t, len) ==
  /\ \A i \in 1..len : t[i].v \in Int
  /\ \A i, j \in 1..len : i < j => t[i].v <= t[j].v

(* In a sorted array the numbers up to x come first.                        *)
LEMMA FirstComeSmall ==
  ASSUME NEW len \in Nat, NEW t, NEW x \in Int, Rising(t, len)
  PROVE  /\ Cardinality({i \in 1..len : t[i].v <= x}) \in 0..len
         /\ \A i \in 1..len : t[i].v <= x <=> i <= Cardinality({j \in 1..len : t[j].v <= x})
<1>1. PICK S : S = {i \in 1..len + 1 : i = len + 1 \/ x < t[i].v}
  OBVIOUS
<1>2. S \subseteq Nat /\ len + 1 \in S
  BY <1>1
<1>3. PICK c \in S : \A j \in S : c <= j
  BY <1>2, LeastOf
<1>4. c \in 1..len + 1 /\ c - 1 \in 0..len
  BY <1>1
<1>5. /\ \A i \in 1..len : t[i].v \in Int
      /\ \A i, j \in 1..len : i < j => t[i].v <= t[j].v
  BY DEF Rising
<1>6. ASSUME NEW i \in 1..len PROVE t[i].v <= x <=> i <= c - 1
  <2>1. CASE i < c
    <3>1. i \notin S
      BY <1>2, <1>3, <1>4, <2>1
    <3> QED
      BY <1>1, <1>4, <1>5, <2>1, <3>1
  <2>2. CASE ~(i < c)
    <3>1. c \in 1..len /\ x < t[c].v
      BY <1>1, <1>4, <2>2
    <3>2. t[c].v <= t[i].v
      BY <1>4, <1>5, <2>2, <3>1
    <3> QED
      BY <1>4, <1>5, <2>2, <3>1, <3>2
  <2> QED
    BY <2>1, <2>2
<1>7. {i \in 1..len : t[i].v <= x} = 1..c - 1
  BY <1>4, <1>6
<1>8. Cardinality(1..c - 1) = c - 1
  BY <1>4, FS_Interval
<1> QED
  BY <1>4, <1>6, <1>7, <1>8

(* t is s in the order of its numbers; f says where each record was.        *)
SortedBy(f, t, s, len) ==
  /\ OneToOne(f, 1..len, 1..len) /\ Rising(t, len)
  /\ \A j \in 1..len : f[j] \in 1..len /\ t[j] = s[f[j]]

LEMMA SortMoves ==
  ASSUME NEW R, Numbered(R), NEW len \in Nat, NEW s \in [1..len -> R]
  PROVE  \E f : SortedBy(f, Tests!ExchangeSorted(s), s, len)
<1>1. PICK t : t = Tests!ExchangeSorted(s)
  OBVIOUS
<1>2. t \in [1..len -> R] /\ Arranged(t, s, len) /\ Placed(t, len)
  BY <1>1, Sorts
<1>3. PICK f \in [1..len -> 1..len] :
        /\ \A i, j \in 1..len : f[i] = f[j] => i = j
        /\ \A i \in 1..len : \E j \in 1..len : f[j] = i
        /\ t = [j \in 1..len |-> s[f[j]]]
  BY <1>2, Zenon DEF Arranged
<1>4. OneToOne(f, 1..len, 1..len)
  BY <1>3, Zenon DEF OneToOne
<1>5. \A j \in 1..len : f[j] \in 1..len /\ t[j] = s[f[j]]
  BY <1>3
<1>6. \A i \in 1..len : t[i].v \in Int
  BY <1>2 DEF Numbered
<1>7. \A i, j \in 1..len : i < j => t[i].v <= t[j].v
  <2>1. Len(t) = len
    BY <1>2
  <2> QED
    BY <1>2, <2>1 DEF Placed
<1>8. Rising(t, len)
  BY <1>6, <1>7 DEF Rising
<1>9. SortedBy(f, t, s, len)
  BY <1>4, <1>5, <1>8, Zenon DEF SortedBy
<1> QED
  BY <1>1, <1>9

(* How many numbers are at most x.                                          *)
Upto(s, len, x) == Cardinality({q \in 1..len : s[q].v <= x})

(* The place of a number in the sorted array says how many are no greater.  *)
LEMMA OrderStatistic ==
  ASSUME NEW len \in Nat, NEW s, NEW t, NEW f, SortedBy(f, t, s, len), NEW x \in Int
  PROVE  /\ Upto(s, len, x) \in 0..len
         /\ \A j \in 1..len : t[j].v <= x <=> j <= Upto(s, len, x)
<1>1. /\ OneToOne(f, 1..len, 1..len) /\ Rising(t, len)
      /\ \A j \in 1..len : f[j] \in 1..len /\ t[j] = s[f[j]]
  BY Zenon DEF SortedBy
<1>2. PICK A, B : A = {i \in 1..len : t[i].v <= x} /\ B = {q \in 1..len : s[q].v <= x}
  OBVIOUS
<1>3. Cardinality(A) = Cardinality(B)
  <2>1. \A j \in 1..len : j \in A <=> f[j] \in B
    BY <1>1, <1>2
  <2>2. A \subseteq 1..len /\ B \subseteq 1..len
    BY <1>2
  <2>3. MovesInto(f, len, A, B)
    BY <1>1, <2>1, <2>2 DEF MovesInto
  <2> QED
    BY <2>3, MovedInto
<1>4. Cardinality(A) \in 0..len /\ \A i \in 1..len : t[i].v <= x <=> i <= Cardinality(A)
  BY <1>1, <1>2, FirstComeSmall
<1>5. Upto(s, len, x) = Cardinality(B)
  BY <1>2 DEF Upto
<1> QED
  BY <1>3, <1>4, <1>5

-----------------------------------------------------------------------------
(* The step-up procedure.                                                   *)

LimitTo(f, t, p) ==
  f = [j \in 0..Len(p) |->
         IF j = 0 THEN 0 ELSE IF t[j].v <= 2 * j THEN t[j].v ELSE f[j - 1]]

Limit(t, p) == CHOOSE f : LimitTo(f, t, p)

(* A recursive function on the indices of an array, computed from the       *)
(* numbers in it, is defined and has its values in Int.                     *)
LEMMA NumbersIterate ==
  ASSUME NEW len \in Nat, NEW z \in Int, NEW step \in [(1..len) \X Int -> Int]
  PROVE  \E g \in [0..len -> Int] : Steps(g, len, z, step)
<1>1. PICK T : T = Int
  OBVIOUS
<1>2. z \in T /\ step \in [(1..len) \X T -> T]
  BY <1>1
<1>3. PICK g : Steps(g, len, z, step)
  BY Iterates
<1>4. g \in [0..len -> T]
  BY <1>2, <1>3, IteratesIn
<1> QED
  BY <1>1, <1>3, <1>4 DEF Steps

LEMMA LimitExists ==
  ASSUME NEW len \in Nat, NEW p, Len(p) = len, NEW t, Rising(t, len),
         NEW f, f = Limit(t, p)
  PROVE  /\ \A j \in 0..len : f[j] \in Int
         /\ f[0] = 0
         /\ \A j \in 1..len : f[j] = IF t[j].v <= 2 * j THEN t[j].v ELSE f[j - 1]
<1>1. \A j \in 1..len : t[j].v \in Int
  BY DEF Rising
<1>2. PICK step : step = [q \in (1..len) \X Int |-> IF t[q[1]].v <= 2 * q[1] THEN t[q[1]].v ELSE q[2]]
  OBVIOUS
<1>3. step \in [(1..len) \X Int -> Int]
  BY <1>2, <1>1
<1>4. PICK g \in [0..len -> Int] :
        g = [j \in 0..len |-> IF j = 0 THEN 0 ELSE step[<< j, g[j - 1] >>]]
  <2>1. 0 \in Int
    OBVIOUS
  <2>2. PICK e \in [0..len -> Int] : Steps(e, len, 0, step)
    BY <1>3, <2>1, NumbersIterate, ZenonT(60)
  <2> QED
    BY <2>2 DEF Steps
<1>5. ASSUME NEW j \in 0..len
      PROVE  g[j] = IF j = 0 THEN 0 ELSE IF t[j].v <= 2 * j THEN t[j].v ELSE g[j - 1]
  <2>1. CASE j = 0
    BY <1>4, <2>1
  <2>2. CASE j # 0
    <3>1. j \in 1..len /\ j - 1 \in 0..len
      BY <2>2
    <3>2. g[j] = step[<< j, g[j - 1] >>] /\ << j, g[j - 1] >> \in (1..len) \X Int
      BY <1>4, <2>2, <3>1
    <3> QED
      BY <1>2, <2>2, <3>2
  <2> QED
    BY <2>1, <2>2
<1>6. g = [j \in 0..len |-> g[j]]
  OBVIOUS
<1>7. LimitTo(g, t, p)
  BY <1>5, <1>6, Zenon DEF LimitTo
<1>8. LimitTo(f, t, p)
  BY <1>7, Zenon DEF Limit
<1>9. f[0] = 0 /\ \A j \in 1..len : f[j] = IF t[j].v <= 2 * j THEN t[j].v ELSE f[j - 1]
  <2>1. 0 \in 0..len /\ \A j \in 1..len : j \in 0..len /\ j # 0
    OBVIOUS
  <2> QED
    BY <1>8, <2>1 DEF LimitTo
<1>10. PICK S : S = {j \in 0..len : f[j] \in Int}
  OBVIOUS
<1>11. 0 \in S
  BY <1>9, <1>10
<1>12. ASSUME NEW j \in 0..len - 1, j \in S PROVE j + 1 \in S
  <2>1. j + 1 \in 1..len /\ (j + 1) - 1 = j /\ j + 1 \in 0..len
    OBVIOUS
  <2>2. f[j + 1] = IF t[j + 1].v <= 2 * (j + 1) THEN t[j + 1].v ELSE f[(j + 1) - 1]
    BY <1>9, <2>1, Zenon
  <2> QED
    BY <1>10, <1>12, <1>1, <2>1, <2>2
<1>13. 0..len \subseteq S
  BY <1>11, <1>12, UpTo
<1>14. \A j \in 0..len : f[j] \in Int
  BY <1>10, <1>13
<1> QED
  BY <1>9, <1>14

(* x is the last number of t that is within its limit, 0 if there is none.  *)
LastWithin(x, t, len) ==
  \/ x = 0 /\ \A j \in 1..len : ~(t[j].v <= 2 * j)
  \/ \E c \in 1..len : /\ x = t[c].v /\ t[c].v <= 2 * c
                       /\ \A j \in 1..len : c < j => ~(t[j].v <= 2 * j)

LEMMA LimitIsLast ==
  ASSUME NEW len \in Nat, NEW p, Len(p) = len, NEW t, Rising(t, len),
         NEW f, f = Limit(t, p)
  PROVE  LastWithin(f[len], t, len)
<1>1. /\ f[0] = 0
      /\ \A j \in 1..len : f[j] = IF t[j].v <= 2 * j THEN t[j].v ELSE f[j - 1]
  BY LimitExists
<1>2. PICK S : S = {m \in 0..len :
        \/ f[m] = 0 /\ \A j \in 1..m : ~(t[j].v <= 2 * j)
        \/ \E c \in 1..m : /\ f[m] = t[c].v /\ t[c].v <= 2 * c
                           /\ \A j \in 1..m : c < j => ~(t[j].v <= 2 * j)}
  OBVIOUS
<1>3. 0 \in S
  BY <1>1, <1>2
<1>4. ASSUME NEW m \in 0..len - 1, m \in S PROVE m + 1 \in S
  <2>1. /\ m + 1 \in 1..len /\ (m + 1) - 1 = m /\ m + 1 \in 0..len /\ m + 1 \in 1..m + 1
        /\ \A j \in 1..m + 1 : j = m + 1 \/ j \in 1..m
        /\ \A j \in 1..m : j \in 1..m + 1
    OBVIOUS
  <2>2. f[m + 1] = IF t[m + 1].v <= 2 * (m + 1) THEN t[m + 1].v ELSE f[(m + 1) - 1]
    BY <1>1, <2>1, Zenon
  <2>3. CASE t[m + 1].v <= 2 * (m + 1)
    <3>1. \A j \in 1..m + 1 : ~(m + 1 < j)
      OBVIOUS
    <3>2. f[m + 1] = t[m + 1].v
      BY <2>2, <2>3
    <3>3. \E c \in 1..m + 1 : /\ f[m + 1] = t[c].v /\ t[c].v <= 2 * c
                              /\ \A j \in 1..m + 1 : c < j => ~(t[j].v <= 2 * j)
      BY <2>1, <2>3, <3>1, <3>2
    <3> QED
      BY <1>2, <2>1, <3>3
  <2>4. CASE ~(t[m + 1].v <= 2 * (m + 1))
    <3>1. f[m + 1] = f[m]
      BY <2>1, <2>2, <2>4
    <3>2. CASE f[m] = 0 /\ \A j \in 1..m : ~(t[j].v <= 2 * j)
      <4>1. \A j \in 1..m + 1 : ~(t[j].v <= 2 * j)
        BY <2>1, <2>4, <3>2, Zenon
      <4> QED
        BY <1>2, <2>1, <3>1, <3>2, <4>1
    <3>3. CASE \E c \in 1..m : /\ f[m] = t[c].v /\ t[c].v <= 2 * c
                               /\ \A j \in 1..m : c < j => ~(t[j].v <= 2 * j)
      <4>1. PICK c \in 1..m : /\ f[m] = t[c].v /\ t[c].v <= 2 * c
                              /\ \A j \in 1..m : c < j => ~(t[j].v <= 2 * j)
        BY <3>3
      <4>2. \A j \in 1..m + 1 : c < j => ~(t[j].v <= 2 * j)
        BY <2>1, <2>4, <4>1, Zenon
      <4>3. c \in 1..m + 1
        BY <2>1
      <4> QED
        BY <1>2, <2>1, <3>1, <4>1, <4>2, <4>3, Zenon
    <3> QED
      BY <1>2, <1>4, <3>2, <3>3
  <2> QED
    BY <2>3, <2>4
<1>5. 0..len \subseteq S
  BY <1>3, <1>4, UpTo
<1>6. len \in S
  BY <1>5
<1> QED
  BY <1>2, <1>6, Zenon DEF LastWithin

(* It keeps a value if one at least as large is within the limit that goes  *)
(* with its place.                                                          *)
LEMMA KeepsWhatItShould ==
  ASSUME NEW len \in Nat, NEW p \in [1..len -> Int]
  PROVE  Tests!Kept(p) = {j \in DOMAIN p :
           \/ p[j] <= 0
           \/ \E o \in DOMAIN p : /\ p[o] >= p[j]
                /\ p[o] <= 2 * Cardinality({i \in DOMAIN p : p[i] <= p[o]})}
<1>1. PICK R : R = [v : Int]
  OBVIOUS
<1>2. PICK s : s = [j \in 1..len |-> [v |-> p[j]]]
  OBVIOUS
<1>3. /\ Numbered(R) /\ s \in [1..len -> R] /\ DOMAIN p = 1..len /\ Len(p) = len
      /\ \A j \in 1..len : s[j].v = p[j] /\ p[j] \in Int
  BY <1>1, <1>2 DEF Numbered
<1>4. PICK t : t = Tests!ExchangeSorted(s)
  OBVIOUS
<1>5. PICK f : SortedBy(f, t, s, len)
  BY <1>3, <1>4, SortMoves
<1>6. /\ OneToOne(f, 1..len, 1..len)
      /\ \A j \in 1..len : f[j] \in 1..len /\ t[j] = s[f[j]]
      /\ Rising(t, len) /\ \A i \in 1..len : t[i].v \in Int
      /\ \A i, j \in 1..len : i < j => t[i].v <= t[j].v
  BY <1>5, Zenon DEF SortedBy, Rising
<1>7. PICK up : up = [x \in Int |-> Cardinality({i \in 1..len : p[i] <= x})]
  OBVIOUS
<1>8. ASSUME NEW x \in Int
      PROVE  up[x] \in 0..len /\ \A j \in 1..len : t[j].v <= x <=> j <= up[x]
  <2>1. {q \in 1..len : s[q].v <= x} = {i \in 1..len : p[i] <= x}
    BY <1>3
  <2>2. up[x] = Upto(s, len, x)
    BY <1>7, <2>1 DEF Upto
  <2>3. Upto(s, len, x) \in 0..len /\ \A j \in 1..len : t[j].v <= x <=> j <= Upto(s, len, x)
    BY <1>5, OrderStatistic
  <2> QED
    BY <2>2, <2>3, Zenon
<1>9. PICK g, limit : g = Limit(t, p) /\ limit = g[len]
  OBVIOUS
<1>10. Tests!Kept(p) = {j \in 1..len : p[j] <= limit}
  BY <1>2, <1>3, <1>4, <1>9, SMTT(30) DEF Tests!Kept, LimitTo, Limit
<1>11. ASSUME NEW j \in 1..len PROVE \E i \in 1..len : t[i].v = p[j]
  <2>1. PICK i \in 1..len : f[i] = j
    BY <1>6 DEF OneToOne
  <2> QED
    BY <1>3, <1>6, <2>1
<1>12. ASSUME NEW j \in 1..len
       PROVE  p[j] <= limit <=>
                p[j] <= 0 \/ \E o \in 1..len : p[o] >= p[j] /\ p[o] <= 2 * up[p[o]]
  <2>1. PICK i \in 1..len : t[i].v = p[j]
    BY <1>11
  <2>2. CASE limit = 0 /\ \A c \in 1..len : ~(t[c].v <= 2 * c)
    <3>1. ASSUME NEW o \in 1..len, p[o] <= 2 * up[p[o]] PROVE FALSE
      <4>1. PICK c \in 1..len : t[c].v = p[o]
        BY <1>11
      <4>2. PICK u : u = up[p[o]]
        OBVIOUS
      <4>3. u \in 0..len /\ c <= u
        <5>1. p[o] \in Int /\ t[c].v <= p[o]
          BY <1>3, <4>1
        <5>2. up[p[o]] \in 0..len /\ \A l \in 1..len : t[l].v <= p[o] <=> l <= up[p[o]]
          BY <1>8, <5>1, Zenon
        <5> QED
          BY <4>2, <5>1, <5>2, Zenon
      <4>4. u \in 1..len
        BY <4>3
      <4>5. t[u].v <= p[o]
        BY <1>3, <1>8, <4>2, <4>4
      <4>6. t[u].v <= 2 * u
        BY <1>3, <1>6, <3>1, <4>2, <4>4, <4>5
      <4> QED
        BY <2>2, <4>4, <4>6
    <3> QED
      BY <2>2, <3>1
  <2>3. CASE \E c \in 1..len : /\ limit = t[c].v /\ t[c].v <= 2 * c
                               /\ \A o \in 1..len : c < o => ~(t[o].v <= 2 * o)
    <3>1. PICK c \in 1..len : /\ limit = t[c].v /\ t[c].v <= 2 * c
                              /\ \A o \in 1..len : c < o => ~(t[o].v <= 2 * o)
      BY <2>3
    <3>2. ASSUME p[j] <= limit
          PROVE  \E o \in 1..len : p[o] >= p[j] /\ p[o] <= 2 * up[p[o]]
      <4>1. f[c] \in 1..len /\ p[f[c]] = t[c].v
        BY <1>3, <1>6
      <4>2. c <= up[t[c].v] /\ up[t[c].v] \in 0..len
        BY <1>6, <1>8
      <4>3. p[f[c]] >= p[j] /\ p[f[c]] <= 2 * up[p[f[c]]]
        BY <1>3, <1>6, <3>1, <3>2, <4>1, <4>2
      <4> QED
        BY <4>1, <4>3
    <3>3. ASSUME p[j] <= 0 PROVE p[j] <= limit
      <4>1. t[i].v <= 2 * i
        BY <1>6, <2>1, <3>3
      <4>2. ~(c < i)
        BY <3>1, <4>1
      <4>3. t[i].v <= t[c].v
        BY <1>6, <4>2
      <4> QED
        BY <2>1, <3>1, <4>3
    <3>4. ASSUME NEW o \in 1..len, p[o] >= p[j], p[o] <= 2 * up[p[o]] PROVE p[j] <= limit
      <4>1. PICK d \in 1..len : t[d].v = p[o]
        BY <1>11
      <4>2. PICK u : u = up[p[o]]
        OBVIOUS
      <4>3. u \in 0..len /\ d <= u
        <5>1. p[o] \in Int /\ t[d].v <= p[o]
          BY <1>3, <4>1
        <5>2. up[p[o]] \in 0..len /\ \A l \in 1..len : t[l].v <= p[o] <=> l <= up[p[o]]
          BY <1>8, <5>1, Zenon
        <5> QED
          BY <4>2, <5>1, <5>2, Zenon
      <4>4. u \in 1..len
        BY <4>3
      <4>5. t[u].v <= p[o]
        BY <1>3, <1>8, <4>2, <4>4
      <4>6. t[u].v <= 2 * u
        BY <1>3, <1>6, <3>4, <4>2, <4>4, <4>5
      <4>7. ~(c < u)
        BY <3>1, <4>4, <4>6
      <4>8. t[d].v <= t[c].v
        <5>1. d = c \/ d < c
          BY <4>3, <4>4, <4>7
        <5>2. t[c].v \in Int
          BY <1>6
        <5>3. d < c => t[d].v <= t[c].v
          BY <1>6, Zenon
        <5>4. d = c => t[d].v <= t[c].v
          BY <5>2
        <5> QED
          BY <5>1, <5>3, <5>4
      <4> QED
        BY <1>3, <1>6, <3>1, <3>4, <4>1, <4>8
    <3> QED
      BY <3>2, <3>3, <3>4
  <2>4. \/ limit = 0 /\ \A c \in 1..len : ~(t[c].v <= 2 * c)
        \/ \E c \in 1..len : /\ limit = t[c].v /\ t[c].v <= 2 * c
                             /\ \A o \in 1..len : c < o => ~(t[o].v <= 2 * o)
    <3>1. Len(p) = len /\ Rising(t, len) /\ g = Limit(t, p)
      BY <1>3, <1>6, <1>9
    <3>2. LastWithin(g[len], t, len)
      BY <3>1, LimitIsLast
    <3>3. g[len] = limit
      BY <1>9
    <3> QED
      BY <3>2, <3>3, Zenon DEF LastWithin
  <2> QED
    BY <2>2, <2>3, <2>4
<1>13. \A o \in 1..len : up[p[o]] = Cardinality({i \in 1..len : p[i] <= p[o]})
  BY <1>3, <1>7
<1>14. Tests!Kept(p) = {j \in 1..len : p[j] <= 0 \/ \E o \in 1..len : p[o] >= p[j] /\ p[o] <= 2 * up[p[o]]}
  BY <1>10, <1>12
<1>15. ASSUME NEW j \in 1..len
       PROVE  (\E o \in 1..len : p[o] >= p[j] /\ p[o] <= 2 * up[p[o]])
              <=> \E o \in 1..len : /\ p[o] >= p[j]
                                    /\ p[o] <= 2 * Cardinality({i \in 1..len : p[i] <= p[o]})
  BY <1>13, Zenon
<1>16. {j \in 1..len : p[j] <= 0 \/ \E o \in 1..len : p[o] >= p[j] /\ p[o] <= 2 * up[p[o]]}
         = {j \in 1..len :
              \/ p[j] <= 0
              \/ \E o \in 1..len : /\ p[o] >= p[j]
                   /\ p[o] <= 2 * Cardinality({i \in 1..len : p[i] <= p[o]})}
  BY <1>15, Zenon
<1>17. DOMAIN p = 1..len
  BY <1>3
<1> QED
  BY <1>14, <1>16, <1>17, Zenon

-----------------------------------------------------------------------------
(* The shift.                                                               *)

LEMMA Product ==
  ASSUME NEW x \in Nat, NEW y \in Nat, NEW w \in Nat, x <= y
  PROVE  w * x <= w * y /\ w * x \in Nat /\ w * y \in Nat
<1>1. y - x \in Nat /\ w * (y - x) \in Nat /\ w * y = w * x + w * (y - x)
  OBVIOUS
<1>2. w * x \in Nat /\ w * y \in Nat
  OBVIOUS
<1> QED
  BY <1>1, <1>2

(* Place x, y of a table with rows of width w.                              *)
LEMMA Quotient ==
  ASSUME NEW w \in Nat \ {0}, NEW m \in Nat
  PROVE  m \div w \in Nat /\ m % w \in 0..w - 1 /\ m = w * (m \div w) + (m % w)
OBVIOUS

LEMMA QuotientOf ==
  ASSUME NEW w \in Nat \ {0}, NEW x \in Nat, NEW y \in 0..w - 1
  PROVE  (w * x + y) \div w = x /\ (w * x + y) % w = y
<1>1. PICK m : m = w * x + y
  OBVIOUS
<1>2. m \in Nat
  BY <1>1
<1>3. PICK q, r : q = m \div w /\ r = m % w
  OBVIOUS
<1>4. q \in Nat /\ r \in 0..w - 1 /\ m = w * q + r
  BY <1>2, <1>3, Quotient
<1>5. ~(q < x)
  <2>1. SUFFICES ASSUME q < x PROVE FALSE
    OBVIOUS
  <2>2. w * (q + 1) <= w * x /\ w * (q + 1) = w * q + w
    BY <1>4, <2>1, Product
  <2>3. w * q \in Nat /\ w * x \in Nat
    BY <1>4
  <2> QED
    BY <1>1, <1>4, <2>2, <2>3
<1>6. ~(x < q)
  <2>1. SUFFICES ASSUME x < q PROVE FALSE
    OBVIOUS
  <2>2. w * (x + 1) <= w * q /\ w * (x + 1) = w * x + w
    BY <1>4, <2>1, Product
  <2>3. w * q \in Nat /\ w * x \in Nat
    BY <1>4
  <2> QED
    BY <1>1, <1>4, <2>2, <2>3
<1>7. q = x
  BY <1>4, <1>5, <1>6
<1>8. w * x \in Nat
  OBVIOUS
<1>9. r = y
  BY <1>1, <1>4, <1>7, <1>8
<1> QED
  BY <1>1, <1>3, <1>7, <1>9

LEMMA RowAndColumn ==
  ASSUME NEW w \in Nat \ {0}, NEW h \in Nat \ {0}, NEW q \in 1..w * h
  PROVE  /\ (q - 1) \div w \in 0..h - 1 /\ (q - 1) % w \in 0..w - 1
         /\ q = w * ((q - 1) \div w) + ((q - 1) % w) + 1
<1>1. PICK m : m = q - 1
  OBVIOUS
<1>2. w * h \in Nat /\ m \in Nat /\ m < w * h /\ q = m + 1
  BY <1>1
<1>3. PICK x, r : x = m \div w /\ r = m % w
  OBVIOUS
<1>4. x \in Nat /\ r \in 0..w - 1 /\ m = w * x + r
  BY <1>2, <1>3, Quotient
<1>5. x < h
  <2>1. SUFFICES ASSUME h <= x PROVE FALSE
    BY <1>4
  <2>2. w * h <= w * x /\ w * x \in Nat
    BY <1>4, <2>1, Product
  <2> QED
    BY <1>2, <1>4, <2>2
<1>6. w * x \in Nat
  BY <1>4
<1> QED
  BY <1>1, <1>2, <1>3, <1>4, <1>5, <1>6

LEMMA PlaceInTable ==
  ASSUME NEW w \in Nat \ {0}, NEW h \in Nat \ {0}, NEW x \in 0..h - 1, NEW y \in 0..w - 1,
         NEW q, q = w * x + y + 1
  PROVE  q \in 1..w * h /\ (q - 1) \div w = x /\ (q - 1) % w = y
<1>1. w * (x + 1) <= w * h /\ w * (x + 1) = w * x + w /\ w * h \in Nat
  BY Product
<1>2. w * x \in Nat
  OBVIOUS
<1>3. q \in 1..w * h /\ q - 1 = w * x + y
  BY <1>1, <1>2
<1>4. (w * x + y) \div w = x /\ (w * x + y) % w = y
  BY QuotientOf
<1> QED
  BY <1>3, <1>4, Zenon

(* From the table of w columns and h rows to the one turned over.           *)
Turned(w, h) ==
  [q \in 1..w * h |-> h * ((q - 1) % w) + (q - 1) \div w + 1]

(* The q-th place of the one is the r-th of the other.                      *)
TurnsInto(w, h, q, r) ==
  \E x \in 0..h - 1, y \in 0..w - 1 :
    /\ x = (q - 1) \div w /\ y = (q - 1) % w /\ q = w * x + y + 1
    /\ y = (r - 1) \div h /\ x = (r - 1) % h /\ r = h * y + x + 1

LEMMA TurnedAt ==
  ASSUME NEW w \in Nat \ {0}, NEW h \in Nat \ {0}, NEW d, d = w * h, NEW q \in 1..d
  PROVE  Turned(w, h)[q] \in 1..d /\ TurnsInto(w, h, q, Turned(w, h)[q])
<1>1. PICK x, y : x = (q - 1) \div w /\ y = (q - 1) % w
  OBVIOUS
<1>2. x \in 0..h - 1 /\ y \in 0..w - 1 /\ q = w * x + y + 1
  BY <1>1, RowAndColumn
<1>3. PICK r : r = Turned(w, h)[q]
  OBVIOUS
<1>4. r = h * y + x + 1
  BY <1>1, <1>3 DEF Turned
<1>5. r \in 1..h * w /\ (r - 1) \div h = y /\ (r - 1) % h = x
  BY <1>2, <1>4, PlaceInTable
<1>6. r \in 1..d
  <2>1. w * h = h * w
    OBVIOUS
  <2> QED
    BY <1>5, <2>1
<1> QED
  BY <1>1, <1>2, <1>3, <1>4, <1>5, <1>6, Zenon DEF TurnsInto

LEMMA TurnedIs ==
  ASSUME NEW w \in Nat \ {0}, NEW h \in Nat \ {0}
  PROVE  OneToOne(Turned(w, h), 1..w * h, 1..w * h)
<1>1. PICK f : f = Turned(w, h)
  OBVIOUS
<1>2. w * h = h * w /\ w * h \in Nat
  OBVIOUS
<1>3. ASSUME NEW q \in 1..w * h
      PROVE  \E x \in 0..h - 1, y \in 0..w - 1 :
               /\ x = (q - 1) \div w /\ y = (q - 1) % w /\ q = w * x + y + 1 /\ f[q] = h * y + x + 1
               /\ f[q] \in 1..w * h /\ (f[q] - 1) \div h = y /\ (f[q] - 1) % h = x
  <2>1. f[q] \in 1..w * h /\ TurnsInto(w, h, q, f[q])
    BY <1>1, TurnedAt
  <2> QED
    BY <2>1, Zenon DEF TurnsInto
<1>4. f \in [1..w * h -> 1..w * h]
  <2>1. f = [q \in 1..w * h |-> f[q]]
    BY <1>1, Zenon DEF Turned
  <2> QED
    BY <1>3, <2>1
<1>5. ASSUME NEW q \in 1..w * h, NEW r \in 1..w * h, f[q] = f[r] PROVE q = r
  <2>1. PICK x, y : q = w * x + y + 1 /\ (f[q] - 1) \div h = y /\ (f[q] - 1) % h = x
    BY <1>3, Zenon
  <2>2. PICK u, v : r = w * u + v + 1 /\ (f[r] - 1) \div h = v /\ (f[r] - 1) % h = u
    BY <1>3, Zenon
  <2>3. x = u /\ y = v
    BY <1>5, <2>1, <2>2, Zenon
  <2> QED
    BY <2>1, <2>2, <2>3, Zenon
<1>6. ASSUME NEW r \in 1..w * h PROVE \E q \in 1..w * h : f[q] = r
  <2>1. PICK x, y : y = (r - 1) \div h /\ x = (r - 1) % h
    OBVIOUS
  <2>2. x \in 0..h - 1 /\ y \in 0..w - 1 /\ r = h * y + x + 1
    BY <1>2, <2>1, RowAndColumn, ZenonT(60)
  <2>3. PICK q : q = w * x + y + 1
    OBVIOUS
  <2>4. q \in 1..w * h /\ (q - 1) \div w = x /\ (q - 1) % w = y
    BY <2>2, <2>3, PlaceInTable
  <2>5. f[q] = h * y + x + 1
    BY <1>1, <2>4 DEF Turned
  <2> QED
    BY <2>2, <2>4, <2>5
<1> QED
  BY <1>1, <1>4, <1>5, <1>6, Zenon DEF OneToOne

(* The differences of two groups.                                           *)
Differences(a, c) ==
  [q \in 1..Len(a) * Len(c) |-> [v |-> a[(q - 1) \div Len(c) + 1] - c[((q - 1) % Len(c)) + 1]]]

LEMMA DifferencesTyped ==
  ASSUME NEW w \in Nat \ {0}, NEW h \in Nat \ {0}, NEW a \in [1..h -> Int], NEW c \in [1..w -> Int]
  PROVE  Differences(a, c) \in [1..h * w -> [v : Int]]
<1>1. Len(a) = h /\ Len(c) = w /\ h * w = w * h
  OBVIOUS
<1>2. ASSUME NEW q \in 1..h * w
      PROVE  a[(q - 1) \div w + 1] \in Int /\ c[((q - 1) % w) + 1] \in Int
  <2>1. (q - 1) \div w \in 0..h - 1 /\ (q - 1) % w \in 0..w - 1
    BY <1>1, RowAndColumn
  <2> QED
    BY <2>1
<1>3. Differences(a, c) = [q \in 1..h * w |-> [v |-> a[(q - 1) \div w + 1] - c[((q - 1) % w) + 1]]]
  BY <1>1, Zenon DEF Differences
<1> QED
  BY <1>2, <1>3

(* r is s in another order with the signs changed.                          *)
Negated(f, r, s, d) ==
  /\ OneToOne(f, 1..d, 1..d)
  /\ \A q \in 1..d : s[q].v \in Int /\ r[q].v \in Int
  /\ \A q \in 1..d : f[q] \in 1..d /\ r[q].v = 0 - s[f[q]].v

(* Exchanging the groups turns the table over and changes the signs.        *)
LEMMA DifferencesNegated ==
  ASSUME NEW w \in Nat \ {0}, NEW h \in Nat \ {0}, NEW a \in [1..h -> Int], NEW c \in [1..w -> Int],
         NEW d, d = h * w
  PROVE  Negated(Turned(h, w), Differences(c, a), Differences(a, c), d)
<1>1. ASSUME NEW q \in 1..d
      PROVE  /\ Turned(h, w)[q] \in 1..d
             /\ Differences(c, a)[q].v = 0 - Differences(a, c)[Turned(h, w)[q]].v
  <2>1. PICK r : r = Turned(h, w)[q]
    OBVIOUS
  <2>2. PICK x \in 0..w - 1, y \in 0..h - 1 :
          /\ x = (q - 1) \div h /\ y = (q - 1) % h
          /\ r \in 1..d /\ (r - 1) \div w = y /\ (r - 1) % w = x
    <3>1. r \in 1..d /\ TurnsInto(h, w, q, r)
      BY <2>1, TurnedAt
    <3> QED
      BY <3>1, Zenon DEF TurnsInto
  <2>3. Len(a) = h /\ Len(c) = w
    OBVIOUS
  <2>4. d = w * h
    OBVIOUS
  <2>5. Differences(c, a)[q].v = c[x + 1] - a[y + 1]
    <3>1. q \in 1..w * h
      BY <2>4
    <3>2. Differences(c, a)[q] = [v |-> c[(q - 1) \div h + 1] - a[((q - 1) % h) + 1]]
      BY <2>3, <3>1, Zenon DEF Differences
    <3>3. Differences(c, a)[q] = [v |-> c[x + 1] - a[y + 1]]
      BY <2>2, <3>2, Zenon
    <3> QED
      BY <3>3
  <2>6. Differences(a, c)[r].v = a[y + 1] - c[x + 1]
    <3>1. r \in 1..h * w
      BY <2>2
    <3>2. Differences(a, c)[r] = [v |-> a[(r - 1) \div w + 1] - c[((r - 1) % w) + 1]]
      BY <2>3, <3>1, Zenon DEF Differences
    <3>3. Differences(a, c)[r] = [v |-> a[y + 1] - c[x + 1]]
      BY <2>2, <3>2, Zenon
    <3> QED
      BY <3>3
  <2>7. c[x + 1] \in Int /\ a[y + 1] \in Int
    <3>1. x + 1 \in 1..w /\ y + 1 \in 1..h
      OBVIOUS
    <3> QED
      BY <3>1
  <2> QED
    BY <2>1, <2>2, <2>5, <2>6, <2>7
<1>2. OneToOne(Turned(h, w), 1..d, 1..d)
  BY TurnedIs
<1>3. ASSUME NEW q \in 1..d PROVE Differences(a, c)[q].v \in Int /\ Differences(c, a)[q].v \in Int
  <2>1. d = w * h
    OBVIOUS
  <2>2. Differences(a, c) \in [1..d -> [v : Int]]
    BY DifferencesTyped
  <2>3. Differences(c, a) \in [1..d -> [v : Int]]
    BY <2>1, DifferencesTyped
  <2> QED
    BY <2>2, <2>3
<1> QED
  BY <1>1, <1>2, <1>3, Zenon DEF Negated

LEMMA WholeInterval ==
  ASSUME NEW d \in Nat
  PROVE  IsFiniteSet(1..d) /\ Cardinality(1..d) = d
  BY FS_Interval

(* As many are at most x in r as are at least -x in s.                      *)
LEMMA UptoNegated ==
  ASSUME NEW d \in Nat, NEW f, NEW s, NEW r, Negated(f, r, s, d), NEW x \in Int, NEW y, y = 0 - x - 1
  PROVE  Upto(r, d, x) = d - Upto(s, d, y)
<1>1. /\ OneToOne(f, 1..d, 1..d)
      /\ \A q \in 1..d : s[q].v \in Int /\ r[q].v \in Int
      /\ \A q \in 1..d : f[q] \in 1..d /\ r[q].v = 0 - s[f[q]].v
  BY DEF Negated
<1>2. PICK A, B, C : /\ A = {q \in 1..d : r[q].v <= x} /\ B = {q \in 1..d : ~(s[q].v <= y)}
                     /\ C = {q \in 1..d : s[q].v <= y}
  OBVIOUS
<1>3. \A q \in 1..d : q \in A <=> f[q] \in B
  BY <1>1, <1>2
<1>4. MovesInto(f, d, A, B)
  BY <1>1, <1>2, <1>3 DEF MovesInto
<1>5. Cardinality(A) = Cardinality(B)
  BY <1>4, MovedInto
<1>6. B = (1..d) \ C /\ (1..d) \cap C = C
  BY <1>2
<1>7. IsFiniteSet(1..d) /\ Cardinality(1..d) = d
  BY WholeInterval
<1>8. Cardinality((1..d) \ C) = Cardinality(1..d) - Cardinality((1..d) \cap C)
  BY <1>7, FS_Difference
<1>9. Cardinality(B) = d - Cardinality(C)
  BY <1>6, <1>7, <1>8, Zenon
<1> QED
  BY <1>2, <1>5, <1>9, Zenon DEF Upto

(* Sorted with the signs changed, an array is turned round.                 *)
LEMMA TurnedRound ==
  ASSUME NEW d \in Nat, NEW f, NEW s, NEW r, Negated(f, r, s, d), NEW t, NEW u, NEW g, NEW h,
         SortedBy(g, t, s, d), SortedBy(h, u, r, d), NEW j \in 1..d
  PROVE  u[j].v = 0 - t[d + 1 - j].v
<1>1. PICK o : o = d + 1 - j
  OBVIOUS
<1>2. o \in 1..d
  BY <1>1
<1>3. \A i \in 1..d : t[i].v \in Int /\ u[i].v \in Int
  BY DEF SortedBy, Rising
<1>4. ASSUME NEW x \in Int PROVE u[j].v <= x <=> 0 - t[o].v <= x
  <2>1. PICK y, m : y = 0 - x - 1 /\ m = Upto(s, d, y)
    OBVIOUS
  <2>2. y \in Int
    BY <2>1
  <2>3. m \in 0..d /\ (t[o].v <= y <=> o <= m)
    BY <1>2, <2>1, <2>2, OrderStatistic
  <2>4. Upto(r, d, x) = d - m
    BY <2>1, UptoNegated
  <2>5. u[j].v <= x <=> j <= Upto(r, d, x)
    BY OrderStatistic
  <2> QED
    BY <1>1, <1>2, <1>3, <2>1, <2>3, <2>4, <2>5
<1>5. PICK x, y : x = u[j].v /\ y = 0 - t[o].v
  OBVIOUS
<1>6. x \in Int /\ y \in Int
  BY <1>2, <1>3, <1>5
<1>7. x <= y /\ y <= x
  <2>1. u[j].v <= x <=> 0 - t[o].v <= x
    BY <1>4, <1>6
  <2>2. u[j].v <= y <=> 0 - t[o].v <= y
    BY <1>4, <1>6
  <2> QED
    BY <1>5, <1>6, <2>1, <2>2
<1> QED
  BY <1>1, <1>5, <1>6, <1>7

(* The shift changes its sign.                                              *)
LEMMA ShiftTurned ==
  ASSUME NEW w \in Nat \ {0}, NEW h \in Nat \ {0}, NEW a \in [1..h -> Int], NEW c \in [1..w -> Int]
  PROVE  Tests!Shift(a, c) = 0 - Tests!Shift(c, a)
<1>1. PICK d, s, r : d = h * w /\ s = Differences(a, c) /\ r = Differences(c, a)
  OBVIOUS
<1>2. d \in Nat \ {0} /\ w * h = d /\ h * w = d /\ Len(a) = h /\ Len(c) = w
  BY <1>1
<1>3. s \in [1..d -> [v : Int]] /\ r \in [1..d -> [v : Int]] /\ Numbered([v : Int])
  <2>1. s \in [1..h * w -> [v : Int]]
    BY <1>1, DifferencesTyped
  <2>2. r \in [1..w * h -> [v : Int]]
    BY <1>1, DifferencesTyped
  <2> QED
    BY <1>2, <2>1, <2>2 DEF Numbered
<1>4. PICK t, u : t = Tests!ExchangeSorted(s) /\ u = Tests!ExchangeSorted(r)
  OBVIOUS
<1>5. PICK g : SortedBy(g, t, s, d)
  BY <1>2, <1>3, <1>4, SortMoves
<1>6. PICK e : SortedBy(e, u, r, d)
  BY <1>2, <1>3, <1>4, SortMoves
<1>7. /\ \A j \in 1..d : t[j].v \in Int /\ u[j].v \in Int
  BY <1>5, <1>6 DEF SortedBy, Rising
<1>8. Len(t) = d /\ Len(u) = d
  <2>1. t \in [1..d -> [v : Int]] /\ u \in [1..d -> [v : Int]]
    BY <1>2, <1>3, <1>4, Sorts
  <2> QED
    BY <1>2, <2>1
<1>9. Negated(Turned(h, w), r, s, d)
  BY <1>1, DifferencesNegated
<1>10. \A j \in 1..d : u[j].v = 0 - t[d + 1 - j].v
  BY <1>2, <1>5, <1>6, <1>9, TurnedRound
<1>11. /\ Tests!Shift(a, c) = IF d % 2 = 0 THEN t[d \div 2].v + t[d \div 2 + 1].v
                              ELSE 2 * t[d \div 2 + 1].v
       /\ Tests!Shift(c, a) = IF d % 2 = 0 THEN u[d \div 2].v + u[d \div 2 + 1].v
                              ELSE 2 * u[d \div 2 + 1].v
  BY <1>1, <1>4, <1>8, Zenon DEF Tests!Shift, Differences
<1>12. PICK m : m = d \div 2
  OBVIOUS
<1>13. /\ Tests!Shift(a, c) = IF d % 2 = 0 THEN t[m].v + t[m + 1].v ELSE 2 * t[m + 1].v
       /\ Tests!Shift(c, a) = IF d % 2 = 0 THEN u[m].v + u[m + 1].v ELSE 2 * u[m + 1].v
  BY <1>11, <1>12, Zenon
<1>14. CASE d % 2 = 0
  <2>1. m \in 1..d /\ m + 1 \in 1..d /\ d + 1 - m = m + 1 /\ d + 1 - (m + 1) = m
    BY <1>2, <1>12, <1>14
  <2>2. u[m].v = 0 - t[m + 1].v /\ u[m + 1].v = 0 - t[m].v
    <3>1. u[m].v = 0 - t[d + 1 - m].v /\ u[m + 1].v = 0 - t[d + 1 - (m + 1)].v
      BY <1>10, <2>1, Zenon
    <3> QED
      BY <2>1, <3>1, Zenon
  <2>3. t[m].v \in Int /\ t[m + 1].v \in Int
    BY <1>7, <2>1
  <2> QED
    BY <1>14, <1>13, <2>2, <2>3, SMTT(60)
<1>15. CASE d % 2 # 0
  <2>1. m + 1 \in 1..d /\ d + 1 - (m + 1) = m + 1
    BY <1>2, <1>12, <1>15
  <2>2. u[m + 1].v = 0 - t[m + 1].v
    <3>1. u[m + 1].v = 0 - t[d + 1 - (m + 1)].v
      BY <1>10, <2>1, Zenon
    <3> QED
      BY <2>1, <3>1, Zenon
  <2>3. t[m + 1].v \in Int
    BY <1>7, <2>1
  <2> QED
    BY <1>15, <1>13, <2>2, <2>3
<1> QED
  BY <1>14, <1>15

-----------------------------------------------------------------------------
(* The sum of the ranks.                                                    *)

(* Two parts that have nothing in common.                                   *)
LEMMA Apart ==
  ASSUME NEW S, NEW T, IsFiniteSet(S), IsFiniteSet(T), S \cap T = {}
  PROVE  /\ IsFiniteSet(S \cup T)
         /\ Cardinality(S) \in Nat /\ Cardinality(T) \in Nat
         /\ Cardinality(S \cup T) = Cardinality(S) + Cardinality(T)
<1>1. /\ IsFiniteSet(S \cup T)
      /\ Cardinality(S \cup T) = Cardinality(S) + Cardinality(T) - Cardinality(S \cap T)
  BY FS_Union
<1>2. Cardinality(S \cap T) = 0
  BY FS_EmptySet
<1>3. Cardinality(S) \in Nat /\ Cardinality(T) \in Nat
  BY FS_CardinalityType
<1> QED
  BY <1>1, <1>2, <1>3

Pairs(S, x, y) == S \subseteq (0..x) \X (0..y)

LEMMA PairsFinite ==
  ASSUME NEW x \in Nat, NEW y \in Nat, NEW S, Pairs(S, x, y)
  PROVE  IsFiniteSet(S) /\ Cardinality(S) \in Nat
<1>1. IsFiniteSet(0..x) /\ IsFiniteSet(0..y)
  BY FS_Interval
<1>2. IsFiniteSet((0..x) \X (0..y))
  BY <1>1, FS_Product
<1>3. IsFiniteSet(S)
  BY <1>2, FS_Subset DEF Pairs
<1> QED
  BY <1>3, FS_CardinalityType

(* T has the pairs of S the other way round.                                *)
Reversed(S, T) ==
  /\ \A q \in S : q = << q[1], q[2] >> /\ << q[2], q[1] >> \in T
  /\ \A q \in T : q = << q[1], q[2] >> /\ << q[2], q[1] >> \in S

LEMMA AsManyReversed ==
  ASSUME NEW x \in Nat, NEW y \in Nat, NEW S, Pairs(S, x, y), NEW T, Reversed(S, T)
  PROVE  Cardinality(T) = Cardinality(S)
<1>1. PICK f : f = [q \in S |-> << q[2], q[1] >>]
  OBVIOUS
<1>2. f \in [S -> T]
  BY <1>1 DEF Reversed
<1>3. ASSUME NEW p \in S, NEW q \in S, f[p] = f[q] PROVE p = q
  <2>1. << p[2], p[1] >> = << q[2], q[1] >> /\ p = << p[1], p[2] >> /\ q = << q[1], q[2] >>
    BY <1>1, <1>3 DEF Reversed
  <2>2. p[1] = q[1] /\ p[2] = q[2]
    BY <2>1
  <2> QED
    BY <2>1, <2>2
<1>4. ASSUME NEW q \in T PROVE \E p \in S : f[p] = q
  <2>1. q = << q[1], q[2] >> /\ << q[2], q[1] >> \in S
    BY DEF Reversed
  <2>2. f[<< q[2], q[1] >>] = << q[1], q[2] >>
    BY <1>1, <2>1
  <2> QED
    BY <2>1, <2>2
<1>5. OneToOne(f, S, T)
  BY <1>2, <1>3, <1>4, Zenon DEF OneToOne
<1> QED
  BY <1>5, PairsFinite, SameNumber

RankTo(f, t) ==
  f = [j \in 1..Len(t) |->
         IF j = 1 THEN 1 ELSE IF t[j - 1].v < t[j].v THEN j ELSE f[j - 1]]

Rank(t) == CHOOSE f : RankTo(f, t)

LEMMA RankExists ==
  ASSUME NEW len \in Nat, NEW t, Len(t) = len, Rising(t, len), NEW r, r = Rank(t)
  PROVE  \A j \in 1..len :
           r[j] = IF j = 1 THEN 1 ELSE IF t[j - 1].v < t[j].v THEN j ELSE r[j - 1]
<1>1. PICK step : step = [q \in (1..len) \X Int |->
        IF q[1] = 1 THEN 1 ELSE IF t[q[1] - 1].v < t[q[1]].v THEN q[1] ELSE q[2]]
  OBVIOUS
<1>2. step \in [(1..len) \X Int -> Int]
  BY <1>1
<1>3. PICK g \in [0..len -> Int] :
        g = [j \in 0..len |-> IF j = 0 THEN 0 ELSE step[<< j, g[j - 1] >>]]
  <2>1. 0 \in Int
    OBVIOUS
  <2>2. PICK e \in [0..len -> Int] : Steps(e, len, 0, step)
    BY <1>2, <2>1, NumbersIterate, ZenonT(60)
  <2> QED
    BY <2>2 DEF Steps
<1>4. PICK f : f = [j \in 1..len |-> g[j]]
  OBVIOUS
<1>5. ASSUME NEW j \in 1..len
      PROVE  f[j] = IF j = 1 THEN 1 ELSE IF t[j - 1].v < t[j].v THEN j ELSE f[j - 1]
  <2>1. j \in 0..len /\ j # 0 /\ j - 1 \in 0..len
    OBVIOUS
  <2>2. g[j] = step[<< j, g[j - 1] >>] /\ << j, g[j - 1] >> \in (1..len) \X Int
    BY <1>3, <2>1
  <2>3. g[j] = IF j = 1 THEN 1 ELSE IF t[j - 1].v < t[j].v THEN j ELSE g[j - 1]
    BY <1>1, <2>2
  <2>4. j # 1 => f[j - 1] = g[j - 1]
    BY <1>4
  <2>5. f[j] = g[j]
    BY <1>4
  <2> QED
    BY <2>3, <2>4, <2>5
<1>6. f = [j \in 1..len |-> f[j]]
  BY <1>4
<1>7. RankTo(f, t)
  BY <1>5, <1>6, Zenon DEF RankTo
<1>8. RankTo(r, t)
  BY <1>7, Zenon DEF Rank
<1> QED
  BY <1>8 DEF RankTo

(* The rank of a record is one more than the number of lesser ones, which   *)
(* come first.                                                              *)
Ranks(r, t, len) ==
  \A j \in 1..len : r[j] \in 1..j /\ \A i \in 1..len : t[i].v < t[j].v <=> i < r[j]

LEMMA RankIs ==
  ASSUME NEW len \in Nat, NEW t, Len(t) = len, Rising(t, len), NEW r, r = Rank(t)
  PROVE  Ranks(r, t, len)
<1>1. \A j \in 1..len :
        r[j] = IF j = 1 THEN 1 ELSE IF t[j - 1].v < t[j].v THEN j ELSE r[j - 1]
  BY RankExists, SMTT(30)
<1>2. /\ \A i \in 1..len : t[i].v \in Int
      /\ \A i, j \in 1..len : i < j => t[i].v <= t[j].v
  BY DEF Rising
<1>3. PICK S : S = {m \in 0..len : m # 0 =>
        r[m] \in 1..m /\ \A i \in 1..len : t[i].v < t[m].v <=> i < r[m]}
  OBVIOUS
<1>4. 0 \in S
  BY <1>3
<1>5. ASSUME NEW m \in 0..len - 1, m \in S PROVE m + 1 \in S
  <2>1. m + 1 \in 1..len /\ m + 1 \in 0..len /\ (m + 1) - 1 = m
    OBVIOUS
  <2>2. r[m + 1] = IF m + 1 = 1 THEN 1 ELSE IF t[(m + 1) - 1].v < t[m + 1].v THEN m + 1 ELSE r[(m + 1) - 1]
    BY <1>1, <2>1, Zenon
  <2>3. CASE m = 0
    <3>1. r[m + 1] = 1
      BY <2>2, <2>3
    <3>2. \A i \in 1..len : ~(t[i].v < t[m + 1].v)
      <4>1. ASSUME NEW i \in 1..len PROVE ~(t[i].v < t[m + 1].v)
        <5>1. i = m + 1 \/ m + 1 < i
          BY <2>3
        <5>2. t[m + 1].v <= t[i].v
          BY <1>2, <2>1, <5>1
        <5> QED
          BY <1>2, <2>1, <5>2
      <4> QED
        BY <4>1
    <3> QED
      BY <1>3, <2>1, <3>1, <3>2
  <2>4. CASE m # 0 /\ t[m].v < t[m + 1].v
    <3>0. m \in 1..len
      BY <2>4
    <3>1. r[m + 1] = m + 1
      BY <2>1, <2>2, <2>4
    <3>2. ASSUME NEW i \in 1..len PROVE t[i].v < t[m + 1].v <=> i < m + 1
      <4>1. CASE i < m + 1
        <5>1. t[i].v <= t[m].v
          BY <1>2, <3>0, <4>1
        <5> QED
          BY <1>2, <2>1, <2>4, <3>0, <4>1, <5>1
      <4>2. CASE ~(i < m + 1)
        <5>1. t[m + 1].v <= t[i].v
          BY <1>2, <2>1, <4>2
        <5> QED
          BY <1>2, <2>1, <4>2, <5>1
      <4> QED
        BY <4>1, <4>2
    <3> QED
      BY <1>3, <2>1, <3>1, <3>2
  <2>5. CASE m # 0 /\ ~(t[m].v < t[m + 1].v)
    <3>0. m \in 1..len
      BY <2>5
    <3>1. r[m + 1] = r[m]
      BY <2>1, <2>2, <2>5
    <3>2. t[m].v = t[m + 1].v
      BY <1>2, <2>1, <2>5, <3>0
    <3>3. r[m] \in 1..m /\ \A i \in 1..len : t[i].v < t[m].v <=> i < r[m]
      BY <1>3, <1>5, <2>5
    <3> QED
      BY <1>3, <2>1, <3>1, <3>2, <3>3
  <2> QED
    BY <2>3, <2>4, <2>5
<1>6. 0..len \subseteq S
  BY <1>4, <1>5, UpTo
<1>7. \A j \in 1..len : j \in S /\ j # 0
  BY <1>6
<1> QED
  BY <1>3, <1>7, Zenon DEF Ranks

SumTo(f, t, r) ==
  f = [j \in 0..Len(t) |->
         IF j = 0 THEN 0 ELSE f[j - 1] + (IF t[j].g = 0 THEN r[j] ELSE 0)]

RankSum(t, r) == CHOOSE f : SumTo(f, t, r)

LEMMA RankSumExists ==
  ASSUME NEW len \in Nat, NEW t, Len(t) = len, NEW r, Ranks(r, t, len), NEW f, f = RankSum(t, r)
  PROVE  /\ f[0] = 0
         /\ \A j \in 1..len : f[j] = f[j - 1] + (IF t[j].g = 0 THEN r[j] ELSE 0)
<1>1. \A j \in 1..len : r[j] \in Int
  BY DEF Ranks
<1>2. PICK step : step = [q \in (1..len) \X Int |-> q[2] + (IF t[q[1]].g = 0 THEN r[q[1]] ELSE 0)]
  OBVIOUS
<1>3. step \in [(1..len) \X Int -> Int]
  BY <1>1, <1>2
<1>4. PICK h \in [0..len -> Int] :
        h = [j \in 0..len |-> IF j = 0 THEN 0 ELSE step[<< j, h[j - 1] >>]]
  <2>1. 0 \in Int
    OBVIOUS
  <2>2. PICK e \in [0..len -> Int] : Steps(e, len, 0, step)
    BY <1>3, <2>1, NumbersIterate, ZenonT(60)
  <2> QED
    BY <2>2 DEF Steps
<1>5. ASSUME NEW j \in 0..len
      PROVE  h[j] = IF j = 0 THEN 0 ELSE h[j - 1] + (IF t[j].g = 0 THEN r[j] ELSE 0)
  <2>1. CASE j = 0
    BY <1>4, <2>1
  <2>2. CASE j # 0
    <3>1. j \in 1..len /\ j - 1 \in 0..len
      BY <2>2
    <3>2. h[j] = step[<< j, h[j - 1] >>] /\ << j, h[j - 1] >> \in (1..len) \X Int
      BY <1>4, <2>2, <3>1
    <3> QED
      BY <1>2, <2>2, <3>2
  <2> QED
    BY <2>1, <2>2
<1>6. h = [j \in 0..len |-> h[j]]
  OBVIOUS
<1>7. SumTo(h, t, r)
  BY <1>5, <1>6, Zenon DEF SumTo
<1>8. SumTo(f, t, r)
  BY <1>7, Zenon DEF RankSum
<1> QED
  <2>1. 0 \in 0..len /\ \A j \in 1..len : j \in 0..len /\ j # 0
    OBVIOUS
  <2> QED
    BY <1>8, <2>1 DEF SumTo

(* Under each record of the first group as many places as its rank: one of  *)
(* its own, and one for each lesser record.                                 *)
Under(t, r, m, len) ==
  {q \in (0..len) \X (1..m) : t[q[2]].g = 0 /\ q[1] < r[q[2]]}

LEMMA RankSumCounts ==
  ASSUME NEW len \in Nat, NEW t, Len(t) = len, NEW r, Ranks(r, t, len), NEW f, f = RankSum(t, r)
  PROVE  f[len] = Cardinality(Under(t, r, len, len))
<1>1. /\ f[0] = 0
      /\ \A j \in 1..len : f[j] = f[j - 1] + (IF t[j].g = 0 THEN r[j] ELSE 0)
  BY RankSumExists
<1>2. \A j \in 1..len : r[j] \in 1..len
  <2>1. \A j \in 1..len : r[j] \in 1..j
    BY DEF Ranks
  <2> QED
    BY <2>1
<1>3. PICK S : S = {m \in 0..len : f[m] = Cardinality(Under(t, r, m, len))}
  OBVIOUS
<1>4. 0 \in S
  <2>1. Under(t, r, 0, len) = {}
    BY DEF Under
  <2> QED
    BY <1>1, <1>3, <2>1, FS_EmptySet
<1>5. ASSUME NEW m \in 0..len - 1, m \in S PROVE m + 1 \in S
  <2>1. m + 1 \in 1..len /\ m + 1 \in 0..len /\ (m + 1) - 1 = m
    OBVIOUS
  <2>2. f[m + 1] = f[(m + 1) - 1] + (IF t[m + 1].g = 0 THEN r[m + 1] ELSE 0)
    BY <1>1, <2>1, Zenon
  <2>3. PICK A, C : A = Under(t, r, m, len) /\ C = Under(t, r, m + 1, len)
    OBVIOUS
  <2>4. f[m] = Cardinality(A)
    BY <1>3, <1>5, <2>3
  <2>5. IsFiniteSet(A) /\ Cardinality(A) \in Nat
    <3>1. Pairs(A, len, len)
      BY <2>3 DEF Pairs, Under
    <3> QED
      BY <3>1, PairsFinite
  <2>6. CASE t[m + 1].g # 0
    <3>1. C = A
      <4>1. \A j \in 1..m + 1 : t[j].g = 0 => j \in 1..m
        BY <2>6
      <4> QED
        BY <2>3, <4>1 DEF Under
    <3> QED
      BY <1>3, <2>1, <2>2, <2>3, <2>4, <2>5, <2>6, <3>1
  <2>7. CASE t[m + 1].g = 0
    <3>1. PICK z : z = r[m + 1]
      OBVIOUS
    <3>2. z \in 1..len
      BY <1>2, <2>1, <3>1
    <3>3. PICK B : B = (0..z - 1) \X {m + 1}
      OBVIOUS
    <3>4. IsFiniteSet(B) /\ Cardinality(B) = z
      <4>1. IsFiniteSet(0..z - 1) /\ Cardinality(0..z - 1) = z
        BY <3>2, FS_Interval
      <4>2. IsFiniteSet({m + 1}) /\ Cardinality({m + 1}) = 1
        BY FS_Singleton
      <4>3. IsFiniteSet(B) /\ Cardinality(B) = z * 1
        BY <3>3, <4>1, <4>2, FS_Product, ZenonT(60)
      <4> QED
        BY <3>2, <4>3
    <3>5. A \cap B = {}
      BY <2>3, <3>3 DEF Under
    <3>6. C = A \cup B
      <4>1. ASSUME NEW q \in C PROVE q \in A \cup B
        <5>1. /\ q \in (0..len) \X (1..m + 1) /\ q = << q[1], q[2] >>
              /\ t[q[2]].g = 0 /\ q[1] < r[q[2]]
          BY <2>3 DEF Under
        <5>2. CASE q[2] = m + 1
          <6>1. q[1] \in 0..z - 1
            BY <3>1, <3>2, <5>1, <5>2
          <6> QED
            BY <3>3, <5>1, <5>2, <6>1
        <5>3. CASE q[2] # m + 1
          <6>1. q \in (0..len) \X (1..m)
            BY <5>1, <5>3
          <6> QED
            BY <2>3, <5>1, <6>1 DEF Under
        <5> QED
          BY <5>2, <5>3
      <4>2. ASSUME NEW q \in A PROVE q \in C
        BY <2>3 DEF Under
      <4>3. ASSUME NEW q \in B PROVE q \in C
        <5>1. q = << q[1], q[2] >> /\ q[1] \in 0..z - 1 /\ q[2] = m + 1
          BY <3>3
        <5>2. q \in (0..len) \X (1..m + 1) /\ q[1] < z
          BY <2>1, <3>2, <5>1
        <5> QED
          BY <2>3, <2>7, <3>1, <5>1, <5>2 DEF Under
      <4> QED
        BY <4>1, <4>2, <4>3
    <3>7. Cardinality(C) = Cardinality(A) + z
      BY <2>5, <3>4, <3>5, <3>6, Apart
    <3>8. f[m + 1] = f[m] + z
      BY <2>1, <2>2, <2>7, <3>1
    <3> QED
      BY <1>3, <2>1, <2>3, <2>4, <3>7, <3>8
  <2> QED
    BY <2>6, <2>7
<1>6. 0..len \subseteq S
  BY <1>4, <1>5, UpTo
<1>7. len \in S
  BY <1>6
<1> QED
  BY <1>3, <1>7

(* The same in the order before the sort.                                   *)
Below(s, len) ==
  {q \in (0..len) \X (1..len) : s[q[2]].g = 0 /\ (q[1] = 0 \/ s[q[1]].v < s[q[2]].v)}

LEMMA UnderIsBelow ==
  ASSUME NEW len \in Nat, NEW s, NEW t, NEW f, SortedBy(f, t, s, len), NEW r, Ranks(r, t, len)
  PROVE  Cardinality(Under(t, r, len, len)) = Cardinality(Below(s, len))
<1>1. /\ OneToOne(f, 1..len, 1..len)
      /\ \A j \in 1..len : f[j] \in 1..len /\ t[j] = s[f[j]]
  BY Zenon DEF SortedBy
<1>2. /\ \A i, j \in 1..len : f[i] = f[j] => i = j
      /\ \A i \in 1..len : \E j \in 1..len : f[j] = i
  BY <1>1, Zenon DEF OneToOne
<1>3. PICK e : e = [j \in 0..len |-> IF j = 0 THEN 0 ELSE f[j]]
  OBVIOUS
<1>4. /\ \A j \in 0..len : e[j] \in 0..len /\ (e[j] = 0 <=> j = 0)
      /\ e[0] = 0 /\ \A j \in 1..len : e[j] = f[j]
  BY <1>1, <1>3
<1>5. \A i, j \in 0..len : e[i] = e[j] => i = j
  <2>1. ASSUME NEW i \in 0..len, NEW j \in 0..len, e[i] = e[j] PROVE i = j
    <3>1. CASE i = 0 \/ j = 0
      BY <1>4, <2>1, <3>1
    <3>2. CASE i # 0 /\ j # 0
      <4>1. i \in 1..len /\ j \in 1..len
        BY <3>2
      <4> QED
        BY <1>2, <1>4, <2>1, <4>1
    <3> QED
      BY <3>1, <3>2
  <2> QED
    BY <2>1
<1>6. PICK U, W : U = Under(t, r, len, len) /\ W = Below(s, len)
  OBVIOUS
<1>7. ASSUME NEW x \in 0..len, NEW y \in 1..len
      PROVE  << x, y >> \in U <=> << e[x], f[y] >> \in W
  <2>1. << x, y >> \in U <=> t[y].g = 0 /\ x < r[y]
    BY <1>6 DEF Under
  <2>2. << e[x], f[y] >> \in W <=> s[f[y]].g = 0 /\ (e[x] = 0 \/ s[e[x]].v < s[f[y]].v)
    BY <1>1, <1>4, <1>6 DEF Below
  <2>3. t[y] = s[f[y]]
    BY <1>1
  <2>4. r[y] \in 1..y /\ \A i \in 1..len : t[i].v < t[y].v <=> i < r[y]
    BY Zenon DEF Ranks
  <2>5. CASE x = 0
    <3>1. e[x] = 0 /\ x < r[y]
      BY <1>4, <2>4, <2>5
    <3> QED
      BY <2>1, <2>2, <2>3, <3>1
  <2>6. CASE x # 0
    <3>1. x \in 1..len
      BY <2>6
    <3>2. e[x] # 0 /\ e[x] = f[x] /\ t[x] = s[f[x]]
      BY <1>1, <1>4, <3>1, <2>6
    <3>3. x < r[y] <=> s[e[x]].v < s[f[y]].v
      BY <2>3, <2>4, <3>1, <3>2
    <3> QED
      BY <2>1, <2>2, <2>3, <3>2, <3>3
  <2> QED
    BY <2>5, <2>6
<1>8. PICK g : g = [q \in U |-> << e[q[1]], f[q[2]] >>]
  OBVIOUS
<1>9. /\ \A q \in U : q = << q[1], q[2] >> /\ q[1] \in 0..len /\ q[2] \in 1..len
      /\ \A q \in W : q = << q[1], q[2] >> /\ q[1] \in 0..len /\ q[2] \in 1..len
  BY <1>6 DEF Under, Below
<1>10. ASSUME NEW q \in U PROVE g[q] = << e[q[1]], f[q[2]] >> /\ g[q] \in W
  BY <1>7, <1>8, <1>9
<1>11. g \in [U -> W]
  BY <1>8, <1>10
<1>12. ASSUME NEW p \in U, NEW q \in U, g[p] = g[q] PROVE p = q
  <2>1. e[p[1]] = e[q[1]] /\ f[p[2]] = f[q[2]]
    BY <1>10, <1>12
  <2>2. /\ p = << p[1], p[2] >> /\ p[1] \in 0..len /\ p[2] \in 1..len
        /\ q = << q[1], q[2] >> /\ q[1] \in 0..len /\ q[2] \in 1..len
    BY <1>9
  <2>3. p[1] = q[1]
    BY <1>5, <2>1, <2>2
  <2>4. p[2] = q[2]
    BY <1>2, <2>1, <2>2
  <2> QED
    BY <2>2, <2>3, <2>4
<1>13. ASSUME NEW q \in W PROVE \E p \in U : g[p] = q
  <2>1. PICK y \in 1..len : f[y] = q[2]
    BY <1>2, <1>9
  <2>2. PICK x \in 0..len : e[x] = q[1]
    <3>1. CASE q[1] = 0
      BY <1>4, <3>1
    <3>2. CASE q[1] # 0
      <4>1. q[1] \in 1..len
        BY <1>9, <3>2
      <4>2. PICK x \in 1..len : f[x] = q[1]
        BY <1>2, <4>1
      <4> QED
        BY <1>4, <4>2
    <3> QED
      BY <3>1, <3>2
  <2>3. << x, y >> \in U
    BY <1>7, <1>9, <2>1, <2>2
  <2>4. g[<< x, y >>] = q
    BY <1>9, <1>10, <2>1, <2>2, <2>3
  <2> QED
    BY <2>3, <2>4
<1>14. OneToOne(g, U, W)
  BY <1>11, <1>12, <1>13, Zenon DEF OneToOne
<1>15. Pairs(U, len, len)
  BY <1>6 DEF Pairs, Under
<1> QED
  BY <1>6, <1>14, <1>15, PairsFinite, SameNumber

(* The first group and then the second.                                     *)
Joined(s, a, c, n1, n2) ==
  /\ \A j \in 1..n1 : s[j].v = a[j] /\ s[j].g = 0
  /\ \A j \in 1..n2 : s[n1 + j].v = c[j] /\ s[n1 + j].g = 1

Ahead(a, c, n1, n2) == {q \in (1..n1) \X (1..n2) : a[q[1]] > c[q[2]]}

Lesser(a, n1) == {q \in (1..n1) \X (1..n1) : a[q[1]] < a[q[2]]}

Even(a, n1) == {q \in (1..n1) \X (1..n1) : q[1] < q[2] /\ a[q[1]] = a[q[2]]}

LEMMA BelowInParts ==
  ASSUME NEW n1 \in Nat, NEW n2 \in Nat, NEW len, len = n1 + n2,
         NEW a \in [1..n1 -> Int], NEW c \in [1..n2 -> Int], NEW s, Joined(s, a, c, n1, n2)
  PROVE  /\ Cardinality(Lesser(a, n1)) \in Nat /\ Cardinality(Ahead(a, c, n1, n2)) \in Nat
         /\ Cardinality(Below(s, len))
              = n1 + Cardinality(Lesser(a, n1)) + Cardinality(Ahead(a, c, n1, n2))
<1>1. /\ \A j \in 1..n1 : s[j].v = a[j] /\ s[j].g = 0
      /\ \A j \in 1..n2 : s[n1 + j].v = c[j] /\ s[n1 + j].g = 1
  BY Zenon DEF Joined
<1>2. PICK W, Z, L, B, A :
        /\ W = Below(s, len) /\ Z = {0} \X (1..n1) /\ L = Lesser(a, n1)
        /\ B = {q \in (n1 + 1..len) \X (1..n1) : c[q[1] - n1] < a[q[2]]}
        /\ A = Ahead(a, c, n1, n2)
  OBVIOUS
<1>3. len \in Nat /\ n1 <= len
  OBVIOUS
<1>4. \A j \in 1..len : \/ j \in 1..n1 /\ s[j].v = a[j] /\ s[j].g = 0
                        \/ /\ j \in n1 + 1..len /\ j - n1 \in 1..n2
                           /\ s[j].v = c[j - n1] /\ s[j].g = 1
  <2>1. ASSUME NEW j \in 1..len, ~(j \in 1..n1)
        PROVE  j \in n1 + 1..len /\ j - n1 \in 1..n2 /\ s[j].v = c[j - n1] /\ s[j].g = 1
    <3>1. j \in n1 + 1..len /\ j - n1 \in 1..n2 /\ n1 + (j - n1) = j
      BY <2>1
    <3>2. s[n1 + (j - n1)].v = c[j - n1] /\ s[n1 + (j - n1)].g = 1
      BY <1>1, <3>1, Zenon
    <3> QED
      BY <3>1, <3>2
  <2> QED
    BY <1>1, <2>1
<1>5. /\ \A q \in W : /\ q = << q[1], q[2] >> /\ q[1] \in 0..len /\ q[2] \in 1..n1
                      /\ q[1] = 0 \/ s[q[1]].v < a[q[2]]
      /\ \A x \in 0..len, y \in 1..n1 : (x = 0 \/ s[x].v < a[y]) => << x, y >> \in W
  <2>1. ASSUME NEW q \in W
        PROVE  /\ q = << q[1], q[2] >> /\ q[1] \in 0..len /\ q[2] \in 1..n1
               /\ q[1] = 0 \/ s[q[1]].v < a[q[2]]
    <3>1. /\ q = << q[1], q[2] >> /\ q[1] \in 0..len /\ q[2] \in 1..len
          /\ s[q[2]].g = 0 /\ (q[1] = 0 \/ s[q[1]].v < s[q[2]].v)
      BY <1>2 DEF Below
    <3>2. q[2] \in 1..n1 /\ s[q[2]].v = a[q[2]]
      <4>1. 0 # 1
        OBVIOUS
      <4> QED
        BY <1>4, <3>1, <4>1
    <3> QED
      BY <3>1, <3>2
  <2>2. ASSUME NEW x \in 0..len, NEW y \in 1..n1, x = 0 \/ s[x].v < a[y] PROVE << x, y >> \in W
    <3>1. y \in 1..len /\ s[y].v = a[y] /\ s[y].g = 0
      BY <1>1, <1>3
    <3> QED
      BY <1>2, <2>2, <3>1 DEF Below
  <2> QED
    BY <2>1, <2>2
<1>6. W = (Z \cup L) \cup B
  <2>1. ASSUME NEW q \in W PROVE q \in (Z \cup L) \cup B
    <3>1. /\ q = << q[1], q[2] >> /\ q[1] \in 0..len /\ q[2] \in 1..n1
          /\ q[1] = 0 \/ s[q[1]].v < a[q[2]]
      BY <1>5
    <3>2. CASE q[1] = 0
      BY <1>2, <3>1, <3>2
    <3>3. CASE q[1] \in 1..n1 /\ s[q[1]].v < a[q[2]]
      <4>1. a[q[1]] < a[q[2]]
        BY <1>1, <3>3
      <4> QED
        BY <1>2, <3>1, <3>3, <4>1 DEF Lesser
    <3>4. CASE q[1] \in n1 + 1..len /\ s[q[1]].v < a[q[2]]
      <4>0. q[1] \in 1..len /\ ~(q[1] \in 1..n1)
        BY <1>3, <3>4
      <4>1. s[q[1]].v = c[q[1] - n1]
        BY <1>4, <4>0
      <4>2. q \in (n1 + 1..len) \X (1..n1) /\ c[q[1] - n1] < a[q[2]]
        BY <3>1, <3>4, <4>1
      <4> QED
        BY <1>2, <4>2
    <3>5. q[1] \in 0..len => q[1] = 0 \/ q[1] \in 1..n1 \/ q[1] \in n1 + 1..len
      BY <1>3
    <3> QED
      BY <3>1, <3>2, <3>3, <3>4, <3>5
  <2>2. ASSUME NEW q \in Z PROVE q \in W
    <3>1. q = << q[1], q[2] >> /\ q[1] = 0 /\ q[2] \in 1..n1 /\ q[1] \in 0..len
      BY <1>2, <1>3
    <3> QED
      BY <1>5, <3>1
  <2>3. ASSUME NEW q \in L PROVE q \in W
    <3>1. q = << q[1], q[2] >> /\ q[1] \in 1..n1 /\ q[2] \in 1..n1 /\ a[q[1]] < a[q[2]]
      BY <1>2 DEF Lesser
    <3>2. q[1] \in 0..len /\ s[q[1]].v = a[q[1]]
      BY <1>1, <1>3, <3>1
    <3>3. s[q[1]].v < a[q[2]]
      BY <3>1, <3>2
    <3>4. << q[1], q[2] >> \in W
      BY <1>5, <3>1, <3>2, <3>3
    <3> QED
      BY <3>1, <3>4
  <2>4. ASSUME NEW q \in B PROVE q \in W
    <3>1. q = << q[1], q[2] >> /\ q[1] \in n1 + 1..len /\ q[2] \in 1..n1 /\ c[q[1] - n1] < a[q[2]]
      BY <1>2
    <3>2. q[1] \in 1..len /\ q[1] \in 0..len /\ ~(q[1] \in 1..n1)
      BY <1>3, <3>1
    <3>3. s[q[1]].v = c[q[1] - n1]
      BY <1>4, <3>2
    <3>4. s[q[1]].v < a[q[2]]
      BY <3>1, <3>3
    <3>5. << q[1], q[2] >> \in W
      BY <1>5, <3>1, <3>2, <3>4
    <3> QED
      BY <3>1, <3>5
  <2> QED
    BY <2>1, <2>2, <2>3, <2>4
<1>7. Z \cap L = {} /\ (Z \cup L) \cap B = {}
  BY <1>2, <1>3 DEF Lesser
<1>8. IsFiniteSet(Z) /\ Cardinality(Z) = n1
  <2>0. IsFiniteSet({0}) /\ Cardinality({0}) = 1
    BY FS_Singleton
  <2>1. IsFiniteSet(1..n1) /\ Cardinality(1..n1) = n1
    BY FS_Interval
  <2>2. IsFiniteSet(Z) /\ Cardinality(Z) = 1 * n1
    BY <1>2, <2>0, <2>1, FS_Product, ZenonT(60)
  <2> QED
    BY <2>2
<1>9. Pairs(L, n1, n1) /\ Pairs(B, len, n1) /\ Pairs(A, n1, n2)
  BY <1>2, <1>3 DEF Pairs, Lesser, Ahead
<1>10. IsFiniteSet(L) /\ IsFiniteSet(B) /\ IsFiniteSet(A)
  BY <1>3, <1>9, PairsFinite
<1>11. Cardinality(B) = Cardinality(A)
  <2>1. PICK g : g = [q \in B |-> << q[2], q[1] - n1 >>]
    OBVIOUS
  <2>2. ASSUME NEW q \in B
        PROVE  /\ q = << q[1], q[2] >> /\ q[1] \in n1 + 1..len
               /\ g[q] = << q[2], q[1] - n1 >> /\ g[q] \in A
    <3>1. q = << q[1], q[2] >> /\ q[1] \in n1 + 1..len /\ q[2] \in 1..n1 /\ c[q[1] - n1] < a[q[2]]
      BY <1>2
    <3>2. q[1] - n1 \in 1..n2
      BY <1>3, <3>1
    <3>3. c[q[1] - n1] \in Int /\ a[q[2]] \in Int
      BY <3>1, <3>2
    <3>4. << q[2], q[1] - n1 >> \in A
      BY <1>2, <3>1, <3>2, <3>3 DEF Ahead
    <3> QED
      BY <2>1, <3>1, <3>4
  <2>3. g \in [B -> A]
    BY <2>1, <2>2
  <2>4. ASSUME NEW p \in B, NEW q \in B, g[p] = g[q] PROVE p = q
    <3>1. p[2] = q[2] /\ p[1] - n1 = q[1] - n1
      BY <2>2, <2>4
    <3>2. p[1] \in Int /\ q[1] \in Int
      BY <2>2
    <3>3. p[1] = q[1]
      BY <3>1, <3>2
    <3> QED
      BY <2>2, <3>1, <3>3
  <2>5. ASSUME NEW q \in A PROVE \E p \in B : g[p] = q
    <3>1. q = << q[1], q[2] >> /\ q[1] \in 1..n1 /\ q[2] \in 1..n2 /\ a[q[1]] > c[q[2]]
      BY <1>2 DEF Ahead
    <3>2. PICK x : x = n1 + q[2]
      OBVIOUS
    <3>3. x \in n1 + 1..len /\ x - n1 = q[2]
      BY <1>3, <3>1, <3>2
    <3>4. c[q[2]] \in Int /\ a[q[1]] \in Int
      BY <3>1
    <3>5. << x, q[1] >> \in B
      BY <1>2, <3>1, <3>3, <3>4
    <3>6. g[<< x, q[1] >>] = << q[1], q[2] >>
      BY <2>1, <3>3, <3>5
    <3> QED
      BY <3>1, <3>5, <3>6
  <2>6. OneToOne(g, B, A)
    BY <2>3, <2>4, <2>5, Zenon DEF OneToOne
  <2> QED
    BY <2>6, <1>10, SameNumber
<1>12. IsFiniteSet(Z \cup L) /\ Cardinality(L) \in Nat /\ Cardinality(Z \cup L) = n1 + Cardinality(L)
  BY <1>7, <1>8, <1>10, Apart
<1>13. Cardinality(B) \in Nat /\ Cardinality(W) = n1 + Cardinality(L) + Cardinality(B)
  BY <1>6, <1>7, <1>10, <1>12, Apart
<1> QED
  BY <1>2, <1>11, <1>12, <1>13

(* Of two samples of the group either one is the lesser or they are equal.  *)
LEMMA Square ==
  ASSUME NEW n1 \in Nat, NEW a \in [1..n1 -> Int]
  PROVE  /\ Cardinality(Even(a, n1)) \in Nat
         /\ (n1 * (n1 + 1)) \div 2 = n1 + Cardinality(Lesser(a, n1)) + Cardinality(Even(a, n1))
<1>1. PICK Q : Q = (1..n1) \X (1..n1)
  OBVIOUS
<1>2. PICK L, E, Up, Down, Diag, LU, LD, LT :
        /\ L = Lesser(a, n1) /\ E = Even(a, n1)
        /\ Up = {q \in Q : q[1] < q[2]} /\ Down = {q \in Q : q[2] < q[1]}
        /\ Diag = {q \in Q : q[1] = q[2]}
        /\ LU = {q \in Up : a[q[1]] < a[q[2]]} /\ LD = {q \in Down : a[q[1]] < a[q[2]]}
        /\ LT = {q \in Up : a[q[2]] < a[q[1]]}
  OBVIOUS
<1>3. \A q \in Q : /\ q = << q[1], q[2] >> /\ q[1] \in 1..n1 /\ q[2] \in 1..n1
                   /\ a[q[1]] \in Int /\ a[q[2]] \in Int /\ << q[2], q[1] >> \in Q
  BY <1>1
<1>4. \A q \in Q : /\ q[1] = q[2] \/ q[1] < q[2] \/ q[2] < q[1]
                   /\ a[q[1]] < a[q[2]] \/ a[q[2]] < a[q[1]] \/ a[q[1]] = a[q[2]]
                   /\ ~(q[1] < q[2] /\ q[2] < q[1]) /\ ~(q[1] = q[2] /\ q[1] < q[2])
                   /\ ~(q[1] = q[2] /\ q[2] < q[1])
                   /\ ~(q[1] = q[2] /\ a[q[1]] < a[q[2]])
  <2>1. ASSUME NEW q \in Q
        PROVE  /\ q[1] = q[2] \/ q[1] < q[2] \/ q[2] < q[1]
               /\ a[q[1]] < a[q[2]] \/ a[q[2]] < a[q[1]] \/ a[q[1]] = a[q[2]]
               /\ ~(q[1] < q[2] /\ q[2] < q[1]) /\ ~(q[1] = q[2] /\ q[1] < q[2])
               /\ ~(q[1] = q[2] /\ q[2] < q[1])
               /\ ~(q[1] = q[2] /\ a[q[1]] < a[q[2]])
    <3>1. PICK x, y : x = q[1] /\ y = q[2]
      OBVIOUS
    <3>2. x \in 1..n1 /\ y \in 1..n1
      BY <1>3, <3>1
    <3>3. PICK u, w : u = a[x] /\ w = a[y]
      OBVIOUS
    <3>4. u \in Int /\ w \in Int
      BY <1>3, <3>1, <3>3
    <3>5. (u < w \/ w < u \/ u = w) /\ (x < y \/ y < x \/ x = y) /\ ~(x < y /\ y < x)
          /\ ~(x = y /\ x < y) /\ ~(x = y /\ y < x)
      BY <3>2, <3>4
    <3>6. ~(x = y /\ u < w)
      BY <3>3, <3>4
    <3> QED
      BY <3>1, <3>3, <3>5, <3>6, Zenon
  <2> QED
    BY <2>1
<1>5. /\ Pairs(L, n1, n1) /\ Pairs(E, n1, n1) /\ Pairs(Up, n1, n1) /\ Pairs(Down, n1, n1)
      /\ Pairs(Diag, n1, n1) /\ Pairs(LU, n1, n1) /\ Pairs(LD, n1, n1) /\ Pairs(LT, n1, n1)
  <2>1. \A q \in Q : q \in (0..n1) \X (0..n1)
    BY <1>1
  <2>2. L \subseteq Q /\ E \subseteq Q
    BY <1>1, <1>2 DEF Lesser, Even
  <2> QED
    BY <1>2, <2>1, <2>2 DEF Pairs
<1>6. /\ IsFiniteSet(L) /\ IsFiniteSet(E) /\ IsFiniteSet(Up) /\ IsFiniteSet(Down)
      /\ IsFiniteSet(Diag) /\ IsFiniteSet(LU) /\ IsFiniteSet(LD) /\ IsFiniteSet(LT)
  BY <1>5, PairsFinite
<1>7. Cardinality(Down) = Cardinality(Up) /\ Cardinality(LT) = Cardinality(LD)
  <2>1. Reversed(Up, Down)
    BY <1>2, <1>3 DEF Reversed
  <2>2. Reversed(LD, LT)
    BY <1>2, <1>3 DEF Reversed
  <2> QED
    BY <1>5, <2>1, <2>2, AsManyReversed
<1>8. Cardinality(Diag) = n1
  <2>1. PICK g : g = [j \in 1..n1 |-> << j, j >>]
    OBVIOUS
  <2>2. g \in [1..n1 -> Diag]
    BY <1>1, <1>2, <2>1
  <2>3. ASSUME NEW i \in 1..n1, NEW j \in 1..n1, g[i] = g[j] PROVE i = j
    BY <2>1, <2>3
  <2>4. ASSUME NEW q \in Diag PROVE \E j \in 1..n1 : g[j] = q
    <3>1. q = << q[1], q[1] >> /\ q[1] \in 1..n1
      BY <1>2, <1>3
    <3> QED
      BY <2>1, <3>1
  <2>5. OneToOne(g, 1..n1, Diag)
    BY <2>2, <2>3, <2>4, Zenon DEF OneToOne
  <2>6. IsFiniteSet(1..n1) /\ Cardinality(1..n1) = n1
    BY FS_Interval
  <2> QED
    BY <2>5, <2>6, SameNumber
<1>9. Cardinality(L) = Cardinality(LU) + Cardinality(LD)
  <2>1. L = LU \cup LD
    <3>1. \A q \in Q : a[q[1]] < a[q[2]] => q[1] < q[2] \/ q[2] < q[1]
      <4>1. ASSUME NEW q \in Q, a[q[1]] < a[q[2]] PROVE q[1] < q[2] \/ q[2] < q[1]
        BY <1>4, <4>1, Zenon
      <4> QED
        BY <4>1
    <3> QED
      BY <1>1, <1>2, <3>1 DEF Lesser
  <2>2. LU \cap LD = {}
    BY <1>2, <1>4
  <2> QED
    BY <1>6, <2>1, <2>2, Apart
<1>10. Cardinality(Up) = Cardinality(LU) + Cardinality(LT) + Cardinality(E)
  <2>1. Up = (LU \cup LT) \cup E
    BY <1>1, <1>2, <1>4 DEF Even
  <2>2. LU \cap LT = {} /\ (LU \cup LT) \cap E = {}
    BY <1>1, <1>2, <1>3 DEF Even
  <2>3. IsFiniteSet(LU \cup LT) /\ Cardinality(LU \cup LT) = Cardinality(LU) + Cardinality(LT)
    BY <1>6, <2>2, Apart
  <2> QED
    BY <1>6, <2>1, <2>2, <2>3, Apart
<1>11. n1 * n1 = n1 + Cardinality(Up) + Cardinality(Down)
  <2>1. Q = (Diag \cup Up) \cup Down
    <3>1. ASSUME NEW q \in Q PROVE q \in (Diag \cup Up) \cup Down
      <4>1. q[1] = q[2] \/ q[1] < q[2] \/ q[2] < q[1]
        BY <1>4, Zenon
      <4> QED
        BY <1>2, <4>1
    <3>2. ASSUME NEW q \in (Diag \cup Up) \cup Down PROVE q \in Q
      BY <1>2
    <3> QED
      BY <3>1, <3>2
  <2>2. Diag \cap Up = {} /\ (Diag \cup Up) \cap Down = {}
    BY <1>2, <1>4
  <2>3. IsFiniteSet(Diag \cup Up) /\ Cardinality(Diag \cup Up) = n1 + Cardinality(Up)
    BY <1>6, <1>8, <2>2, Apart
  <2>4. Cardinality(Q) = n1 + Cardinality(Up) + Cardinality(Down)
    BY <1>6, <2>1, <2>2, <2>3, Apart
  <2>5. IsFiniteSet(1..n1) /\ Cardinality(1..n1) = n1
    BY FS_Interval
  <2>6. Cardinality(Q) = n1 * n1
    BY <1>1, <2>5, FS_Product
  <2> QED
    BY <2>4, <2>6
<1>12. PICK l, e, u, x, y : /\ l = Cardinality(L) /\ e = Cardinality(E) /\ u = Cardinality(Up)
                            /\ x = Cardinality(LU) /\ y = Cardinality(LD)
  OBVIOUS
<1>13. l \in Nat /\ e \in Nat /\ u \in Nat /\ x \in Nat /\ y \in Nat
  BY <1>6, <1>12, FS_CardinalityType
<1>14. n1 * n1 = n1 + u + u /\ u = l + e
  BY <1>7, <1>9, <1>10, <1>11, <1>12, <1>13
<1>15. n1 * (n1 + 1) = 2 * (n1 + l + e)
  <2>1. n1 * (n1 + 1) = n1 * n1 + n1
    OBVIOUS
  <2> QED
    BY <1>13, <1>14, <2>1
<1>16. (2 * (n1 + l + e)) \div 2 = n1 + l + e
  <2>1. PICK z : z = n1 + l + e
    OBVIOUS
  <2>2. z \in Nat
    BY <1>13, <2>1
  <2>3. (2 * z) \div 2 = z
    BY <2>2
  <2> QED
    BY <2>1, <2>3
<1> QED
  BY <1>2, <1>12, <1>13, <1>15, <1>16

(* u1 of two groups.                                                        *)
LEMMA RankSumLessLeast ==
  ASSUME NEW n1 \in Nat, NEW n2 \in Nat, NEW a \in [1..n1 -> Int], NEW c \in [1..n2 -> Int]
  PROVE  Tests!U1(a, c) = Cardinality(Ahead(a, c, n1, n2)) - Cardinality(Even(a, n1))
<1>1. PICK R, s1, s2, s, len :
        /\ R = [v : Int, g : 0..1] /\ len = n1 + n2
        /\ s1 = [j \in 1..n1 |-> [v |-> a[j], g |-> 0]]
        /\ s2 = [j \in 1..n2 |-> [v |-> c[j], g |-> 1]]
        /\ s = s1 \o s2
  OBVIOUS
<1>2. /\ Len(a) = n1 /\ Len(c) = n2 /\ DOMAIN a = 1..n1 /\ DOMAIN c = 1..n2
      /\ len \in Nat
  BY <1>1
<1>3. /\ s1 \in [1..n1 -> R] /\ \A j \in 1..n1 : s1[j].v = a[j] /\ s1[j].g = 0
      /\ s2 \in [1..n2 -> R] /\ \A j \in 1..n2 : s2[j].v = c[j] /\ s2[j].g = 1
  BY <1>1
<1>4. /\ s \in [1..len -> R]
      /\ \A j \in 1..n1 : s[j] = s1[j]
      /\ \A j \in 1..n2 : s[n1 + j] = s2[j]
  <2>1. s1 \in Seq(R) /\ s2 \in Seq(R) /\ Len(s1) = n1 /\ Len(s2) = n2
    BY <1>3
  <2>2. s \in Seq(R) /\ Len(s) = len
    BY <1>1, <2>1
  <2>3. \A j \in 1..n1 : s[j] = s1[j]
    BY <1>1, <2>1
  <2>4. \A j \in 1..n2 : s[n1 + j] = s2[j]
    BY <1>1, <2>1
  <2> QED
    BY <2>2, <2>3, <2>4
<1>5. Joined(s, a, c, n1, n2)
  BY <1>3, <1>4, SMTT(30) DEF Joined
<1>6. Numbered(R)
  BY <1>1 DEF Numbered
<1>7. PICK t : t = Tests!ExchangeSorted(s)
  OBVIOUS
<1>8. PICK f : SortedBy(f, t, s, len)
  BY <1>2, <1>4, <1>6, <1>7, SortMoves
<1>9. t \in [1..len -> R] /\ Len(t) = len
  BY <1>2, <1>4, <1>6, <1>7, Sorts
<1>10. Rising(t, len)
  BY <1>8, Zenon DEF SortedBy
<1>11. PICK r, e : r = Rank(t) /\ e = RankSum(t, r)
  OBVIOUS
<1>12. Ranks(r, t, len)
  BY <1>2, <1>9, <1>10, <1>11, RankIs
<1>13. e[len] = Cardinality(Under(t, r, len, len))
  BY <1>2, <1>9, <1>11, <1>12, RankSumCounts
<1>14. e[len] = Cardinality(Below(s, len))
  BY <1>2, <1>8, <1>12, <1>13, UnderIsBelow
<1>15. PICK l, h, o : /\ l = Cardinality(Lesser(a, n1)) /\ h = Cardinality(Ahead(a, c, n1, n2))
                      /\ o = Cardinality(Even(a, n1))
  OBVIOUS
<1>16. l \in Nat /\ h \in Nat /\ e[len] = n1 + l + h
  <2>1. len = n1 + n2
    BY <1>1
  <2>2. /\ Cardinality(Lesser(a, n1)) \in Nat /\ Cardinality(Ahead(a, c, n1, n2)) \in Nat
        /\ Cardinality(Below(s, len))
             = n1 + Cardinality(Lesser(a, n1)) + Cardinality(Ahead(a, c, n1, n2))
    BY <2>1, <1>5, BelowInParts
  <2> QED
    BY <1>14, <1>15, <2>2
<1>17. o \in Nat /\ (n1 * (n1 + 1)) \div 2 = n1 + l + o
  BY <1>15, Square
<1>18. Tests!U1(a, c) = e[len] - (n1 * (n1 + 1)) \div 2
  <2>1. Tests!ExchangeSorted([j \in DOMAIN a |-> [v |-> a[j], g |-> 0]]
                             \o [j \in DOMAIN c |-> [v |-> c[j], g |-> 1]]) = t
    BY <1>1, <1>2, <1>7
  <2> DEFINE both == Tests!ExchangeSorted([j \in DOMAIN a |-> [v |-> a[j], g |-> 0]]
                                          \o [j \in DOMAIN c |-> [v |-> c[j], g |-> 1]])
  <2>2. Tests!U1(a, c) = RankSum(both, Rank(both))[Len(both)] - (Len(a) * (Len(a) + 1)) \div 2
    BY Zenon DEF Tests!U1, Rank, RankTo, RankSum, SumTo
  <2>3. both = t
    BY <2>1
  <2> QED
    BY <1>2, <1>9, <1>11, <2>2, <2>3
<1>19. (n1 + l + h) - (n1 + l + o) = h - o
  BY <1>16, <1>17
<1> QED
  BY <1>15, <1>16, <1>17, <1>18, <1>19, Zenon

LEMMA PairsCounted == TestInv => Tests!RanksCountPairs
<1>1. SUFFICES ASSUME TestInv, pc = "start" PROVE Tests!RanksCountPairs
  BY DEF Tests!RanksCountPairs
<1>2. PICK n1, n2 : n1 = Len(values) /\ n2 = Len(b)
  OBVIOUS
<1>3. /\ n1 \in Nat \ {0} /\ DOMAIN values = 1..n1 /\ values \in [1..n1 -> Int]
      /\ n2 \in Nat \ {0} /\ DOMAIN b = 1..n2 /\ b \in [1..n2 -> Int]
  <2>1. /\ values \in Tests!Groups(MaxCount) /\ b \in Tests!Groups(MaxOther)
        /\ MaxCount \in Nat /\ MaxOther \in Nat /\ Samples \subseteq Int
    BY <1>1, StatsAssumption DEF TestInv, Tests!TypeOK, Tests!StatsAssumption
  <2>2. /\ n1 \in Nat \ {0} /\ DOMAIN values = 1..n1 /\ values \in [1..n1 -> Samples]
        /\ n2 \in Nat \ {0} /\ DOMAIN b = 1..n2 /\ b \in [1..n2 -> Samples]
    BY <1>2, <2>1, GroupTyped
  <2> QED
    BY <2>1, <2>2
<1>4. Tests!U1(values, b) = Cardinality(Ahead(values, b, n1, n2)) - Cardinality(Even(values, n1))
  BY <1>3, RankSumLessLeast
<1>5. Tests!Shift(values, b) = 0 - Tests!Shift(b, values)
  BY <1>3, ShiftTurned
<1>6. Tests!Kept(values) = {j \in DOMAIN values :
           \/ values[j] <= 0
           \/ \E o \in DOMAIN values : /\ values[o] >= values[j]
                /\ values[o] <= 2 * Cardinality({i \in DOMAIN values : values[i] <= values[o]})}
  BY <1>3, KeepsWhatItShould
<1>7. /\ {q \in (DOMAIN values) \X (DOMAIN b) : values[q[1]] > b[q[2]]} = Ahead(values, b, n1, n2)
      /\ {q \in (DOMAIN values) \X (DOMAIN values) : q[1] < q[2] /\ values[q[1]] = values[q[2]]}
           = Even(values, n1)
  BY <1>3, Zenon DEF Ahead, Even
<1> QED
  BY <1>4, <1>5, <1>6, <1>7, TestsCounted, Zenon DEF Tests!RanksCountPairs

-----------------------------------------------------------------------------
(* The three parts together.                                                *)

ResultsInv ==
  /\ part \in {"scoring", "stats", "report"}
  /\ part = "scoring" => ScoreInv
  /\ part = "stats" => TestInv
  /\ part = "report" => PaperInv

LEMMA ResultsInit == Init => ResultsInv
  BY ScoreInit, TestInit, PaperInit DEF Init, ResultsInv

LEMMA ResultsStep ==
  ResultsInv /\ [Next]_<< part, scoreVars, testVars, paperVars >> => ResultsInv'
<1>1. SUFFICES ASSUME ResultsInv, [Next]_<< part, scoreVars, testVars, paperVars >>
               PROVE  ResultsInv'
  OBVIOUS
<1>2. /\ part' = part
      /\ part = "scoring" => Scores!Next \/ UNCHANGED scoreVars
      /\ part = "stats" => Tests!Next \/ UNCHANGED testVars
      /\ part = "report" => Papers!Next \/ UNCHANGED paperVars
  BY <1>1 DEF Next
<1>3. part = "scoring" => ScoreInv'
  BY <1>1, <1>2, ScoreStep DEF ResultsInv
<1>4. part = "stats" => TestInv'
  BY <1>1, <1>2, TestStep DEF ResultsInv
<1>5. part = "report" => PaperInv'
  BY <1>1, <1>2, PaperStep DEF ResultsInv
<1> QED
  BY <1>1, <1>2, <1>3, <1>4, <1>5 DEF ResultsInv

LEMMA ResultsHold == Spec => []ResultsInv
  BY ResultsInit, ResultsStep, PTL DEF Spec

(* Scores, working set, marks, files and table stay within their types and  *)
(* the arrays within their lengths.                                         *)
THEOREM TypesHold == Spec => []TypeOK
<1>1. ResultsInv => TypeOK
  BY PaperReadsBack DEF ResultsInv, TypeOK, ScoreInv, TestInv
<1> QED
  BY <1>1, ResultsHold, PTL

(* scoring_compute_pillars: whatever the subtests and their scores, one that *)
(* is unstable or of C9 changes nothing, and a better score never lowers its *)
(* pillar or the overall score.                                              *)
THEOREM PillarsFollow == Spec => []ScoresFollowResults
<1>1. ResultsInv => ScoresFollowResults
  BY Irrelevant, Higher DEF ResultsInv, ScoresFollowResults
<1> QED
  BY <1>1, ResultsHold, PTL

(* stats_detect_outliers: however many samples and whatever their values,   *)
(* those marked lie outside the range of the rest, each of which is still   *)
(* under its own index after the sort and the moves.                        *)
THEOREM OutliersOutside == Spec => []OutliersAreExtreme
<1>1. ResultsInv => OutliersAreExtreme
  BY Extreme DEF ResultsInv, OutliersAreExtreme
<1> QED
  BY <1>1, ResultsHold, PTL

(* stats_mann_whitney and stats_benjamini_hochberg, for groups of any size: *)
(* the rank sum is worth the pairs it stands for, ties included, the shift  *)
(* changes its sign with the order of the groups, and the step-up procedure *)
(* keeps what is within the limit of its own place or of a later one.       *)
THEOREM RanksAreCounts == Spec => []RanksCountPairs
<1>1. ResultsInv => RanksCountPairs
  BY PairsCounted DEF ResultsInv, RanksCountPairs
<1> QED
  BY <1>1, ResultsHold, PTL

(* scoring_load_reference: a reference of any length, complete, cut in its  *)
(* last line or edited between the two passes, fills no more than was       *)
(* counted and says of each subtest what was written.                       *)
THEOREM ReadsBack == Spec => []ReferenceReadBack
<1>1. ResultsInv => ReferenceReadBack
  BY PaperReadsBack DEF ResultsInv, ReferenceReadBack
<1> QED
  BY <1>1, ResultsHold, PTL
=============================================================================
