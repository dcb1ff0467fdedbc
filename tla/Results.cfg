\* Three subtests; up to four samples against up to two, of which two may be
\* removed; three subtests in a report, with a mean that is printed as zero and
\* one that is rounded.
CONSTANTS
  Categories <- FiveCategories
  Logs <- ThreeLogs
  NonPositive = NonPositive
  MaxSubtests = 3
  Samples = {0, 1, 5}
  MaxCount = 4
  MaxOther = 2
  MaxOutliers = 2
  Means = {3, 24}
  PerDigit = 10
  MaxRows = 3
  Absent = Absent
  Null = Null
SPECIFICATION Spec
INVARIANTS
  TypeOK
  ScoresFollowResults
  OutliersAreExtreme
  RanksCountPairs
  ReferenceReadBack
