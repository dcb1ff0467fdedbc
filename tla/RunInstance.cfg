\* Four iterations at most, three at least; measure calls of up to two units cross
\* the runtime window 2..3 before or after the third iteration.
CONSTANTS
  MaxIter = 4
  MinIter = 3
  MinRuntime = 2
  MaxRuntime = 3
  MaxStep = 2
SPECIFICATION FairSpec
INVARIANTS
  TypeOK
  CleanupExactlyOnce
  PerfCountersBalanced
  StopJustified
PROPERTIES
  Terminates
  ImplementsContract
