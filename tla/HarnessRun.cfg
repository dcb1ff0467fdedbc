CONSTANTS
  Benchmarks <- FourBenchmarks
  MaxBenchmarks = 3
  Configs <- FilterConfigs
  Iterations = {1, 5, 15}
  Any = Any
  None = None
  C1 = C1
  C6 = C6
  hash = hash
  fork = fork
  mpmc = mpmc
  late = late
SPECIFICATION Spec
INVARIANTS
  TypeOK
  SelectionInOrder
  StatsOfOwnRun
