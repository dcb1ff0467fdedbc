CONSTANTS
  Benchmarks <- FourBenchmarks
  MaxBenchmarks = 3
  Configs <- ManyInstances
  Iterations = {5, 31}
  Any = Any
  None = None
  C1 = C1
  C6 = C6
  hash = hash
  fork = fork
  mpmc = mpmc
  late = late
SPECIFICATION Spec
INVARIANT SamplesFitRawValues
