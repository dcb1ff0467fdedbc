\* The filter takes three names instead of 64; a list of CPUs three instead of
\* 512; seven instances go round four CPUs almost twice; three nodes and two
\* levels of cache are looked for instead of 64 and 8, and a node has room for
\* two distances instead of 16, so that each limit is passed.
CONSTANTS
  Values <- MCValues
  Names <- MCNames
  MaxFilter = 3
  Contents <- MCContents
  ArgLists <- MCArgLists
  Ncpu = 4
  NumInstances = 7
  MaxPins = 3
  Machines <- MCMachines
  PinSpecs <- MCPinSpecs
  TopoSpecs <- MCTopoSpecs
  Membinds <- MCMembinds
  Boxes <- MCBoxes
  MaxNodes = 3
  MaxDistances = 2
  MaxLevels = 2
  FreqCpus = 2
  Governors <- MCGovernors
  Performance = "performance"
  Empty = ""
SPECIFICATION Spec
INVARIANTS
  TypeOK
  Precedence
  InstancesApart
  MemoryWhereShown
  
  RestoreUndoesLock
