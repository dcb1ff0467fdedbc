CONSTANTS
  N = 3
  OkResults = {ok1, ok2}
  Fail = fail
  Zero = zero
  None = none
  PipeBytes = 65536
SPECIFICATION FairSpec
INVARIANTS
  TypeOK
  ResultsAttributed
  NoFalseAlarm
  ChildrenReaped
  ReadNeverBlocks
  DescriptorsReleased
PROPERTIES
  Terminates
  ImplementsForkJoin
