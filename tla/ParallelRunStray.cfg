CONSTANTS
  N = 2
  OkResults = {ok1}
  Fail = fail
  Zero = zero
  None = none
  PipeBytes = 65536
SPECIFICATION Spec
INVARIANT OnlyChildrenKilled
