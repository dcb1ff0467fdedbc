CONSTANTS
  WarmConns = 1
  NumConns = 2
  Backlog = 2
  MaxFailed = 0
SPECIFICATION Spec
INVARIANT RearmedForNextCall
