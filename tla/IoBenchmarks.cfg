\* Three messages through a pipe that holds two; 19 of 20 connections are 95%,
\* and the accept queue of three fills; four messages through a buffer of three.
\* A caller whose connect was refused may wait for ever for its server, and an
\* instance that has cleaned up is over: the program really stops.
CONSTANTS
  Msgs = 3
  PipeMsgs = 2
  Calls = 4
  WarmConns = 2
  NumConns = 20
  Backlog = 3
  MaxFailed = 2
  WarmMsgs = 2
  NumMsgs = 4
  Buffer = 3
  MaxRefused = 1
  Instances = {a, b}
  Blocks = 2
  Passes = 1
  FixtureCalls = 1
  MaxFaults = 1
SPECIFICATION FairSpec
CHECK_DEADLOCK FALSE
INVARIANTS
  TypeOK
  ReportsWhatMoved
  EndsClean
PROPERTY EveryCallReturns
