\* One producer and one consumer, as on a machine with two CPUs; three workers
\* otherwise.  The two sides of a ping-pong may strand each other, and a call that
\* failed is the last: the program really stops.
CONSTANTS
  FutexRounds = 4
  PipeRounds = 4
  MayFail = TRUE
  Producers = {p1}
  Consumers = {c1}
  QueueSize = 3
  Ops = 5
  CPUs = 3
  WorkOps = 3
  WarmOps = 2
SPECIFICATION FairSpec
CHECK_DEADLOCK FALSE
INVARIANTS
  TypeOK
  NoLostWake
  CountsOwnWork
PROPERTIES
  QueueImplementsFifo
  EveryCallReturns
