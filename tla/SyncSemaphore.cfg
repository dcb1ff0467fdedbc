\* Three calls: the second and the third start with what the waiters left.
CONSTANTS
  Waiters = {w1, w2, w3}
  Ops = 3
  MaxCalls = 3
SPECIFICATION FairSpec
INVARIANTS
  TypeOK
  NoWaiterStranded
PROPERTY CallReturns
