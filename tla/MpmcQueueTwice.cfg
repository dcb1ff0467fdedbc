\* Two consumers, as on a machine with three CPUs.
CONSTANTS
  Producers = {p1}
  Consumers = {c1, c2}
  QueueSize = 3
  Ops = 3
SPECIFICATION Spec
INVARIANT EachItemOnce
