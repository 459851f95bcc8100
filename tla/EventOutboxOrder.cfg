SPECIFICATION Spec
CONSTANTS
  Requests = {r1, r2}
  EventIds = {e1, e2}
  Contents = {c1, c2}
  Seeded = {e1}
  SeedContent = c1
  None = None
  p1 = p1
  Partitions <- MCPartitions
  PartitionOf <- MCPartitionOf
  BatchSize = 2
  MaxSendFailures = 1
  MaxFaults = 0
INVARIANT
  OrderPerEvent
