SPECIFICATION FairSpec
CONSTANTS
  Requests = {r1, r2, r3}
  EventIds = {e1}
  Contents = {c1, c2}
  Seeded = {}
  SeedContent = c1
  None = None
  p1 = p1
  Partitions <- MCPartitions
  PartitionOf <- MCPartitionOf
  BatchSize = 2
  MaxSendFailures = 1
  MaxFaults = 1
INVARIANTS
  TypeOK
  EventsAreAnnounced
  TopicIsCommittedNews
  SentIsDelivered
  DiffStartsFromAnnounced
  DuplicatesNeedFaults
  OrderWhileSendsSucceed
PROPERTIES
  SentIsFinal
  ImplementsDelivery
  EveryNewsIsSent
