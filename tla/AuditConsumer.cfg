SPECIFICATION FairSpec
CONSTANTS
  p1 = p1
  p2 = p2
  good = good
  malformed = malformed
  rejected = rejected
  Partitions = {p1, p2}
  Messages = {good, malformed, rejected}
  PartitionOf <- MCPartitionOf
  Malformed = {malformed}
  Rejected = {rejected}
  Buffer = 2
  InsertAttempts = 2
  None = None
  MaxRecords = 2
  MaxDbFailures = 2
  MaxFaults = 2
CHECK_DEADLOCK FALSE
INVARIANTS
  TypeOK
  NothingIsSkipped
  DeadLettersNeedFailures
PROPERTIES
  RowsAreFinal
  EveryMessageIsAudited
