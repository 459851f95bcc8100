SPECIFICATION FairSpec
CONSTANTS
  p1 = p1
  p2 = p2
  created = created
  updated = updated
  invalid = invalid
  e1 = e1
  u1 = u1
  u2 = u2
  Partitions = {p1, p2}
  Messages = {created, updated, invalid}
  PartitionOf <- MCPartitionOf
  Invalid = {invalid}
  Creations = {created}
  EventOf <- MCEventOf
  EventIds = {e1}
  Users = {u1}
  SeedVisitors = {}
  ChunkSize = 1
  None = None
  MaxRecords = 2
  MaxFaults = 2
CHECK_DEADLOCK FALSE
PROPERTIES
  EveryMessageIsHandled
