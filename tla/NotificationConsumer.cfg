SPECIFICATION Spec
CONSTANTS
  p1 = p1
  p2 = p2
  created = created
  updated = updated
  invalid = invalid
  e1 = e1
  u1 = u1
  u2 = u2
  Partitions = {p1, p2}
  Messages = {created, updated, invalid}
  PartitionOf <- MCPartitionOf
  Invalid = {invalid}
  Creations = {created}
  EventOf <- MCEventOf
  EventIds = {e1}
  Users = {u1, u2}
  SeedVisitors = {u1, u2}
  ChunkSize = 1
  None = None
  MaxRecords = 2
  MaxFaults = 2
SYMMETRY UserSymmetry
CHECK_DEADLOCK FALSE
INVARIANTS
  TypeOK
  NothingIsSkipped
  SavesAreWhole
PROPERTIES
  ReadStaysRead
