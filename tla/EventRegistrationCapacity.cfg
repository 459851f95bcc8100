SPECIFICATION RegSpec
CONSTANTS
  e1 = e1
  u1 = u1
  Requests = {r1, r2}
  EventIds = {e1}
  Contents <- MCContents
  Seeded = {e1}
  SeedContent = 1
  None = None
  Users = {u1, u2, u3, u4}
  Sessions = {s1, s2}
  Capacity <- MCCapacity
  SeedRegistrations <- MCSeedRegistrations
  MaxCapacity = 2
CHECK_DEADLOCK FALSE
PROPERTY
  CapacityRespected
