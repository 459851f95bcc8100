SPECIFICATION FairSpec
CONSTANTS
  visitor = visitor
  curator = curator
  Tabs = {1, 2}
  Users = {visitor, curator}
  Role <- MCRole
  Paths = {"login", "inicio", "perfil", "explorar", "reporte"}
  MaxLogins = 1
  MaxMoves = 3
INVARIANTS
  UserOwnsToken
  AbortedReadsEndOnlyTheirSession
  LogoutSticks
PROPERTIES
  ExpiredSessionCloses
CHECK_DEADLOCK FALSE
