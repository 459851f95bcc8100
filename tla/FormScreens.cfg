SPECIFICATION Spec
CONSTANTS
  k1 = k1
  k2 = k2
  tab1 = tab1
  tab2 = tab2
  Clients = {tab1, tab2}
  Keys = {k1, k2}
  Views <- MCViews
  MaxViews = 2
  MaxForms = 3
  MaxSends = 2
  MaxLosses = 1
SYMMETRY Symmetry
INVARIANTS
  DuplicatesNeedLostReply
  FormClosesByItself
  ShownRegistration
PROPERTIES
  CommentsGoWithTheirWork
CHECK_DEADLOCK FALSE
