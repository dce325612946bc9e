SPECIFICATION ContactsSpec
CONSTANTS
  Users = {u1, u2}
  Handlers = {h1, h2}
  MaxRows = 2
  MaxRequests = 4
  None = None
SYMMETRY Symmetry
INVARIANTS WellFormed  
PROPERTIES DecidedOnce
CHECK_DEADLOCK FALSE
