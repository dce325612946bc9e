SPECIFICATION Spec
CONSTANTS
  Users = {u1, u2, u3}
  Handlers = {h1, h2}
  MaxRequests = 3
  MaxCrashes = 1
  None = None
SYMMETRY Symmetry
VIEW View
INVARIANTS WellFormed OwnerKept 
CHECK_DEADLOCK FALSE
