SPECIFICATION Spec
CONSTANTS
  Users = {u1, u2}
  Calls = {c1, c2}
  Env = {"fail", "reload", "revoke"}
  MaxPairs = 3
  MaxEvents = 1
  None = None
SYMMETRY Symmetry
INVARIANTS SessionAgrees 
PROPERTIES RefreshedOnce
CHECK_DEADLOCK FALSE
