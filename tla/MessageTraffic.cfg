SPECIFICATION Spec
CONSTANTS
  Users = {u1, u2}
  Convs = {c1}
  Keys = {k1}
  Handlers = {h1, h2}
  Env = {"crash", "membership", "presence"}
  MaxRequests = 3
  MaxEnvSteps = 1
  None = None
SYMMETRY Symmetry
INVARIANTS PreviewAgrees RecordsAgree
PROPERTIES ReadNeverRegresses 
CHECK_DEADLOCK FALSE
