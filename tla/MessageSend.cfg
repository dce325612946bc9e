SPECIFICATION FairSpec
CONSTANTS
  Users = {u1, u2}
  Convs = {c1, c2}
  Keys = {k1}
  Handlers = {h1, h2}
  Env = {"presence"}
  MaxRequests = 2
  MaxEnvSteps = 0
  None = None
INVARIANTS TypeOK SeqDense NumberIsFresh OneRowPerKey
PROPERTIES EveryMessageAnnounced
CHECK_DEADLOCK FALSE
