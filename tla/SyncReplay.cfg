SPECIFICATION FairSpec
CONSTANTS
  Events = {e1, e2}
  Loops = {l1, l2}
  History = 1
  PageSize = 1
  Env = {"overlap", "drop", "disconnect", "httpError", "relogin"}
  MaxBreaks = 1
INVARIANTS NoGap AppliedInOrder
PROPERTIES ReconnectCatchesUp
CHECK_DEADLOCK FALSE
