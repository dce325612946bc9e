SPECIFICATION FairSpec
CONSTANTS
  Users = {u1, u2}
  Sockets = {s1, s2, s3}
  MaxCrashes = 1
INVARIANTS OneTabIsExact HubAgrees
PROPERTIES BrokenGoesOffline
CHECK_DEADLOCK FALSE
