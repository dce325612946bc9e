SPECIFICATION FairConsole
CONSTANTS
    Jobs = {j1}
    Slots = {s1, s2}
    MaxLogins = 2
    MaxMoves = 2
    MaxEdits = 2
    MaxFaults = 1
INVARIANTS InPlace PageAgrees
PROPERTY PageSettles
CHECK_DEADLOCK FALSE
