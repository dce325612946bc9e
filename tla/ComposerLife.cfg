SPECIFICATION FairSpec
CONSTANTS
  Convs = {a, b}
  MaxTexts = 3
  MaxSteps = 2
  MaxCalls = 2
  Faults = TRUE
  None = None
INVARIANTS  TypingIsTimed
PROPERTIES TypingEnds
CHECK_DEADLOCK FALSE
