SPECIFICATION FairHookSpec
CONSTANTS
  Slots = {1, 2, 3, 4}
  MaxChanges = 6
  MaxBreaks = 3
INVARIANTS ShownAsItIs
PROPERTIES Settles
CHECK_DEADLOCK FALSE
