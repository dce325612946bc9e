SPECIFICATION FairSpec
CONSTANTS
  Turns = {t1}
  MaxEvents = 2
INVARIANTS AnsweredOnce GivesUpAfterThree
PROPERTIES EveryTurnEnds
CHECK_DEADLOCK FALSE
