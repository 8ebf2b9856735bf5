CONSTANTS
    StartPhases <- MCStartPhases
    MaxTurns = 2

SPECIFICATION FairSpec
INVARIANTS TypeOK OneQuestionAtATime
PROPERTIES EveryDirectiveIsTold
CHECK_DEADLOCK FALSE
