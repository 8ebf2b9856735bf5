SPECIFICATION FairSpec
CONSTANTS
    MaxPresses = 2
    MaxFrames = 2
    MaxDrops = 2
    MaxFailures = 1
INVARIANTS
    TypeOK
    Kept
    AckedIsGone
    SegmentIsOneAnswer
    SegmentInOrder
PROPERTIES
    AnswerStored
CHECK_DEADLOCK FALSE
