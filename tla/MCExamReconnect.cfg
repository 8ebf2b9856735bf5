CONSTANTS
    intro_turns = 1
    part1_topic_turns = 2
    part2_roundoff_turns = 1
    part3_discussion_turns = 2
    MaxDrops = 1
    MaxFlushing = 1
SPECIFICATION Spec
INVARIANTS
    TypeOK
    CacheAgrees
    MicFollowsPhase
    SealedAfterFlush
    GradedOnce
    ContentKept
    ClockStartsOnce
PROPERTIES
    PrepNeverCutShort
    Part1Floor
