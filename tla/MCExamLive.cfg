CONSTANTS
    intro_turns = 1
    part1_topic_turns = 1
    part2_roundoff_turns = 1
    part3_discussion_turns = 1
    MaxDrops = 0
    MaxFlushing = 1
SPECIFICATION FairSpec
PROPERTIES
    TimedPhaseEnds
    FinalizingEnds
