CONSTANTS
    s1 = s1
    s2 = s2
    full = full
    first = first
    second = second
    Segment = {s1, s2}
    Late = {s2}
    TextCriteria <- MCTextCriteria
    Lane = {c1, c2}
    Root = c1
    MaxRetries = 1
    MaxLost = 1
    MaxFaults = 0
    Hearing = {full, first, second}
    Found <- MCFound

SPECIFICATION Spec
INVARIANT TranscriptOneTake
CHECK_DEADLOCK FALSE
