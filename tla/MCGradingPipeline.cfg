CONSTANTS
    s1 = s1
    s2 = s2
    full = full
    first = first
    second = second
    Segment = {s1, s2}
    Late = {s2}
    TextCriteria <- MCTextCriteria
    Lane = {c1, c2}
    Root = c1
    MaxRetries = 1
    MaxLost = 1
    MaxFaults = 1
    Hearing = {full, first}
    Found <- MCFound

SPECIFICATION Spec
INVARIANTS TypeOK EvidenceKept TranscribeFindsMedia TurnOneTake OneRunCoherent GradedOrGivenUp
PROPERTY SweptAfterReport
CHECK_DEADLOCK FALSE
