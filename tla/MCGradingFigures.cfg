SPECIFICATION MCSpec
CONSTANTS
    Phases <- MCPhases
    Lengths <- MCLengths
    Gaps <- MCGaps
    Vocabulary <- MCVocabulary
    WordLength = 200
    MaxAnswers = 3
    MaxWords = 3
    MaxTokens = 3
    CRITERION_ORDER = {lexical, grammar}
    Bands <- MCBands
    Threshold = 2
    MaxCases = 4
    CorpusBands <- MCCorpusBands
    CaseId = {case1, case2}
    MaxCorpus = 2
    MaxLive = 1
    Confidence <- MCConfidence
    Floor = 70
    MaxRecognized = 2
    MaxRecordings = 2
INVARIANTS
    WordsFollowTheAudio
    PausesBreakRuns
    PartsMakeTheSession
    TUnitsLeadToRoot
    ReconciledFairly
    AgreementMeasured
    ReportSpeaksForItsCases
CHECK_DEADLOCK FALSE
