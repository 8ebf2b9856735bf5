CONSTANTS
    Writers = {w1, w2, w3}
    NoPhase = NoPhase
SYMMETRY Renamings
SPECIFICATION Spec
INVARIANTS
    TypeOK
    LogReplays
    SnapshotIsFold
    TxnReadsPrefix
    ExitWonOnce
PROPERTIES
    ClimbsLadder
