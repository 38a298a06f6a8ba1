CONSTANTS
    t1 = t1
    t2 = t2
    t3 = t3
    NoTx = NoTx
    Tx <- MCTx
    Keys <- MCKeys
    Legacy <- MCLegacy
    SeedRows <- MCSeedRows
    Bare <- MCBare
    Years <- MCYears
    MaxBatch = 2
SPECIFICATION FairSpec
INVARIANTS
    NoDuplicateNumber
    OnlySeedLeavesGaps
PROPERTIES
    EveryStatementEnds
    ImplementsLedger
CHECK_DEADLOCK FALSE
