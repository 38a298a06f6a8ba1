CONSTANTS
    i1 = i1
    i2 = i2
    c1 = c1
    c2 = c2
    c3 = c3
    c4 = c4
    Free = Free
    Instance <- MCInstance
    Call <- MCCall
    home <- MChome
SPECIFICATION TaskFairSpec
INVARIANTS
    OneSupervisor
    OnlyLateWorkOverlaps
PROPERTIES
    EveryCallReturns
CHECK_DEADLOCK FALSE
