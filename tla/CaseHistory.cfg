CONSTANTS
    e1 = e1
    e2 = e2
    w1 = w1
    w2 = w2
    w3 = w3
    Nobody = Nobody
    Subject <- MCSubject
    Writer <- MCWriter
SPECIFICATION HistorySpec
INVARIANTS
    NoHoles
    SoloVersionsStay
    RefusedForARival
CHECK_DEADLOCK FALSE
