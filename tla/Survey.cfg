SPECIFICATION Spec
CONSTANTS
    o1 = o1
    o2 = o2
    d1 = d1
    Order = {o1, o2}
    Detail = {d1}
    OrderOf <- MCOrderOf
    NoDetail = none
    App = {a1}
    Web = {}
    Phone = {p1, p2}
    Desk = {k1, k2}
    MaxFaults = 1
    MaxEdits = 1
INVARIANTS
    DetailFits
    DeletedTells
    MovesTell
PROPERTIES
    ClosedIsFrozen
    EveryCaseLands
CHECK_DEADLOCK FALSE
