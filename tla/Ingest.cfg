SPECIFICATION Spec
CONSTANTS
    r1 = r1
    r2 = r2
    k1 = k1
    b1 = b1
    e1 = e1
    e2 = e2
    Request = {r1, r2}
    Key = {k1}
    keyOf <- SameKey
    bodyOf <- SameBody
    Free = Free
    MaxFaults = 2
    Ext = {e1, e2}
    extOf <- OneCase
    detectionOf <- Resent
    Projected = {e1, e2}
    Worker = {w1, w2}
    Daily = Daily
    Attempts = 2
    NoRoad = NoRoad
CHECK_DEADLOCK FALSE
INVARIANTS
    TypeOK
    OneAtATime
    RepeatedJobWritesNoSecondVersion
PROPERTIES
    EveryCaseGetsARoad
    EveryDeviceIsAnswered
