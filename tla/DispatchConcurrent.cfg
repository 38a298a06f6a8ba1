CONSTANTS
    c1 = c1
    c2 = c2
    o1 = o1
    k1 = k1
    m1 = m1
    w1 = w1
    NoSource = NoSource
    Client <- TwoClients
    Order <- OneOrder
    Case <- Nothing
    Maint <- OneMaint
    Worker <- OneWorker
    Lookback = 20
    LossyHistory = TRUE
    MaxVersions <- ConcurrentBound
SPECIFICATION Spec
SYMMETRY Interchangeable
INVARIANTS
    LiveOrderHasInspection
CHECK_DEADLOCK FALSE
