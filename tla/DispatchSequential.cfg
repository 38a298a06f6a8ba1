CONSTANTS
    c1 = c1
    c2 = c2
    o1 = o1
    k1 = k1
    m1 = m1
    w1 = w1
    NoSource = NoSource
    Client <- OneClient
    Order <- OneOrder
    Case <- OneCase
    Maint <- OneMaint
    Worker <- OneWorker
    Lookback = 20
    LossyHistory = FALSE
    MaxVersions <- SequentialBound
SPECIFICATION Spec
INVARIANTS
    TypeOK
    OrderTrailIsCurrent
PROPERTIES
    LockedOrderNotDeleted
    FirstFinishHasPhotos
CHECK_DEADLOCK FALSE
