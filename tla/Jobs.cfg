CONSTANTS
    c1 = c1
    c2 = c2
    Client <- MCClient
    Attempts = 2
    MaxStalled = 1
    MaxCrashes = 1
    MaxQueued = 2
SPECIFICATION FairSpec
INVARIANTS
    DoneHasFile
    DeliveredOncePerQueueing
PROPERTIES
    QueuedJobSettlesRow
CHECK_DEADLOCK FALSE
