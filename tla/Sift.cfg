SPECIFICATION Spec
CONSTANTS
    Case = {k1}
    Batch = {1, 2, 3}
    Earlier = earlier
    Nobody = nobody
    Verdict = {"passed", "misjudged"}
    PoolSize = 3
    MaxFaults = 1
INVARIANTS
    LastLineTells
PROPERTIES
    SettledStays
    EveryBatchEnds
CHECK_DEADLOCK FALSE
