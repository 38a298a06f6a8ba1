SPECIFICATION Spec
CONSTANTS
    Socket = {s1, s2}
    Command = {c1}
    NoSocket = none
    MaxFaults = 1
INVARIANT ServedIsHeld
INVARIANT NobodyIsOnline
INVARIANT ServedIsWatched
PROPERTY DeadAreDropped
PROPERTY EveryCommandEnds
