SPECIFICATION Spec
CONSTANTS
    Socket = {s1, s2}
    Command = {c1}
    NoSocket = none
    MaxFaults = 1
INVARIANT ReconnectedIsHeld
CHECK_DEADLOCK FALSE
