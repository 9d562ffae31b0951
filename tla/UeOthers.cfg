CONSTANTS
    none = none
    Ue = {u1, u2}
    Parkable = {u1}
    MaxPid = 8
    CHECK_STRIKES = 2
    InTime = TRUE
    MaxScripts = 2
    MaxFaults = 2
SPECIFICATION Spec
PROPERTY OthersUntouched
CHECK_DEADLOCK FALSE
