CONSTANTS
    sensor = sensor
    mMTC = mMTC
    eMBB = eMBB
    never = never
    Class = {sensor}
    Rate <- MCRate
    Latency <- MCLatency
    Slices <- MCSlices
    Mine = mMTC
    Hold = 1
    PLAN_WINDOW = 2
    IDLE_SECONDS = 3
    MIN_UP = 2
    ACTIVATE_LEAD = 3
    Takes <- MCTakes
    Periods = {0, 8, 9, 12}
    Burst = 2
    KEEP = 3
    MaxTime = 40
    FreeTime = 11
    MaxArrivals = 4
    MaxEvents = 1
SPECIFICATION Spec
INVARIANTS
    Follows
PROPERTIES
    MinUpKept
    SwitchedOffIdle
    UpInTime
CHECK_DEADLOCK FALSE
