CONSTANTS
    Device = {d1}
    Address = {a1, a2}
    Epoch = {e1, e2}
    MaxSeq = 3
    MaxEvents = 2
    none = none
SYMMETRY Interchangeable
SPECIFICATION Spec
INVARIANTS
    LossIsReal
    SchedulesKept
CHECK_DEADLOCK FALSE
