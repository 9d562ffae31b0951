CONSTANTS
    FlowId = {f1, f2, f3}
    Device = {d1}
    Port = {5410, 5411}
    Room = 2
    MaxTries = 2
    none = none
SPECIFICATION FlowSpec
INVARIANTS
    FlowTypeOK
    PortsExclusive
    BooksBalance
PROPERTIES
    FlowsEnd
CHECK_DEADLOCK FALSE
