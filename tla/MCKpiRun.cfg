CONSTANTS
    broad = broad
    iot = iot
    none = none
    FileSets <- MCFileSets
    DefaultArp = 8
    BroadUes = 2
    StandardUes = 3
    MaxImsi = 5
    Jobs <- MCJobs
    Default = 10
    Slack = 5
    Rates = {20, 60}
    Latencies = {5, 20}
    Defs <- MCDefs
    MaxRuns = 2
    MaxFaults = 1
SPECIFICATION Spec
INVARIANTS
    DevicesAsLabelled
    IntervalAsLabelled
    Restored
    ScoresCompare
CHECK_DEADLOCK FALSE
