CONSTANTS
    Slice = {mmtc}
    OnDemand = {mmtc}
    MaxLoad = 1
    MaxManual = 1
    MaxSetbacks = 1
    MaxFaults = 2
    none = none
SPECIFICATION FairSpec
INVARIANTS
    TypeOK
PROPERTIES
    DoneMeansDone
    RollbackRestores
    SwitchFollows
    DemandWakes
    Implements
