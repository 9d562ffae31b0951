CONSTANTS
    v1 = v1
    spoils = spoils
    hides = hides
    blinds = blinds
    trap = trap
    gapped = gapped
    invalid = invalid
    sessions = sessions
    targets = targets
    latency = latency
    none = none
    Kpi <- MCKpi
    Version <- MCVersion
    Definitions <- MCDefinitions
    Invalid = {invalid}
    Hurts <- MCHurts
    Hides <- MCHides
    Starved = {sessions}
    First = v1
    Candidates <- MCCandidates
    MaxRuns = 3
    MaxEdits = 2
    MaxFaults = 2
SPECIFICATION Spec
INVARIANTS
    NothingIsLost
PROPERTIES
    KnownGoodHasPassed
    HarmIsRejected
    NoFalseAlarm
    RolledBackIsGood
CHECK_DEADLOCK FALSE
