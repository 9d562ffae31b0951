CONSTANTS
    Laws = {"aimd", "pi", "mpc", "ucb"}
    Ceiling = 2000
    FloorShare = 10
    Budget = 100
    Readings = {20, 60, 90, 150}
    Uses = {0, 150, 900, 1700, 2600}
    Models = {0, 700, 3000}
    HoldSteps = 3
    DwellSteps = 2
    Arms = {10, 35, 50, 100}
    none = none
SPECIFICATION ControllerSpec
INVARIANTS
    ControllerTypeOK
    Band
    ExploresUpwards
PROPERTIES
    RaisesOnEvidence
    CutsKeepDistance
