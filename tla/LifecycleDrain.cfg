CONSTANTS
    Slice = {mmtc}
    OnDemand = {mmtc}
    MaxLoad = 1
    MaxManual = 2
    MaxSetbacks = 1
    MaxFaults = 1
    none = none
SPECIFICATION Spec
PROPERTY
    DrainedCarriesNothing
