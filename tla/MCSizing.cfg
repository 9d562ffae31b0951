CONSTANTS
    Erlangs = {1, 2}
    Sizes = {1, 2, 3, 4, 5, 6}
    MaxClasses = 2
    Targets <- MCTargets
    limit_units = 6
SPECIFICATION SizingSpec
INVARIANT Bracketed
PROPERTY Ends
CHECK_DEADLOCK FALSE
