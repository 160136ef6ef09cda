SPECIFICATION Spec
CONSTANTS
    Launches = {a, b}
    None = None
    StdSets <- MCStd
    Patient = FALSE
INVARIANT ExclusiveAnnounced
CHECK_DEADLOCK FALSE
