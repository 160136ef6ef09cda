SPECIFICATION Spec
CONSTANTS
    Launches = {a}
    None = None
    StdSets <- MCStd
    Patient = TRUE
INVARIANT NothingStale
CHECK_DEADLOCK FALSE
