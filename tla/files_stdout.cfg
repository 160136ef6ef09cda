SPECIFICATION Spec
CONSTANTS
    Launches = {a}
    None = None
    StdSets <- MCStd
    Patient = TRUE
INVARIANT LogsToStdout
CHECK_DEADLOCK FALSE
