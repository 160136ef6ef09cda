SPECIFICATION Spec
CONSTANTS
    Launches = {a}
    None = None
    StdSets <- MCNoInput
    Patient = TRUE
INVARIANT DescriptorsKept
CHECK_DEADLOCK FALSE
