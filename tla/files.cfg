SPECIFICATION Spec
CONSTANTS
    Launches = {a, b}
    None = None
    StdSets <- MCStd
    Patient = FALSE
INVARIANT Announced
INVARIANT CleanedUp
INVARIANT DescriptorsKept
SYMMETRY MCSymmetry
CHECK_DEADLOCK FALSE
