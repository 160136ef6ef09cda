SPECIFICATION Spec
CONSTANTS
    Bytes <- MCBytes
    Options = {"ECHO", "LINEMODE"}
    Supported <- MCSupported
    Environ = "ENVIRON"
    MCCP1 = "COMPRESS"
    BufferMax = 1
    Inputs <- MCOldInputs
    Outputs <- MCOutputs
    MaxInputs = 1
    MaxAsks = 2
    MaxOutputs = 1
    MaxSent = 2
    CutWrites = FALSE
CHECK_DEADLOCK FALSE
INVARIANTS
    InputIntact
