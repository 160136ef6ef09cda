SPECIFICATION Spec
CONSTANTS
    Bytes <- MCBytes
    Options = {"ECHO", "LINEMODE"}
    Supported <- MCSupported
    Environ = "ENVIRON"
    MCCP1 = "COMPRESS"
    BufferMax = 1
    Inputs <- MCInputs
    Outputs <- MCOutputs
    MaxInputs = 1
    MaxAsks = 2
    MaxOutputs = 1
    MaxSent = 2
    CutWrites = TRUE
CHECK_DEADLOCK FALSE
INVARIANTS
    OutputIntact
