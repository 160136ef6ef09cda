\* Further counterexample, see README section 4.
SPECIFICATION LiveSpec
CONSTANTS
    Users = {u1}
    Loggers = {}
    Items = {i1}
    NoItem = NoItem
    Pids = {p1}
    NoPid = NoPid
    InitPid = InitPid
    HoldoffTime = 1
    MaxInput = 1
    Chars = {"text"}
    Signals = {}
    KillSig = "SIGKILL"
    InFgMode = FALSE
    Faults = {}
PROPERTIES
    Respawned
