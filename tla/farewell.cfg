SPECIFICATION Spec
CONSTANTS
    Users = {u1}
    Loggers = {}
    Items = {i1}
    NoItem = NoItem
    Pids = {p1}
    NoPid = NoPid
    InitPid = InitPid
    HoldoffTime = 1
    MaxInput = 1
    Chars = {"toggle"}
    Signals = {}
    KillSig = "SIGKILL"
    InFgMode = FALSE
    Faults = {}
PROPERTIES
    FarewellKept
