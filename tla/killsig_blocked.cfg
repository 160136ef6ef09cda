SPECIFICATION LiveSpec
CONSTANTS
    Users = {u1}
    Loggers = {}
    Items = {i1}
    NoItem = NoItem
    Pids = {p1}
    NoPid = NoPid
    InitPid = InitPid
    HoldoffTime = 1
    MaxInput = 1
    Chars = {"kill"}
    Signals = {}
    KillSig = "SIGTERM"
    InFgMode = FALSE
    Faults = {}
PROPERTIES
    KillKills
