SPECIFICATION Spec
CONSTANTS
    Users = {u1}
    Loggers = {}
    Items = {i1}
    NoItem = NoItem
    Pids = {p1}
    NoPid = NoPid
    InitPid = InitPid
    HoldoffTime = 1
    MaxInput = 1
    Chars = {}
    Signals = {"TERM"}
    KillSig = "SIGKILL"
    InFgMode = FALSE
    Faults = {"fork"}
INVARIANTS
    InitUnharmed
