SPECIFICATION Spec
CONSTANTS
    Users = {u1}
    Loggers = {l1}
    Items = {i1, i2}
    NoItem = NoItem
    Pids = {p1}
    NoPid = NoPid
    InitPid = InitPid
    HoldoffTime = 0
    MaxInput = 1
    Chars = {"text", "restart", "logout"}
    Signals = {"TERM"}
    KillSig = "SIGTERM"
    InFgMode = FALSE
    Faults = {"fork", "fortify", "late", "reuse"}
SYMMETRY Symmetry
INVARIANTS
    OneItem
