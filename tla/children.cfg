SPECIFICATION LiveSpec
CONSTANTS
    Users = {}
    Loggers = {}
    Items = {i1, i2}
    NoItem = NoItem
    Pids = {p1, p2}
    NoPid = NoPid
    InitPid = InitPid
    HoldoffTime = 1
    MaxInput = 1
    Chars = {}
    Signals = {"TERM", "HUP"}
    KillSig = "SIGKILL"
    InFgMode = FALSE
    Faults = {"fork", "late", "reuse"}
INVARIANTS
    PidHeld
    OneChild
PROPERTIES
    Reaped
    NoOrphan
    TermHeeded
    OneshotEnds
