SPECIFICATION Spec
CONSTANTS
    Users = {u1}
    Loggers = {}
    Items = {i1, i2}
    NoItem = NoItem
    Pids = {p1}
    NoPid = NoPid
    InitPid = InitPid
    HoldoffTime = 1
    MaxInput = 2
    Chars = {"kill", "quit", "toggle"}
    Signals = {}
    KillSig = "SIGKILL"
    InFgMode = FALSE
    Faults = {}
SYMMETRY Symmetry
INVARIANTS
    TypeOK
    ExitSparesChild
PROPERTIES
    ImplementsSupervisor
