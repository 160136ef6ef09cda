SPECIFICATION Spec
CONSTANTS
    Users = {u1, u2}
    Chars = {"a", "b", "nul", "kill"}
    Ignored = {"b", "kill"}
    InCap = 1
    OutCap = 2
    MaxTyped = 3
    MaxOutput = 2
    Reader = "always"
INVARIANTS
    Shielded
    Delivered
PROPERTIES
    OutputForwarded
    WriteEnds
    KillHeeded
