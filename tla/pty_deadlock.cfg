SPECIFICATION Spec
CONSTANTS
    Users = {u1}
    Chars = {"a", "kill"}
    Ignored = {"kill"}
    InCap = 1
    OutCap = 1
    MaxTyped = 3
    MaxOutput = 2
    Reader = "between writes"
PROPERTIES
    KillHeeded
