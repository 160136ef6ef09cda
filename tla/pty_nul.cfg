\* Further counterexample, see README section 4: Delivered is violated.
SPECIFICATION Spec
CONSTANTS
    Users = {u1}
    Chars = {"a", "nul"}
    Ignored = {}
    InCap = 1
    OutCap = 1
    MaxTyped = 2
    MaxOutput = 0
    Reader = "always"
INVARIANTS
    Delivered
