\* Further counterexample, see README section 4: LastWordsHeard is violated.
SPECIFICATION Spec
CONSTANTS
    Users = {u1}
    Chars = {"a"}
    Ignored = {}
    InCap = 1
    OutCap = 2
    MaxTyped = 0
    MaxOutput = 2
    Reader = "always"
PROPERTIES
    LastWordsHeard
