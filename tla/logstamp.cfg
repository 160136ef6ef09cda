SPECIFICATION Spec
CONSTANTS
    Loggers = {l1, l2}
    MaxPiece = 3
    MaxSaid = 5
INVARIANTS
    FileStamped
    LoggersStamped
