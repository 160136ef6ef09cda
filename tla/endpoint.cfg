SPECIFICATION Spec
CONSTANTS
    Servers = {s1, s2}
    Children = {ch1, ch2}
    Clients = {c1, c2}
    Nobody = Nobody
    MaxSockets = 3
CHECK_DEADLOCK FALSE
INVARIANTS
    TypeOK
    NeverDeaf
    DropReaches
    StopReleases
    Restartable
