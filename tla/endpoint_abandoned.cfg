\* Further counterexample, see README section 4: NoneAbandoned is violated.
SPECIFICATION Spec
CONSTANTS
    Servers = {s1}
    Children = {ch1}
    Clients = {c1}
    Nobody = Nobody
    MaxSockets = 3
CHECK_DEADLOCK FALSE
INVARIANTS
    NoneAbandoned
