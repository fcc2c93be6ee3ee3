SPECIFICATION Spec
CONSTANTS
    Spaces = {s1, s2}
    Leases = {l1, l2, l3}
    Clients = {c1, c2}
    None = None
    MaxLines = 1
    MaxPending = 1
    MaxClients = 2
    MaxLeases = 2
    MaxCancels = 1
    MaxFaults = 1
SYMMETRY Symmetry
INVARIANTS AcknowledgedIsOver NothingDangles
PROPERTY ReleaseIsAcknowledged
