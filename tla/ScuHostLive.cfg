SPECIFICATION FairSpec
CONSTANTS
    Spaces = {s1}
    Leases = {l1, l2}
    Clients = {c1}
    None = None
    MaxLines = 1
    MaxPending = 1
    MaxClients = 1
    MaxLeases = 2
    MaxCancels = 1
    MaxFaults = 2
PROPERTIES WaitingIsServed ReleaseCompletes
