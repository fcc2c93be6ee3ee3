SPECIFICATION Spec
CONSTANTS
    Logins = {l1}
    None = None
    Desktop = TRUE
    Accessibility = TRUE
    Credentials = TRUE
    Portals = TRUE
    MaxChanges = 2
    MaxFaults = 1
INVARIANT SupersededStaysRevoked
