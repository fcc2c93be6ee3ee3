SPECIFICATION FairSpec
CONSTANTS
    Logins = {l1, l2}
    None = None
    Desktop = TRUE
    Accessibility = TRUE
    Credentials = TRUE
    Portals = TRUE
    MaxChanges = 2
    MaxFaults = 2
INVARIANTS MountsMatchDesktop RecordMatchesDesktop RevokedBeforePlanning
PROPERTIES LogoutRevokes QuietLoginIsForwarded
