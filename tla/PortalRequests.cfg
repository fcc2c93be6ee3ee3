SPECIFICATION Spec
CONSTANTS
    Apps = {a, b}
    Bystander = b
    Tokens = {t}
    None = None
    MaxCalls = 3
CONSTRAINTS BystanderBound ScreenFirst ThirdBesideLasting
CHECK_DEADLOCK FALSE
INVARIANTS TablesAgree AnswersMatch FreedOnlyByOwnerLoss HostObjectsReachable OwnerLossPurges
PROPERTY ClosedIsSilent
