SPECIFICATION Spec
CONSTANTS
    Apps = {a, b}
    Bystander = None
    Tokens = {t}
    None = None
    MaxCalls = 2
CHECK_DEADLOCK FALSE
INVARIANT OwnerLossCloses
