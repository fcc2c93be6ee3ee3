SPECIFICATION MirrorSpec
CONSTANTS
    Connections = {c1, c2}
    Players = {p1, p2}
    Items = {n1}
    NoOwner = nobody
    MaxTries = 2
    Budgets <- MCBudgets
INVARIANTS MirrorsOwned StagedAccounted
PROPERTIES PlayersMirrored
CHECK_DEADLOCK FALSE
