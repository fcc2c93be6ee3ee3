SPECIFICATION Spec
CONSTANTS
    Guests = {g1}
    Observer = observer
    None = none
    Requests = {1, 2, 3}
    Callbacks = {4}
    Admin = TRUE
    Conns = {1, 2, 3}
    MaxOutstanding = 2
    MaxQueued = 3
    MaxClients = 2
    MaxOwners = 2
    Budgets <- MCBudgets
INVARIANT NoClientOutlivesGuest
PROPERTIES ImplementsPort EveryCallAnswered RestartNoticed
CHECK_DEADLOCK FALSE
