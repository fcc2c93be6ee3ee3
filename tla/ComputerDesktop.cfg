SPECIFICATION DesktopSpec
CONSTANTS
    Chunks = 2
    Budgets <- MCBudgets
INVARIANTS PicturesUnlocked
PROPERTIES InputUnlocked CallsEnd
CHECK_DEADLOCK FALSE
