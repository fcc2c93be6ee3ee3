SPECIFICATION Spec
CONSTANTS
    Helpers = {h1, h2}
    Unmanaged = unmanaged
    Nobody = nobody
    MaxWallets = 3
    MaxNumber = 3
    MaxMishaps = 3
    Logins = {l1, l2}
    Limits = {1, 2}
    MaxAttempts = 1
    MaxMessages = 1
INVARIANTS SlotsAccounted StoppedIsSilent SoundWalletStays BackupWhole
PROPERTIES LoginsEnd FilesKept
CHECK_DEADLOCK FALSE
