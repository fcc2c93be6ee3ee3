SPECIFICATION FairSpec
CONSTANTS
    Owners = {o1, o2}
    None = None
    AttemptIds = {a1, a2}
    NoAttempt = NoAttempt
    MaxDelay = 4
    MaxWaits = 2
    MaxFaults = 1
INVARIANTS OnlyRegisteredOwnerServes RegisteredIsCertified
PROPERTIES NeverRegistersTwice StableOwnerIsRegistered
