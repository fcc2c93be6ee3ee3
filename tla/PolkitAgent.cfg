SPECIFICATION FairSpec
CONSTANTS
    Launches = {l1, l2, l3}
    Agents = {a1, a2, a3}
    None = None
    MaxFaults = 1
INVARIANTS HeldIsNotTerminated CountCoversHolders AgentStopsWithLastLaunch
PROPERTY LaunchesProceed
