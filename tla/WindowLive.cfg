\* What must happen in the end, in one window long enough for a dead feed to
\* be noticed in it.
SPECIFICATION FairSpec
CONSTANTS
    WindowLen = 9
    MinRemaining = 6
    MaxRemaining = 8
    GuardMaxAge = 1
    ZEntry = 2
    ZExit = 1
    Grace = 1
    GuardStaleExit = 1
    PanicOnlyLast = 2
    SecureLast = 0
    SecureMin = 1
    WallAge = 1
    ResolveDelay = 1
    ProxyDelay = 2
    LastWindow = 0
    MaxTime = 17
    MaxAwait = 1
    Signals <- Fades
CHECK_DEADLOCK FALSE
PROPERTIES OneBetSpec BlindIsSold
