\* Two windows with every exit; requests of up to a unit of time.  The clock stops.
SPECIFICATION Spec
CONSTANTS
    WindowLen = 5
    MinRemaining = 2
    MaxRemaining = 4
    GuardMaxAge = 1
    ZEntry = 2
    ZExit = 1
    Grace = 1
    GuardStaleExit = 1
    PanicOnlyLast = 2
    SecureLast = 3
    SecureMin = 1
    WallAge = 2
    ResolveDelay = 0
    ProxyDelay = 1
    LastWindow = 1
    MaxTime = 12
    MaxAwait = 1
    Signals <- SwingsAndKills
CHECK_DEADLOCK FALSE
INVARIANTS TypeOK ResolvedInTime StrikeOfMarket
PROPERTIES RideIsFinal EntryAndSaleInTime OneBetSafe
