\* Deaths, failed file operations and early presses.  The clock stops after
\* MaxWindow windows, and the process with it.
SPECIFICATION FairSpec
CONSTANTS
    Live = TRUE
    MaxWindow = 2
    MaxCrashes = 2
    MaxFaults = 1
    MaxPresses = 2
    EarlyPresses = TRUE
CHECK_DEADLOCK FALSE
INVARIANTS TypeOK OneEntryPerLife EntriesAreTold FilesAgree LedgerReadable
PROPERTIES HaltsNeedAHuman DivergenceHalts
