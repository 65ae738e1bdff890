\* A settlement halts, its row is in the ledger, and the process dies before the
\* state file is replaced.  In paper only a settlement raises the halt.
SPECIFICATION Spec
CONSTANTS
    Live = FALSE
    MaxWindow = 3
    MaxCrashes = 2
    MaxFaults = 0
    MaxPresses = 0
    EarlyPresses = TRUE
CHECK_DEADLOCK FALSE
PROPERTY HaltSurvivesRestarts
