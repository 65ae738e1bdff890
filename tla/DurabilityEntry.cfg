\* A death in position.
SPECIFICATION Spec
CONSTANTS
    Live = TRUE
    MaxWindow = 3
    MaxCrashes = 2
    MaxFaults = 0
    MaxPresses = 0
    EarlyPresses = TRUE
CHECK_DEADLOCK FALSE
INVARIANT OneEntryPerWindow
