\* Two markets in a row over a line that goes down, comes back and breaks.
SPECIFICATION FairSpec
CONSTANTS
    MaxAge = 1
    PingEvery = 2
    Zombie = 3
    MaxBackoff = 4
    Markets = 2
    MaxFlight = 3
INVARIANTS TypeOK ServedLag PastIsReplaced OneCloseEach
PROPERTIES MarketFollowed
