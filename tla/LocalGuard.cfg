\* A loop that stalls for longer than the radar looks back; every death of the line.
SPECIFICATION FairSpec
CONSTANTS
    Lookback = 1
    Threshold = 1
    Zombie = 3
    MinBackoff = 1
    MaxBackoff = 2
    MaxPrice = 1
    MaxStall = 2
    MaxLag = 2
    MaxTrail = 3
INVARIANTS TypeOK RadarVerdict
PROPERTIES FeedReturns
