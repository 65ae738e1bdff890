\* A loop that stalls for as long as the guards last, frames that overtake and
\* repeat each other, a radar that restarts.
SPECIFICATION Spec
CONSTANTS
    KillLatch = 3
    RemoteMaxAge = 1
    GuardMaxAge = 2
    MaxStall = 2
    MaxLag = 2
    MaxDelay = 1
    MaxFrames = 2
    MaxSeq = 2
    MaxLives = 2
INVARIANTS TypeOK FreshSpot
PROPERTIES KillBarsEntry SpotMovesForward
