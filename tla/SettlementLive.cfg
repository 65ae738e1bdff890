\* Live trading: collateral reads, the circuit breaker, boots.
\* The instance plays MaxWindows windows and stops.
SPECIFICATION Spec
CONSTANTS
    Dollar = 1
    GrindBase = 3
    MaxStake = 0
    SkimPct = 0
    CapPct = 40
    PaperWallet0 = 0
    Live = TRUE
    HaltOnWipe = FALSE
    MaxResets = 2
    ResetWindow = 2
    SecurePct = 90
    WalletReads = {0, 6, 9}
    MaxWindows = 4
    MaxGap = 1
    MaxShort = 0
    MaxFee = 0
    MaxPremium = 1
CHECK_DEADLOCK FALSE
PROPERTIES LiveKellyCap HaltsHold
