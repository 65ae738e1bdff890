\* Paper trading, a small wallet: every outcome, skim, Kelly cap, wipes.
\* The instance plays MaxWindows windows and stops.
SPECIFICATION Spec
CONSTANTS
    Dollar = 1
    GrindBase = 3
    MaxStake = 5
    SkimPct = 50
    CapPct = 40
    PaperWallet0 = 10
    Live = FALSE
    HaltOnWipe = TRUE
    MaxResets = 2
    ResetWindow = 3
    SecurePct = 90
    WalletReads = {}
    MaxWindows = 3
    MaxGap = 1
    MaxShort = 1
    MaxFee = 2
    MaxPremium = 2
CHECK_DEADLOCK FALSE
INVARIANTS TypeOK Conservation PaperKellyCap LedgerAgrees
PROPERTIES BankedNeverShrinks HaltsHold
