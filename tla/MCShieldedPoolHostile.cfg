SPECIFICATION HostileSpec
CONSTANTS
    Asset = {Native, tok}
    Native = Native
    Scale <- scales
    Account = {o, u}
    Owner = o
    NoOne = NoOne
    SUBMITTER = SUBMITTER
    MAX_INTENTS = 2
    user = u
    LedgerCap = 5
    RefundCap = 6
    Units = {0, 1}
    FeeUnits = {0, 1}
    Residuals <- bothSwaps
    BPS = 10
    residualBandBps = 2
    PRICE_SCALE = 2
    Prices = {3}
    Caps = {0}
    Hostile = TRUE
    MaxNotes = 2
    MaxGift = 1
INVARIANTS
    PoolTypeOK
    Solvent
PROPERTIES
    PoolKeepsCustody
    ResidualKeepsBand
\* With every note spent or refunded and MaxNotes reached, no call succeeds.
CHECK_DEADLOCK FALSE
