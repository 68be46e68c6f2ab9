SPECIFICATION LifeSpec
CONSTANTS
    Asset = {Native, tok}
    Native = Native
    Scale <- scales
    Account = {o, u}
    Owner = o
    NoOne = NoOne
    SUBMITTER = SUBMITTER
    MAX_INTENTS = 2
    user = u
    LedgerCap = 6
    RefundCap = 9
    Units = {0, 1}
    FeeUnits = {0, 1}
    Residuals <- bothSwaps
    BPS = 10
    residualBandBps = 2
    PRICE_SCALE = 2
    Prices = {3}
    Caps = {0, 1}
    Hostile = FALSE
    MaxNotes = 3
    MaxGift = 0
INVARIANTS
    NothingStranded
    NotesAreBacked
    TotalsAddUp
    RefundsArePayable
    RefundsAreFair
PROPERTIES
    WoundDownIsFinal
\* With every note spent or refunded and MaxNotes reached, no call succeeds.
CHECK_DEADLOCK FALSE
