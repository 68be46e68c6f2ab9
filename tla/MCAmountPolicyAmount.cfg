SPECIFICATION MCFeeSpec
CONSTANTS
    Account = {o}
    firstOwner = o
    FeeTime = 5
    NoOne = NoOne
    Asset = {nox}
    PAUSE_DURATION = 1
    EXTENSION = 1
    EXTEND_DELAY = 0
    PAUSE_COOLDOWN = 5
    MaxTime = 5
    Ranges <- validRanges
    Schedules <- cheapOnly
    Percentages <- halfOnly
    CHANGE_DELAY = 2
    GRACE = 2
    BPS = 10
    MAX_BPS = 2
    MAX_EXP = 1
    MAX_VALUE = 100
    RUNGS = 2
    Amounts <- smallAmounts
INVARIANTS
    AmountSurvivesSwitch
\* At MaxTime, with nothing announced and no asset left to open, no call succeeds.
CHECK_DEADLOCK FALSE
