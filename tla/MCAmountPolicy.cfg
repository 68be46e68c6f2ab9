SPECIFICATION MCSpec
CONSTANTS
    Account = {o, g}
    firstOwner = o
    FeeTime = 4
    NoOne = NoOne
    Asset = {nox}
    PAUSE_DURATION = 3
    EXTENSION = 2
    EXTEND_DELAY = 1
    PAUSE_COOLDOWN = 3
    MaxTime = 13
    Ranges <- anyRange
    Schedules <- anySchedule
    Percentages <- anyRate
    CHANGE_DELAY = 2
    GRACE = 1
    BPS = 10
    MAX_BPS = 2
    MAX_EXP = 1
    MAX_VALUE = 100
    RUNGS = 2
    Amounts <- someAmounts
INVARIANTS
    ShutIsBounded
    ExitWindow
    ProofSurvivesSwitch
    OnlyCurrentFeesSettle
    SplitFollowsForce
PROPERTIES
    OwnerHeldPauseStays
    LapsedIsNotRevived
    ChangesAreAnnounced
\* A contract may come to rest: with the ownership renounced and no guardian no
\* call succeeds, and at MaxTime the clock stops too.
CHECK_DEADLOCK FALSE
