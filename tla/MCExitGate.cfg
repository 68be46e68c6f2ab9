SPECIFICATION MCSpec
CONSTANTS
    Account = {o}
    Nobody = Nobody
    PAUSE_DURATION = 5
    EXTENSION = 1
    EXTEND_DELAY = 1
    PAUSE_COOLDOWN = 3
    MaxTime = 12
    Settler = {s1, s2}
    rivalSettler = s2
    Public = Public
    WINDOW = 3
    EPOCH = 3
    SLOT = 1
    SETTLER_DELAY = 4
INVARIANTS
    ExclusionIsBounded
PROPERTIES
    SettlerIsTimelocked
