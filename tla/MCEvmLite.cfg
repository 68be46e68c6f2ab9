\* A machine that has answered stops.
CHECK_DEADLOCK FALSE
CONSTANTS
    P = 11
    ROUNDS = 3
    NOTE_DOMAIN = 7
    LIMB = 7
    W = 9
    WORDBITS = 28
    SELSHIFT = 24
    SEL_HASH2 = 11
    SEL_FIELDS = 10
    SEL_NOTE = 7
    ERR_NONCANON = 8
    ERR_SPONGE = 5
    ERR_KAT = 4
    MDS <- MCMDS
    RC <- MCRC
    KAT_LEFT <- MCLeft
    KAT_RIGHT <- MCRight
    KAT_INPUT <- MCInput
    KAT_LIMBS <- MCLimbs
    Calls <- MCCalls
SPECIFICATION MachineSpec
INVARIANT NamesAreTrue
PROPERTY AnswersAsTheContract
PROPERTY EveryCallHalts
