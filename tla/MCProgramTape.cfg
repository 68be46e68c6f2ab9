\* A plan ends.
CHECK_DEADLOCK FALSE
CONSTANTS
    P = 17
    G = 3
    NO_SLOT = 255
    Tapes <- MCTapes
SPECIFICATION PlanSpec
INVARIANTS LiveValuesKeepTheirCells PlanIsTight BlobReadsBack
