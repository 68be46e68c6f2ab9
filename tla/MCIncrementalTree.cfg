SPECIFICATION MCSpec
CONSTANTS
    Leaf = {c0, c1}
    Zero = Zero
    TREE_DEPTH = 3
    ROOT_WINDOW = 3
    MAX_BATCH = 3
    fromTime = 3
    toTime = 6
    fromBlock = 1
    asset = "nox"
    PAGE = 2
    Contents <- contents
    MaxGap = 2
    MaxBlocks = 4
INVARIANTS
    FrontierIsComplete
    KnownRootsAreTheLast
    BuiltAsThePool
    TreeHoldsTheWindow
PROPERTIES
    PublishedRootIsTree
\* The tool ends, and the chain stops at MaxBlocks.
CHECK_DEADLOCK FALSE
