SPECIFICATION MCSpec
CONSTANTS
    j1 = j1
    j2 = j2
    n1 = n1
    n2 = n2
    h1 = h1
    h2 = h2
    Job = {j1, j2}
    Note = {n1, n2}
    notesOf <- sharedNote
    Timed = {j1}
    Handler = {h1, h2}
    Worker = Worker
    MAX_QUEUE = 1
    MaxCrashes = 1
    r1 = r1
    r2 = r2
    Relayer = {r1, r2}
    standby <- secondStandsBy
    Bountied = {r1}
    ROOT_EVERY = 2
    INTERVAL = 2
    BOUNTY = 2
    MaxDeposits = 2
    MaxFaults = 1
    MaxFunds = 3
INVARIANTS
    SettledIsTrue
    QueueIsBounded
PROPERTIES
    SettledIsNotResent
    SettledIsFinal
    AcceptedIsAnswered
    LateThenOwnCommit
    DepositsGetARoot
    ReportedIsListed
    BountyIsEarned
\* With every job answered and every note spent nothing is left to do.
CHECK_DEADLOCK FALSE
