SPECIFICATION FairSpec
CONSTANTS
    Loop = loop
    Pings = {p1}
    Intervals = {0, 1}
    DEFAULT_INTERVAL = 2
    INCREMENT = 1
    ExpiresIn = {4}
    RetryAfters = {0, 2}
    BASE_DELAY = 1
    MAX_DELAY = 1
    Late = 1
INVARIANTS BudgetNeverBinds RedeemedIsKept
PROPERTIES NothingSentPastDeadline RequestsAreWelcome LoopEnds
CHECK_DEADLOCK FALSE
