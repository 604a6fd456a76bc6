SPECIFICATION FairSpec
CONSTANTS
    Attempts = {d1, d2}
    Events = {e1, e2}
    Forged = {}
    Foreign = {e2}
    Logins = {e1}
    Replyless = {d2}
    Copies = 2
    Skew = 1
    Timeout = 1
    None = None
INVARIANTS ReturnsDrained RejectionsAwaited
PROPERTIES AnswersAreTheHandlers ReplayedOnlyAtTheEdge ShutdownEnds
CHECK_DEADLOCK FALSE
