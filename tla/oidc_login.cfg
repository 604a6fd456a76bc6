SPECIFICATION FairSpec
CONSTANTS
    Logins = {l1, l2}
    Visits = {v1, v2}
    ttlMs = 2
    OIDC_STATE_TTL_MS = 1
    discoveryTtlMs = 1
    MIN_DISCOVERY_TTL_MS = 1
    Timeout = 1
INVARIANTS SuccessIsItsOwn VerifierSentOnce
PROPERTIES UnavailableIsTrue OldDocumentForgotten CallsAnswered
CHECK_DEADLOCK FALSE
