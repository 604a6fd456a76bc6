SPECIFICATION FairSpec
CONSTANTS
    Calls = {c1, c2}
    Requests <- MCRequests
    Looks <- MCLooks
    Carries <- MCCarries
    Guards <- MCGuards
    Config <- MCConfig
    Sids = {s1}
    Jtis = {j1}
    Poll = 2
    Skew = 1
    Leeway = 1
    MAX_ENTRIES = 1
    MaxTime = 3
    Never = Never
    Absent = Absent
    Refused = Refused
    Us = Us
    Them = Them
    cert = cert
    key = key
    c1 = c1
    s1 = s1
    j1 = j1
INVARIANTS HandledIsAcceptable RefusedOnlyForCause
PROPERTIES RevocationHonoured ProofReplayedOnlyAtTheEdge RequestsAnswered
CHECK_DEADLOCK FALSE
