SPECIFICATION Spec
CONSTANTS
    Logins = {l1}
    Devices = {d1}
    Adoptions = {a1}
    Refreshes = {f1}
    Logouts = {x1}
    Boot = Boot
    None = None
    Tenants = {t1}
    Reach <- MCReach
    MaxCalls = 2
    Checks = {c1, c2}
    Questions = {q}
    RequestedTtl = 2
    MAX_TTL = 1
    MAX_ENTRIES = 2
    MAX_ATTEMPTS = 2
    BASE_DELAY = 0
    MAX_DELAY = 0
INVARIANTS AnswersItsQuestion GateKnowsWhom
PROPERTIES ServedWithinCeiling InheritedOnlyFromOverlap
SYMMETRY Interchangeable
CHECK_DEADLOCK FALSE
