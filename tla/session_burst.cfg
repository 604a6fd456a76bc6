SPECIFICATION Spec
CONSTANTS
    RestCalls = {r1, r2}
    GrpcCalls = {g1}
    OidcCalls = {}
    RefreshCalls = {f1}
    LoginCalls = {}
    LogoutCalls = {}
    DeviceCalls = {}
    Lossy = TRUE
    Boot = Boot
    None = None
INVARIANTS ReplayedOnce SessionKept
PROPERTIES SpentTokenNeverPresented
SYMMETRY Interchangeable
CHECK_DEADLOCK FALSE
