SPECIFICATION Spec
CONSTANTS
    RestCalls = {r1}
    GrpcCalls = {}
    OidcCalls = {}
    RefreshCalls = {f1}
    LoginCalls = {l1}
    LogoutCalls = {x1}
    DeviceCalls = {d1}
    Lossy = TRUE
    Boot = Boot
    None = None
INVARIANTS CopiesFollowJar
CHECK_DEADLOCK FALSE
