SPECIFICATION FairSpec
CONSTANTS
    RestCalls = {r1}
    GrpcCalls = {g1}
    OidcCalls = {o1, o2}
    RefreshCalls = {}
    LoginCalls = {}
    LogoutCalls = {}
    DeviceCalls = {}
    Lossy = TRUE
    Boot = Boot
    None = None
PROPERTIES OidcReturnsItsOwnTokens SharesOneRefresh CallsSettle
CHECK_DEADLOCK FALSE
