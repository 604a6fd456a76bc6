SPECIFICATION SignInSpec
CONSTANTS
    Logins = {l1}
    Devices = {d1}
    Adoptions = {}
    Refreshes = {}
    Logouts = {}
    Boot = Boot
    None = None
    Tenants = {}
    Reach <- MCReach
    MaxCalls = 2
PROPERTIES SignInIsUsed
CHECK_DEADLOCK FALSE
