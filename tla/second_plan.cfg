SPECIFICATION Spec
CONSTANTS
    None = None
    Manifests <- MCManifests
    Tenants <- MCTenants
    PLAN_PAGE = 1
    MaxRuns = 2
    MaxEdits = 1
INVARIANTS SecondPlanIsEmpty
CHECK_DEADLOCK FALSE
