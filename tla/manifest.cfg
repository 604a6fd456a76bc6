SPECIFICATION Spec
CONSTANTS
    None = None
    Manifests <- MCManifests
    Tenants <- MCTenants
    PLAN_PAGE = 1
    MaxRuns = 2
    MaxEdits = 1
INVARIANTS Reconciled BindingAccounted NothingUnresolved
PROPERTIES UnstatedKept
CHECK_DEADLOCK FALSE
