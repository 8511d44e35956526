\* Season operations, storage maintenance and the AI lab, one part at a time.
SPECIFICATION OperationsSpec
CONSTANTS
    Target = 2
    Evidence = 2
    MaxArrivals = 1
    MaxPolicies = 1
    MaxUpgradeTries = 1
    MaxOps = 4
    MaxUpgradePreps = 1
    MaxStops = 1
    MaxDbFailures = 2
    MaxSeasons = 3
    Mints = {t1, t2}
    Models = {m1, m2}
    NoModel = nm
    QueueCapacity = 1
    MaxRows = 2
SYMMETRY LabSymmetry
PROPERTIES
    CleanupCompletes
    
    
CHECK_DEADLOCK FALSE
