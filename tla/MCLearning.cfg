\* Training, authority, coach studies, the continuity guard and the season clock, in turn.
SPECIFICATION LearningSpec
CONSTANTS
    Grace = 3
    MaxGap = 1
    PauseReset = 3
    CheckpointEvery = 2
    Resolution = 2
    MaxNow = 6
    MaxBack = 1
    MaxRestarts = 1
    MaxUpgrades = 2
    NIL = nil
    Cohorts = {ca, cb}
    Own = ca
    NoCohort = nc
    MaxArtifacts = 1
    MaxVersions = 3
    MaxOutcomes = 2
    MaxMoves = 2
    MaxStops = 1
    MaxWriteErrors = 1
    Skills = {1, 2}
    Contextual = {2}
    MaxCrowns = 3
    MaxJoins = 3
    MaxSwitches = 1
    MaxAuthorityErrors = 1
    MaxRestores = 1
    Contexts = {k1, k2}
    Page = 2
    MinSamples = 1
    RejectSamples = 2
    MaxObserved = 2
    Availability = 50
    KeepComplete = 1
    MaxStudies = 2
    MaxEpisodes = 2
    MaxContextMoves = 2
    MaxCoachRestarts = 1
    Mints = {m1, m2}
    Window = 2
    MaxGapMints = 1
    MaxLag = 1
    MaxTime = 4
    MaxReconnects = 1
INVARIANTS
    
    NoLossInWindow
    OutagesExcluded

    
    
    
CHECK_DEADLOCK FALSE
