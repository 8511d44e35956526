CONSTANTS
    Tasks = {t1, t2}
    Mints = {m1}
    Priorities = {0}
    MaxSize = 1
    BatchSize = 1
    MaxEvents = 3
    MaxSeasons = 1
    MaxSwitches = 0
SPECIFICATION FairSpec
PROPERTIES BoundaryDrains CriticalAdmitted
