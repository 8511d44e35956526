CONSTANTS
    Tasks = {t1}
    Mints = {m1}
    Priorities = {0, 1}
    MaxSize = 1
    BatchSize = 1
    MaxEvents = 2
    MaxSeasons = 1
    MaxSwitches = 0
SPECIFICATION Spec
PROPERTIES HandoverAfterAdmitted
