CONSTANTS
    Tasks = {t1, t2}
    Mints = {m1}
    Priorities = {0, 1}
    MaxSize = 2
    BatchSize = 2
    MaxEvents = 4
    MaxSeasons = 1
    MaxSwitches = 1
SPECIFICATION Spec
SYMMETRY Symmetry
INVARIANTS TypeOK ReceiptsAccounted ReservedCapacity OldOnlyDequeued SourceIsolation
PROPERTIES HandoverIsOrdered PromotedInOrder
