\* One optional stream of two scopes against deques of two and a queue of one interval;
\* the writer may fail, be stopped or be refused at every step.
SPECIFICATION Spec
CONSTANTS
    NONE = NONE
    Keys = {"collection"}
    Scopes = {old, new}
    EventCap = 2
    QueueCap = 1
    PublicationCap = 1
    Gaps = {FALSE}
    MaxEvents = 3
    MaxIntervals = 2
    MaxFailures = 1
    FailsFrom = 3
SYMMETRY ScopeSymmetry
INVARIANTS
    EventsAccounted
    LossesAdmitted
    WriterNeverStranded
PROPERTIES
    ProtectedLast
CHECK_DEADLOCK FALSE
