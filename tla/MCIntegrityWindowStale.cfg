\* Fresh timestamps, but an observer that waits for the incident store.
SPECIFICATION Spec
CONSTANTS
    Mints = {m1}
    Window = 3
    MaxGapMints = 2
    MaxLag = 0
    MaxTime = 6
    MaxReconnects = 3
SYMMETRY MintSymmetry
INVARIANTS
    NoOutageInWindow
CHECK_DEADLOCK FALSE
