SPECIFICATION Spec
CONSTANTS
    Contributors = {c1, c2}
    Subs = {s1}
    Filling = {s1}
    Published = {0, 2, 3}
    MaxStreams = 2
    AgesOut = TRUE
    Aborts = TRUE
INVARIANTS
    HandedOnce
SYMMETRY Interchangeable
CHECK_DEADLOCK FALSE
