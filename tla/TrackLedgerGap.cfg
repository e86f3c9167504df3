CONSTANTS
    Objects <- LateGroupObjects
    Contributors = {c1, c2}
    Window = 2
    CacheSize = 1
    MaxID = 3
SPECIFICATION Spec
SYMMETRY Symmetry
INVARIANT AbsentForever
