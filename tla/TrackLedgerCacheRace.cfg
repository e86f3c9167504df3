CONSTANTS
    Objects <- TrackEndObjects
    Contributors = {c1, c2}
    Window = 2
    CacheSize = 3
    MaxID = 1
SPECIFICATION Spec
INVARIANTS CondemnedNotCached
