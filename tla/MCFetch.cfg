SPECIFICATION PartsSpec
CONSTANTS
    MaxGroup = 2
    MaxID = 1
    StartLocation <- StartMid
    EndLocation <- EndMid
    MaxSpecial = 1
    MaxMarkers = 2
    Caps = TRUE
    Kinds = {"object", "unknown", "timedOut"}
INVARIANTS
    ResponseRight
    ReadAsWritten
    PastMeetsLive
    FiltersAsMeant
CHECK_DEADLOCK FALSE
