SPECIFICATION PartsSpec
CONSTANTS
    MaxTracked = 2
    MaxID = 11
    DemuxAliases = {"x1", "x2"}
    FetchIDs = {"f1"}
    DataStreams <- MCDataStreams
    Callers = {"c1", "c2"}
    parkLimit = 2
    parkTotalLimit = 3
    RouterStreams = {"s1", "s2"}
    AliasSubs = {"s1", "s2", "s3"}
    AliasStreams = {"d1", "d2"}
    AliasNames = {"a1", "a2"}
    NoAlias = "none"
    AliasTrack <- MCAliasTrack
    MaxEarly = 1
INVARIANTS
    ClaimedOnce
    ReorderTolerated
    RequestsHonoured
    TrueCause
    SetupKeepsStreams
    StreamsPlaced
    AliasWhileLive
    RendezvousKept
PROPERTIES
    CreditReturned
    EndSpreads
CHECK_DEADLOCK FALSE
