SPECIFICATION PartsSpec
CONSTANTS
    Streams = {s1, s2}
    Datagrams = {d1}
    Codes = {"TRACK_ENDED", "UPDATE_FAILED"}
    UpdateFailed = "UPDATE_FAILED"
    MaxUpdates = 2
    Publishers = {"p1", "p2"}
    Objects = {1, 2}
    DatagramSubs = {"u1", "u2"}
    sendQueueSize = 1
    Opens = {"o1", "o2"}
    Enders = {"p1", "p2"}
    MaxObject = 1
    NoStreams = "none"
INVARIANTS
    DoneKept
    OneAnswer
    DatagramsAccounted
    DoneIsTrue
PROPERTIES
    PendingAnswered
    ForwardSettles
CHECK_DEADLOCK FALSE
