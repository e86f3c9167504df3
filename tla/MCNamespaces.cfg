SPECIFICATION PartsSpec
CONSTANTS
    p1 = p1
    p2 = p2
    r1 = r1
    r2 = r2
    e1 = e1
    e2 = e2
    Me = me
    Names <- MCNames
    Requested <- MCRequested
    Publishers = {p1, p2}
    Peers = {r1, r2}
    Subs = {e1, e2}
    MaxToggles = 3
    MaxMoves = 1
    Buffer = 1
    MaxUnsent = 2
    Casts <- MCCasts
INVARIANTS
    NamespacesInStep
    SessionsOwned
PROPERTIES
    RemoteConverges
    StopCompletes
CHECK_DEADLOCK FALSE
