SPECIFICATION PartsSpec
CONSTANTS
    p1 = p1
    p2 = p2
    p3 = p3
    qp = qp
    s1 = s1
    s2 = s2
    h = h
    a1 = a1
    a2 = a2
    w = w
    v1 = v1
    v2 = v2
    NoValue = NoValue
    Pubs = {p1, p2, p3}
    Feeds = {qp}
    Subs = {s1, s2, h}
    Held = {h}
    Steady = {p1, p2}
    Casts <- MCCasts
INVARIANTS
    UpstreamsInStep
    PublishersAsked
    OfferedExactlyOnce
    CandidatesAgree
    CachesAgree
    UpdatesInStep
SYMMETRY Symmetry
CHECK_DEADLOCK FALSE
