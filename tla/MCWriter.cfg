SPECIFICATION Spec
CONSTANTS
    c1 = c1
    c2 = c2
    Sources <- MCSources
    Starts <- MCStarts
    Published <- MCPublished
    Gap <- MCGap
    WithProps = {0}
    Expiring = {0, 2}
    QueueSize = 1
    MaxDrops = 1
    Lag = TRUE
    Updates <- MCUpdates
    MaxUpdates = 1
INVARIANTS
    StreamsTellTruth
PROPERTIES
    JoinReturns
CHECK_DEADLOCK FALSE
