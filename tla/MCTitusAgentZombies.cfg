\* One Titus container, rebalances that change the layout, and a broken stream.
CONSTANTS
    c1 = c1
    c2 = c2
    Containers = {c1}
    Titus = {c1}
    Others = {}
    Unreadable = {}
    InternalEvents = {"rebalance", "reconcile"}
    MaxBreaks = 1
    MaxFailures = 0
    MaxMoves = 1
    MaxCrashes = 0
SPECIFICATION FairSpec
PROPERTIES
    ZombiesAreCleared

\* An agent without events may have nothing to do.
CHECK_DEADLOCK FALSE
