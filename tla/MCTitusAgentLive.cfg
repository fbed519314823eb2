\* One Titus container, whose pod may be one that cannot be read: a broken stream,
\* a call of isolate that fails, a crash.
CONSTANTS
    c1 = c1
    c2 = c2
    Containers = {c1}
    Titus = {c1}
    Others = {c1}
    Unreadable = {c1}
    InternalEvents = {"reconcile"}
    MaxBreaks = 1
    MaxFailures = 1
    MaxMoves = 0
    MaxCrashes = 1
SPECIFICATION FairSpec
PROPERTIES
    ContainersAreTracked
    AgentComesBack

\* An agent without events may have nothing to do.
CHECK_DEADLOCK FALSE
