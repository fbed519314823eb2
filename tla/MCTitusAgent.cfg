\* Two Titus containers: no container is missed.  A pod may
\* be one that cannot be read.
CONSTANTS
    c1 = c1
    c2 = c2
    Containers = {c1, c2}
    Titus = {c1, c2}
    Others = {}
    Unreadable = {c1, c2}
    InternalEvents = {"reconcile"}
    MaxBreaks = 0
    MaxFailures = 1
    MaxMoves = 0
    MaxCrashes = 1
SPECIFICATION Spec
SYMMETRY Symmetry
INVARIANTS
    TypeOK
    NoContainerIsMissed
    ZombiesHaveACause
PROPERTIES
    AgentKeepsWorkloads
\* An agent without events may have nothing to do.
CHECK_DEADLOCK FALSE
