\* One container: are its threads freed when it dies?
CONSTANTS
    c1 = c1
    c2 = c2
    Containers = {c1}
    Titus = {c1}
    Others = {}
    Unreadable = {}
    InternalEvents = {"reconcile"}
    MaxBreaks = 0
    MaxFailures = 0
    MaxMoves = 0
    MaxCrashes = 0
SPECIFICATION Spec
INVARIANTS
    FreedOnceHandled

\* An agent without events may have nothing to do.
CHECK_DEADLOCK FALSE
