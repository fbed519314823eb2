\* Two Titus containers, a periodic event, a broken stream and a stop.
CONSTANTS
    c1 = c1
    c2 = c2
    Containers = {c1, c2}
    Titus = {c1, c2}
    Others = {c2}
    InternalEvents = {"reconcile"}
    MaxBreaks = 1
    MayStop = TRUE
SPECIFICATION FairSpec
PROPERTIES
    DeliversInOrder
    DeliversAll
\* A stopped event manager does nothing more.
CHECK_DEADLOCK FALSE
