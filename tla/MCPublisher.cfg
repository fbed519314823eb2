\* Two pods, two events; a watch that fails.
CONSTANTS
    p1 = p1
    p2 = p2
    e1 = e1
    e2 = e2
    NoThread = NoThread
    Pods = {p1, p2}
    Threads = {e1, e2}
    MaxFailures = 1
    MaxHangs = 1
SPECIFICATION MCSpec
INVARIANTS
    TypeOK
    CacheIsCurrent
    EveryPublicationIsCounted
PROPERTIES
    PublishedNeverGoesBack
    PodsBecomeKnown
    PublicationsEnd
\* Pods come and go once, and the events are bounded.
CHECK_DEADLOCK FALSE
