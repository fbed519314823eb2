\* One container whose allocation changes at every call: three rounds of two
\* writer threads, in any order, with a crash; and drift of the files is repaired.
CONSTANTS
    c1 = c1
    c2 = c2
    t1 = t1
    t2 = t2
    Containers = {c1}
    Threads = {t1, t2}
    Files = {"cpuset", "quota"}
    Limits = {q1}
    Layouts <- OneContainerLayouts
    MaxCalls = 3
    MaxCrashes = 1
SPECIFICATION FairSpec
INVARIANTS
    SkippingIsSound
PROPERTIES
    DriftIsRepaired
    NoSpuriousExit
\* An agent with no event to process and no thread alive does nothing.
CHECK_DEADLOCK FALSE
