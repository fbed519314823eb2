\* One container: is its cpuset written before it is reported as isolated?
CONSTANTS
    c1 = c1
    c2 = c2
    t1 = t1
    t2 = t2
    Containers = {c1}
    Threads = {t1, t2}
    Files = {"cpuset", "quota"}
    Limits = {q1}
    Layouts <- OneContainerLayouts
    MaxCalls = 3
    MaxCrashes = 1
SPECIFICATION Spec
INVARIANTS
    CpusetFirst
CHECK_DEADLOCK FALSE
