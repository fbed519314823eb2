\* Two containers, whose only asynchronous file is the cpuset.
CONSTANTS
    c1 = c1
    c2 = c2
    t1 = t1
    t2 = t2
    Containers = {c1, c2}
    Threads = {t1, t2}
    Files = {"cpuset"}
    Limits = {q1}
    Layouts <- TwoContainerLayouts
    MaxCalls = 2
    MaxCrashes = 1
SPECIFICATION Spec
SYMMETRY Symmetry
INVARIANTS
    SettledInv
    SettledIsIsolated
PROPERTIES
    ManagerKeepsWorkloads
CHECK_DEADLOCK FALSE
