\* Four machines, three containers; CPUs of up to 3 packages of up to 5 cores of up
\* to 4 threads.
CONSTANTS
    c1 = c1
    c2 = c2
    c3 = c3
    Containers = {c1, c2, c3}
    Machines <- SmallMachines
    MaxPackages = 3
    MaxCores = 5
    MaxThreads = 4
    Shapes <- SmallShapes
SPECIFICATION MCSpec
INVARIANTS
    TypeOK
    LayoutIsOfTheWorkloads
    StayersAreNotMoved
    ThreadsAsRequested
    CrossesOnlyIfItFitsNowhere
    SharesCoresWhenNoneIsEmpty
    IndexingTypeOK
    IdsAreDistinct
PROPERTIES
    SharesWhenFull
    StaysOnItsCore
