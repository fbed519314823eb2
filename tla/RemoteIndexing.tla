---------------------------- MODULE RemoteIndexing ----------------------------
(***************************************************************************)
(* The ids of threads in the calls of the remote allocator: the thread a   *)
(* workload has is sent under its natural index, and the ones it is to     *)
(* have come back as natural indexes, from a service that knows no more of *)
(* the CPU than its packages, their number of cores, and the number of     *)
(* threads per core.                                                       *)
(***************************************************************************)
EXTENDS Integers, CpuTopology

CONSTANT Shapes     \* shapes of CPU to look at

ASSUME ShapesOfCpus == Shapes \subseteq CpuShapes

VARIABLES
    shape,        \* the shape of this machine's CPU
    id,           \* original id of the thread the workload has
    index         \* natural index of it on its way to or from the service

indexingVars == <<shape, id, index>>

None == -1

IndexingTypeOK ==
    /\ shape \in Shapes
    /\ id \in 0 .. ThreadCount(shape) - 1
    /\ index \in {None} \cup (0 .. ThreadCount(shape) - 1)

IndexingInit ==
    /\ shape \in Shapes
    /\ id \in ThreadIds(shape)
    /\ index = None

\* __build_base_req
BuildRequest ==
    /\ index = None
    /\ index' = Original2Natural(shape)[id]
    /\ UNCHANGED <<shape, id>>

\* External: the service moves the workload to the next thread of its core.
Respond ==
    /\ index # None
    /\ LET core == index - (index % shape.threads)
       IN  index' = core + ((index + 1) % shape.threads)
    /\ UNCHANGED <<shape, id>>

\* __deser
Deserialize ==
    /\ index # None
    /\ id' = Natural2Original(shape)[index]
    /\ index' = None
    /\ UNCHANGED shape

IndexingNext == BuildRequest \/ Respond \/ Deserialize

IndexingSpec == IndexingInit /\ [][IndexingNext]_indexingVars

-----------------------------------------------------------------------------
\* Every thread of every core has an id of its own, from 0 up without a gap, as
\* the kernel numbers them: no two cores are given the same hardware thread.
IdsAreDistinct ==
    /\ ThreadIds(shape) = 0 .. ThreadCount(shape) - 1
    /\ \A p, q \in PackageIds(shape), c, e \in CoreIds(shape) :
         <<p, c>> # <<q, e>> => CoreThreads(shape, p, c) \cap CoreThreads(shape, q, e) = {}

\* Sent to the service and back, whatever it does on the core it sees, the
\* workload stays on the core of the CPU it was on.
StaysOnItsCore ==
    [][\A p \in PackageIds(shape), c \in CoreIds(shape) :
         id \in CoreThreads(shape, p, c) <=> id' \in CoreThreads(shape, p, c)]_indexingVars

=============================================================================
