------------------------------- MODULE Placement -------------------------------
(***************************************************************************)
(* What isolate/detect.py looks for in a CPU, a function from its threads  *)
(* to the workloads on each: workloads on several packages, and cores with *)
(* several workloads.  The agent reports how many there are; allocators    *)
(* are meant to avoid them.                                                *)
(***************************************************************************)
EXTENDS CpuTopology, FiniteSets

ThreadsWithWorkload(cpu, ts, w) == {t \in ts : w \in cpu[t]}

PackagesWithWorkload(d, cpu, w) ==
    {p \in PackageIds(d) : ThreadsWithWorkload(cpu, PackageThreads(d, p), w) # {}}

\* The workloads that are on more than one package.
CrossPackageViolations(d, cpu) ==
    {w \in UNION {cpu[t] : t \in ThreadIds(d)} :
        Cardinality(PackagesWithWorkload(d, cpu, w)) > 1}

\* The cores, by package and core id, that more than one workload is on.
SharedCoreViolations(d, cpu) ==
    {key \in PackageIds(d) \X CoreIds(d) :
        Cardinality(UNION {cpu[t] : t \in CoreThreads(d, key[1], key[2])}) > 1}

=============================================================================
