------------------------------ MODULE CpuModel ------------------------------
(***************************************************************************)
(* The CPU as titus-isolate sees it: hardware threads, each claimed by a   *)
(* set of workloads (model/processor/thread.py keeps a list without        *)
(* duplicates).  Packages and cores play no part in who claims what, so a  *)
(* CPU is a function from threads to sets of workload ids.                 *)
(***************************************************************************)

CONSTANTS
    Threads,      \* hardware thread ids
    Containers    \* container names, which are also the task and workload ids

Cpus == [Threads -> SUBSET Containers]

\* A freshly built CPU, or one after Cpu.clear().
EmptyCpu == [t \in Threads |-> {}]

\* The threads a workload has claimed.
CpusetOf(cpu, w) == {t \in Threads : w \in cpu[t]}

\* The workloads that have claimed some thread.
WorkloadsOn(cpu) == UNION {cpu[t] : t \in Threads}

=============================================================================
