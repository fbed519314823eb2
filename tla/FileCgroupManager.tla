-------------------------- MODULE FileCgroupManager --------------------------
(***************************************************************************)
(* FileCgroupManager: writes the cgroup files of containers.  The cpuset,  *)
(* quota and shares of a container are written by one thread each, started *)
(* by the caller and never joined; the memory flags are written by the     *)
(* caller itself.  Every successful write, of any file, makes the container*)
(* count as isolated.  Writes that fail are counted and never retried.     *)
(*                                                                         *)
(* This module holds the state of the component and one operator per       *)
(* operation; WorkloadManager and Isolation compose them.                  *)
(***************************************************************************)
EXTENDS Naturals, CpuModel

CONSTANTS
    Files,        \* cgroup files written by a thread of their own
    Limits        \* contents of those other than the cpuset

ASSUME CpusetIsAFile == "cpuset" \in Files
ASSUME SomeLimit == Limits # {}

\* What a cgroup file may hold: a set of threads, or a quota or shares value.
Values == (SUBSET Threads) \cup Limits

\* WorkloadAllocateResponse: what the files of a workload are to hold.  Quota
\* and shares change together.  The memory flags come from the configuration
\* and do not change.
Alloc(cpuset, limit) == [f \in Files |-> IF f = "cpuset" THEN cpuset ELSE limit]
Allocs == {Alloc(cpuset, limit) : cpuset \in SUBSET Threads, limit \in Limits}

VARIABLES
    container,    \* external: the life of each container and of its cgroup
    file,         \* external: contents of the cgroup files, and who wrote them
    writers,      \* __threads: writer threads that are still alive
    isolated,     \* __isolated_workload_ids
    gen,          \* number of set_cpuset/set_quota/set_shares rounds so far
    asked         \* the newest round of this process for each container, or 0

cgroupVars == <<container, file, writers, isolated, gen, asked>>

\* A writer thread is about to write its file ("write") or has written it and
\* is about to record the container as isolated ("record").  "n" is the round
\* that started the thread: it identifies the thread, and the code has no use
\* of it.
WriterThreads == [n : Nat, c : Containers, f : Files, val : Values,
            st : {"write", "record"}]

\* What a file holds, and the round that wrote it: 0 for the container runtime.
Contents == [val : Values, by : Nat]

CgroupTypeOK ==
    /\ container \in [Containers -> {"absent", "running", "gone"}]
    /\ file \in [Containers -> [Files -> Contents]]
    /\ writers \in SUBSET WriterThreads
    /\ isolated \in SUBSET Containers
    /\ gen \in Nat
    /\ asked \in [Containers -> Nat]

HasCgroup(c) == container[c] = "running"

-----------------------------------------------------------------------------
(* Operations called by the other components *)

\* A round of set_cpuset, set_quota and set_shares of container c that gets to
\* the files fs: each starts a thread.
StartWriters(c, alloc, fs) ==
    /\ gen' = gen + 1
    /\ asked' = [asked EXCEPT ![c] = gen + 1]
    /\ writers' = writers \cup
         {[n |-> gen + 1, c |-> c, f |-> f, val |-> alloc[f], st |-> "write"]
            : f \in fs}
    /\ UNCHANGED <<container, file, isolated>>

\* set_memory_migrate, set_memory_spread_page and set_memory_spread_slab, in
\* the calling thread.  A write may fail, and does when the cgroup is gone.
SetMemory(c) ==
    /\ \/ HasCgroup(c) /\ isolated' = isolated \cup {c}
       \/ isolated' = isolated
    /\ UNCHANGED <<container, file, writers, gen, asked>>

\* Mutant: the set is emptied.
ReleaseEverything(cs) == isolated' = {}

ReleaseContainers(cs) == isolated' = isolated \ cs

\* Mutants: threads that have not written yet are not counted; threads that
\* have ended are.
HasPendingRecord == \E t \in writers : t.st = "record"
HasEverHadWork == gen > 0

HasPendingWork == writers # {}

\* Reading the cpuset of a container without a cgroup gives the empty list.
GetCpuset(c) == IF HasCgroup(c) THEN file[c]["cpuset"].val ELSE {}

-----------------------------------------------------------------------------
(* Steps of the writer threads *)

\* Mutant: the thread ends without recording its container.
WriteFileOnly(t) ==
    /\ t \in writers
    /\ t.st = "write"
    /\ HasCgroup(t.c)
    /\ file' = [file EXCEPT ![t.c][t.f] = [val |-> t.val, by |-> t.n]]
    /\ writers' = writers \ {t}
    /\ UNCHANGED <<container, isolated, gen, asked>>

\* The thread resolves the path of its file and writes it.
WriteFile(t) ==
    /\ t \in writers
    /\ t.st = "write"
    /\ HasCgroup(t.c)
    /\ file' = [file EXCEPT ![t.c][t.f] = [val |-> t.val, by |-> t.n]]
    /\ writers' = (writers \ {t}) \cup {[t EXCEPT !.st = "record"]}
    /\ UNCHANGED <<container, isolated, gen, asked>>

\* The write raises: the failure is counted, and the thread ends.
WriteFails(t) ==
    /\ t \in writers
    /\ t.st = "write"
    /\ writers' = writers \ {t}
    /\ UNCHANGED <<container, file, isolated, gen, asked>>

\* The thread adds its container to the isolated ones, and ends.
RecordIsolated(t) ==
    /\ t \in writers
    /\ t.st = "record"
    /\ isolated' = isolated \cup {t.c}
    /\ writers' = writers \ {t}
    /\ UNCHANGED <<container, file, gen, asked>>

WriterStep ==
    \E t \in writers : WriteFile(t) \/ WriteFails(t) \/ RecordIsolated(t)

-----------------------------------------------------------------------------
(* The container runtime *)

\* The runtime creates the container, whose files it fills.  A container name
\* is the id of a task, and never comes back once the container is gone.
ContainerStarts(c) ==
    /\ container[c] = "absent"
    /\ container' = [container EXCEPT ![c] = "running"]
    /\ UNCHANGED <<file, writers, isolated, gen, asked>>

ContainerDies(c) ==
    /\ container[c] = "running"
    /\ container' = [container EXCEPT ![c] = "gone"]
    /\ UNCHANGED <<file, writers, isolated, gen, asked>>

=============================================================================
