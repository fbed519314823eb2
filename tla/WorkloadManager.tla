--------------------------- MODULE WorkloadManager ---------------------------
(***************************************************************************)
(* WorkloadManager.isolate: adds and removes workloads, asks the allocator *)
(* for a new layout of the CPU, has the cgroup manager apply what changed, *)
(* and only then makes the layout its own.  One caller at a time holds     *)
(* __lock, so the local variables of __isolate are kept in one record; the *)
(* writer threads of the cgroup manager run between any two of its steps.  *)
(***************************************************************************)
EXTENDS FileCgroupManager

CONSTANTS
    Layouts,      \* the layouts of the CPU that the allocator may answer
    MaxCalls      \* bound: calls of isolate

ASSUME LayoutsAreCpus == Layouts \subseteq Cpus

VARIABLES
    cpu,          \* __cpu
    workloads,    \* the keys of __workloads
    last,         \* the workload allocations of __last_response
    pc,           \* where the call of isolate is, "idle" when there is none
    call,         \* local variables of __isolate and __apply_isolation
    calls,        \* number of calls of isolate so far
    halfway       \* rounds of writes started by calls that failed thereafter;
                  \* the code keeps no record of them

managerVars == <<cpu, workloads, last, pc, call, calls, halfway>>

\* The workload allocations of a response: one per workload at most.
AllocMaps == UNION {[ws -> Allocs] : ws \in SUBSET Containers}
NoAllocs == [w \in {} |-> {}]

\* "workloads": new_workloads; "cpu" and "allocs": the response; "todo":
\* allocations still to apply; "current": the one whose memory flags are next.
\* "since" is the number of rounds before the call: of no use to the code.
Calls == [workloads : SUBSET Containers, cpu : Cpus, allocs : AllocMaps,
          todo : SUBSET Containers, current : SUBSET Containers, since : Nat]

NoCall == [workloads |-> {}, cpu |-> EmptyCpu, allocs |-> NoAllocs,
           todo |-> {}, current |-> {}, since |-> 0]

ManagerTypeOK ==
    /\ cpu \in Cpus
    /\ workloads \in SUBSET Containers
    /\ last \in AllocMaps
    /\ pc \in {"idle", "allocate", "apply", "memory"}
    /\ call \in Calls
    /\ call.todo \subseteq DOMAIN call.allocs
    /\ calls \in Nat
    /\ halfway \in SUBSET Nat

\* The state of a WorkloadManager just constructed.
NewManager ==
    /\ cpu = EmptyCpu
    /\ workloads = {}
    /\ last = NoAllocs
    /\ pc = "idle"
    /\ call = NoCall
    /\ halfway = {}

\* get_workload_allocations: the workloads with a thread on the CPU get those
\* threads as cpuset; their quota and shares are up to the allocator.
AllocationsOf(layout) ==
    {[w \in WorkloadsOn(layout) |-> Alloc(CpusetOf(layout, w), limit[w])] :
        limit \in [WorkloadsOn(layout) -> Limits]}

-----------------------------------------------------------------------------
\* A caller takes __lock.  The removed workloads are released and dropped from
\* the copy of the workload map, and only then are the new ones put in it.
BeginIsolate(adds, removes) ==
    /\ pc = "idle"
    /\ calls < MaxCalls
    /\ calls' = calls + 1
    /\ ReleaseContainers(removes)
    /\ call' = [NoCall EXCEPT !.workloads = (workloads \ removes) \cup adds,
                              !.since = gen]
    /\ pc' = "allocate"
    /\ UNCHANGED <<container, file, writers, gen, asked, cpu, workloads, last, halfway>>

\* Mutant: workloads that the last response knows are skipped, changed or not.
AllocateForNew ==
    /\ pc = "allocate"
    /\ \E layout \in Layouts :
         /\ WorkloadsOn(layout) \subseteq call.workloads
         /\ \E allocs \in AllocationsOf(layout) :
              call' = [call EXCEPT
                !.cpu = layout, !.allocs = allocs,
                !.todo = DOMAIN allocs \ DOMAIN last]
    /\ pc' = "apply"
    /\ UNCHANGED <<cgroupVars, cpu, workloads, last, calls, halfway>>

\* The allocator answers with a layout of requested workloads only.  What
\* differs from the last response is to be applied.
Allocate ==
    /\ pc = "allocate"
    /\ \E layout \in Layouts :
         /\ WorkloadsOn(layout) \subseteq call.workloads
         /\ \E allocs \in AllocationsOf(layout) :
              call' = [call EXCEPT
                !.cpu = layout,
                !.allocs = allocs,
                !.todo = {w \in DOMAIN allocs :
                            w \in DOMAIN last => last[w] # allocs[w]}]
    /\ pc' = "apply"
    /\ UNCHANGED <<cgroupVars, cpu, workloads, last, calls, halfway>>

\* The request or the allocator raises: isolate logs, returns False, and what
\* it was asked to add and remove is forgotten.
AllocateFails ==
    /\ pc = "allocate"
    /\ pc' = "idle"
    /\ call' = NoCall
    /\ UNCHANGED <<cgroupVars, cpu, workloads, last, calls, halfway>>

\* __apply_isolation starts the writer threads of one changed allocation ...
Apply(w) ==
    /\ pc = "apply"
    /\ w \in call.todo
    /\ StartWriters(w, call.allocs[w], Files)
    /\ call' = [call EXCEPT !.current = {w}]
    /\ pc' = "memory"
    /\ UNCHANGED <<cpu, workloads, last, calls, halfway>>

\* No thread can be started for one of its files, the cpuset being the first:
\* isolate returns False as above, but the writers already started, for this
\* workload and for those before it, go on.
ApplyFails(w) ==
    /\ pc = "apply"
    /\ w \in call.todo
    /\ \/ UNCHANGED cgroupVars
       \/ \E fs \in SUBSET Files :
            "cpuset" \in fs /\ fs # Files /\ StartWriters(w, call.allocs[w], fs)
    /\ halfway' = halfway \cup ((call.since + 1)..gen')
    /\ pc' = "idle"
    /\ call' = NoCall
    /\ UNCHANGED <<cpu, workloads, last, calls>>

\* ... and writes its memory flags itself.
ApplyMemory(w) ==
    /\ pc = "memory"
    /\ w \in call.current
    /\ SetMemory(w)
    /\ call' = [call EXCEPT !.current = {}, !.todo = @ \ {w}]
    /\ pc' = "apply"
    /\ UNCHANGED <<cpu, workloads, last, calls, halfway>>

\* Mutant: only those with a thread on the CPU become the workloads.
CommitPlaced ==
    /\ pc = "apply"
    /\ call.todo = {}
    /\ cpu' = call.cpu
    /\ workloads' = WorkloadsOn(call.cpu)
    /\ last' = call.allocs
    /\ pc' = "idle"
    /\ call' = NoCall
    /\ UNCHANGED <<cgroupVars, calls, halfway>>

\* Every allocation is applied: __cpu, __workloads and __last_response follow.
Commit ==
    /\ pc = "apply"
    /\ call.todo = {}
    /\ cpu' = call.cpu
    /\ workloads' = call.workloads
    /\ last' = call.allocs
    /\ pc' = "idle"
    /\ call' = NoCall
    /\ UNCHANGED <<cgroupVars, calls, halfway>>

IsolateStep ==
    \/ Allocate
    \/ AllocateFails
    \/ \E w \in Containers : Apply(w) \/ ApplyFails(w) \/ ApplyMemory(w)
    \/ Commit

=============================================================================
