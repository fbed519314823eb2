------------------------------ MODULE Allocators ------------------------------
(***************************************************************************)
(* The CPU allocators.  FallbackCpuAllocator gives the request to a primary*)
(* allocator and, when that raises, the same request object to a secondary *)
(* one; the naive and the greedy allocator work on the CPU of the request  *)
(* itself.  The workload manager calls it with a copy of its CPU and with  *)
(* its workloads, and keeps the CPU of the answer.                         *)
(*                                                                         *)
(* A container name stands for the containers with its thread count, so    *)
(* one may be added again after it was removed.  An allocator goes through *)
(* the workloads of a request one at a time; in which order, which is that *)
(* of a dict in the code, is left open.                                    *)
(***************************************************************************)
EXTENDS Integers, Placement, FiniteSetsExt

CONSTANTS
    Containers,
    Machines      \* machines and configurations to look at

AllocatorNames == {"naive", "greedy", "noop", "remote"}

\* "shape": of its CPU; "counts": the threads requested by the pod of each
\* container; "primary" and "secondary": the names of the allocators.
ASSUME MachinesAreConfigured ==
    \A m \in Machines :
        /\ m.shape \in CpuShapes
        /\ m.counts \in [Containers -> Nat]
        /\ m.primary \in AllocatorNames
        /\ m.secondary \in AllocatorNames

VARIABLES
    machine,      \* this machine, which stays the same
    cpu,          \* WorkloadManager.__cpu
    workloads,    \* WorkloadManager.__workloads
    pc,           \* "idle", "asked", or "assigning" while an allocator is at work
    req           \* the request, and the local variables of the allocator

vars == <<machine, cpu, workloads, pc, req>>

ThisShape == machine.shape
ThreadCountOf == machine.counts
Threads == ThreadIds(ThisShape)

Cpus == [Threads -> SUBSET Containers]
EmptyCpu == [t \in Threads |-> {}]

\* "workloads": those of the request; "alloc": the allocator at work, or to work
\* next; "second": whether it is the secondary; "todo": workloads it has not
\* come to; "current", "left", "package": the workload __assign_threads has
\* still to find threads for, if any, how many, and the package it fills.
NoRequest == [cpu |-> EmptyCpu, workloads |-> {}, alloc |-> machine.primary, second |-> FALSE,
              todo |-> {}, current |-> {}, left |-> 0, package |-> -1]

Requests == [cpu : Cpus, workloads : SUBSET Containers, alloc : AllocatorNames,
             second : BOOLEAN, todo : SUBSET Containers, current : SUBSET Containers,
             left : Nat, package : {-1} \cup PackageIds(ThisShape)]

TypeOK ==
    /\ machine \in Machines
    /\ cpu \in Cpus
    /\ workloads \in SUBSET Containers
    /\ pc \in {"idle", "asked", "assigning"}
    /\ req \in Requests
    /\ req.alloc = IF req.second THEN machine.secondary ELSE machine.primary
    /\ req.todo \cup req.current \subseteq req.workloads
    /\ req.todo \cap req.current = {}

Init ==
    /\ machine \in Machines
    /\ cpu = EmptyCpu
    /\ workloads = {}
    /\ pc = "idle"
    /\ req = NoRequest

-----------------------------------------------------------------------------
(* The CPU *)

CpusetOf(c, w) == {t \in Threads : w \in c[t]}
WorkloadsOn(c) == UNION {c[t] : t \in Threads}
EmptyThreads(c) == {t \in Threads : c[t] = {}}
Claim(c, w, ts) == [t \in Threads |-> IF t \in ts THEN c[t] \cup {w} ELSE c[t]]
Keep(c, ws) == [t \in Threads |-> c[t] \cap ws]

EmptyOf(c, ts) == Cardinality(ts \cap EmptyThreads(c))

\* The first of the indices with the largest size.
Largest(size) ==
    CHOOSE i \in DOMAIN size : \A j \in DOMAIN size :
        size[j] < size[i] \/ (size[j] = size[i] /\ i <= j)

EmptiestPackage(c) ==
    Largest([p \in PackageIds(ThisShape) |-> EmptyOf(c, PackageThreads(ThisShape, p))])

\* Mutant: the first core that has an empty thread.
FirstCoreNotFull(c, p) ==
    Largest([k \in CoreIds(ThisShape) |->
                Min({1, EmptyOf(c, CoreThreads(ThisShape, p, k))})])

EmptiestCore(c, p) ==
    Largest([k \in CoreIds(ThisShape) |-> EmptyOf(c, CoreThreads(ThisShape, p, k))])

\* Mutant: one thread more than is wanted.
FirstThreadsAndOne(ts, n) == {t \in ts : Cardinality({u \in ts : u < t}) <= n}

\* The n lowest threads of a core, which are in the order of its rows.
FirstThreads(ts, n) == {t \in ts : Cardinality({u \in ts : u < t}) < n}

-----------------------------------------------------------------------------
(* The workload manager and the fallback allocator *)

\* Removed workloads leave the dict, then added ones enter it.
Ask ==
    /\ pc = "idle"
    /\ \E removes \in SUBSET Containers, adds \in SUBSET Containers :
         req' = [NoRequest EXCEPT !.cpu = cpu, !.workloads = (workloads \ removes) \cup adds]
    /\ pc' = "asked"
    /\ UNCHANGED <<machine, cpu, workloads>>

\* The secondary allocator gets the request as the primary one has left it.
FallBack == [req EXCEPT !.alloc = machine.secondary, !.second = TRUE, !.todo = {},
                        !.current = {}, !.left = 0, !.package = -1]

\* An allocator raises: the fallback allocator turns to the secondary one, and
\* when it is that one which raises isolate fails, and changes nothing.
Raise ==
    /\ IF req.second
       THEN pc' = "idle" /\ req' = NoRequest
       ELSE pc' = "asked" /\ req' = FallBack
    /\ UNCHANGED <<machine, cpu, workloads>>

\* The queue of events is too deep for the primary allocator to be asked.
QueueTooDeep ==
    /\ pc = "asked"
    /\ ~req.second
    /\ Raise

Answer ==
    /\ pc = "assigning"
    /\ req.todo \cup req.current = {}
    /\ cpu' = req.cpu
    /\ workloads' = req.workloads
    /\ pc' = "idle"
    /\ req' = NoRequest
    /\ UNCHANGED machine

-----------------------------------------------------------------------------
Asked(alloc) == pc = "asked" /\ req.alloc = alloc
Assigning(alloc) == pc = "assigning" /\ req.alloc = alloc

Noop ==
    /\ Asked("noop")
    /\ pc' = "assigning"
    /\ UNCHANGED <<machine, cpu, workloads, req>>

\* External: the service gives threads to each workload that is to be placed
\* and to no other.
Remote ==
    /\ Asked("remote")
    /\ \E cpuset \in [req.workloads -> (SUBSET Threads) \ {{}}] :
         req' = [req EXCEPT !.cpu =
                    [t \in Threads |-> {w \in DOMAIN cpuset : t \in cpuset[w]}]]
    /\ pc' = "assigning"
    /\ UNCHANGED <<machine, cpu, workloads>>

\* The service cannot be reached or its answer cannot be read.
RemoteFails == Asked("remote") /\ Raise

-----------------------------------------------------------------------------
(* NaiveCpuAllocator *)

\* Mutant: the threads of removed workloads are not freed.
NaiveBeginsWithoutFreeing ==
    /\ Asked("naive")
    /\ req' = [req EXCEPT !.todo = req.workloads \ WorkloadsOn(req.cpu)]
    /\ pc' = "assigning"
    /\ UNCHANGED <<machine, cpu, workloads>>

\* Mutant: every workload is assigned again.
NaiveBeginsAnew ==
    /\ Asked("naive")
    /\ req' = [req EXCEPT !.cpu = EmptyCpu, !.todo = req.workloads]
    /\ pc' = "assigning"
    /\ UNCHANGED <<machine, cpu, workloads>>

\* Threads of workloads that are not requested are freed; those that are on no
\* thread are to be assigned.
NaiveBegins ==
    /\ Asked("naive")
    /\ LET kept == Keep(req.cpu, req.workloads)
       IN  req' = [req EXCEPT !.cpu = kept, !.todo = req.workloads \ WorkloadsOn(kept)]
    /\ pc' = "assigning"
    /\ UNCHANGED <<machine, cpu, workloads>>

\* Mutants: claimed threads are as good as empty ones; only empty ones count.
AnyThreads(c, n) ==
    {ts \in SUBSET Threads : Cardinality(ts) = Min({n, Cardinality(Threads)})}
EmptyThreadsOnly(c, n) ==
    LET empty == EmptyThreads(c)
    IN  IF Cardinality(empty) >= n
        THEN {ts \in SUBSET empty : Cardinality(ts) = n} ELSE {empty}

\* _get_assign_threads: random empty threads, then random claimed ones.
AssignThreads(c, n) ==
    LET empty == EmptyThreads(c)
        claimed == Threads \ empty
        missing == n - Cardinality(empty)
    IN  IF missing <= 0
        THEN {ts \in SUBSET empty : Cardinality(ts) = n}
        ELSE {empty \cup ts : ts \in
                {s \in SUBSET claimed :
                   Cardinality(s) = Min({missing, Cardinality(claimed)})}}

NaiveAssigns ==
    /\ Assigning("naive")
    /\ \E w \in req.todo : \E ts \in AssignThreads(req.cpu, ThreadCountOf[w]) :
         req' = [req EXCEPT !.cpu = Claim(@, w, ts), !.todo = @ \ {w}]
    /\ UNCHANGED <<machine, cpu, workloads, pc>>

-----------------------------------------------------------------------------
(* GreedyCpuAllocator *)

GreedyBegins ==
    /\ Asked("greedy")
    /\ req' = [req EXCEPT !.cpu = EmptyCpu, !.todo = req.workloads]
    /\ pc' = "assigning"
    /\ UNCHANGED <<machine, cpu, workloads>>

\* The next workload is taken; one that requests no thread is done with.
GreedyTakes ==
    /\ Assigning("greedy")
    /\ req.current = {}
    /\ \E w \in req.todo :
         req' = [req EXCEPT !.todo = @ \ {w}, !.left = ThreadCountOf[w], !.package = -1,
                            !.current = IF ThreadCountOf[w] = 0 THEN {} ELSE {w}]
    /\ UNCHANGED <<machine, cpu, workloads, pc>>

\* Mutant: the emptiest package is looked for again for every core.
AlwaysEmptiestPackage == EmptiestPackage(req.cpu)

\* The package it is filling, as long as it has empty threads.
CurrentPackage ==
    IF /\ req.package # -1
       /\ EmptyOf(req.cpu, PackageThreads(ThisShape, req.package)) > 0
    THEN req.package ELSE EmptiestPackage(req.cpu)

\* The empty threads of the emptiest core of the package, as far as needed.
GreedyClaims ==
    /\ Assigning("greedy")
    /\ EmptyThreads(req.cpu) # {}
    /\ \E w \in req.current :
         LET core == CoreThreads(ThisShape, CurrentPackage,
                                 EmptiestCore(req.cpu, CurrentPackage))
             ts == FirstThreads(core \cap EmptyThreads(req.cpu), req.left)
             left == req.left - Cardinality(ts)
         IN  req' = [req EXCEPT !.cpu = Claim(@, w, ts), !.left = left,
                       !.package = CurrentPackage, !.current = IF left = 0 THEN {} ELSE @]
    /\ UNCHANGED <<machine, cpu, workloads, pc>>

\* Threads are wanted and the CPU is full.
GreedyRaises ==
    /\ Assigning("greedy")
    /\ req.current # {}
    /\ EmptyThreads(req.cpu) = {}
    /\ Raise

-----------------------------------------------------------------------------
Next ==
    \/ Ask
    \/ QueueTooDeep
    \/ Noop
    \/ Remote
    \/ RemoteFails
    \/ NaiveBegins
    \/ NaiveAssigns
    \/ GreedyBegins
    \/ GreedyTakes
    \/ GreedyClaims
    \/ GreedyRaises
    \/ Answer

Spec == Init /\ [][Next]_vars

-----------------------------------------------------------------------------
(* Properties *)

\* What isolation takes for granted: no workload that was removed is left on
\* the CPU, where reconciliation would take its missing cgroup for a mismatch,
\* and every workload that requests threads has some.  Only the no-op allocator
\* breaks it, when it keeps a CPU that is not of the request.
LayoutIsOfTheWorkloads ==
    pc = "idle" /\ "noop" \notin {machine.primary, machine.secondary} =>
        /\ WorkloadsOn(cpu) \subseteq workloads
        /\ \A w \in workloads : ThreadCountOf[w] > 0 => CpusetOf(cpu, w) # {}

\* Falling back to the naive allocator moves no workload: those that stay keep
\* their threads while others are added and removed.  It does not hold of the
\* greedy allocator as the primary one, which clears the CPU of the request and
\* may raise half-way.
StayersAreNotMoved ==
    pc = "assigning" /\ req.alloc = "naive" /\ machine.primary # "greedy" =>
        \A w \in workloads \cap req.workloads :
            CpusetOf(cpu, w) # {} => CpusetOf(req.cpu, w) = CpusetOf(cpu, w)

\* The naive allocator has workloads share a thread only when it has no empty
\* thread left.
SharesWhenFull ==
    [][Assigning("naive") /\ req.todo # {} =>
          \A t \in Threads :
             req.cpu[t] # {} /\ req'.cpu[t] # req.cpu[t] => EmptyThreads(req'.cpu) = {}]_vars

\* Where the naive allocator works alone, a workload has as many threads as it
\* requests, or all there are.
ThreadsAsRequested ==
    pc = "idle" /\ {machine.primary, machine.secondary} = {"naive"} =>
        \A w \in workloads :
            Cardinality(CpusetOf(cpu, w)) =
                Min({ThreadCountOf[w], Cardinality(Threads)})

\* The greedy allocator puts a workload on several packages only when it found
\* none with as many empty threads as the workload requests.
CrossesOnlyIfItFitsNowhere ==
    pc = "assigning" /\ req.alloc = "greedy" =>
        \A w \in CrossPackageViolations(ThisShape, req.cpu) :
            \A p \in PackageIds(ThisShape) :
                LET ts == PackageThreads(ThisShape, p)
                IN  EmptyOf(req.cpu, ts) + Cardinality(ThreadsWithWorkload(req.cpu, ts, w))
                        < ThreadCountOf[w]

\* The greedy allocator has workloads share a core only in a package where no
\* core is empty.
SharesCoresWhenNoneIsEmpty ==
    pc = "assigning" /\ req.alloc = "greedy" =>
        \A key \in SharedCoreViolations(ThisShape, req.cpu) :
            \A k \in CoreIds(ThisShape) :
                LET ts == CoreThreads(ThisShape, key[1], k)
                IN  EmptyOf(req.cpu, ts) < Cardinality(ts)

=============================================================================
