------------------------------ MODULE Isolation ------------------------------
(***************************************************************************)
(* The part of the agent that puts layouts in force: WorkloadManager, the  *)
(* FileCgroupManager it drives, the Reconciler that compares the two, and  *)
(* the process they live in, which the reconciler ends when they differ    *)
(* and systemd starts again.                                               *)
(*                                                                         *)
(* isolate and reconcile are called by one thread (the one that processes  *)
(* events, and before it starts the one that runs init), hence never at    *)
(* the same time.                                                          *)
(***************************************************************************)
EXTENDS WorkloadManager

CONSTANT MaxCrashes   \* bound: ends of the process for other reasons

VARIABLES
    process,      \* "up", or "down" once the process has ended
    crashes       \* number of times it ended for reasons foreign to isolation

vars == <<cgroupVars, managerVars, process, crashes>>

TypeOK ==
    /\ CgroupTypeOK
    /\ ManagerTypeOK
    /\ process \in {"up", "down"}
    /\ crashes \in Nat

Init ==
    /\ container \in [Containers -> {"absent", "running"}]
    /\ file = [c \in Containers |-> [f \in Files |->
                 [val |-> IF f = "cpuset" THEN Threads ELSE CHOOSE l \in Limits : TRUE,
                  by |-> 0]]]
    /\ writers = {}
    /\ isolated = {}
    /\ gen = 0
    /\ asked = [c \in Containers |-> 0]
    /\ NewManager
    /\ calls = 0
    /\ process = "up"
    /\ crashes = 0

-----------------------------------------------------------------------------
(* The process *)

\* os._exit: the threads and the memory of the process are gone, the cgroup
\* files stay.
EndProcess ==
    /\ process' = "down"
    /\ writers' = {}
    /\ isolated' = {}
    /\ asked' = [c \in Containers |-> 0]
    /\ cpu' = EmptyCpu
    /\ workloads' = {}
    /\ last' = NoAllocs
    /\ pc' = "idle"
    /\ call' = NoCall
    /\ halfway' = {}
    /\ UNCHANGED <<container, file, gen, calls>>

\* A property changed, the scheduling loop failed, or systemd's watchdog fired.
Crash ==
    /\ process = "up"
    /\ crashes < MaxCrashes
    /\ crashes' = crashes + 1
    /\ EndProcess

Restart ==
    /\ process = "down"
    /\ process' = "up"
    /\ UNCHANGED <<cgroupVars, managerVars, crashes>>

-----------------------------------------------------------------------------
(* The reconciler *)

\* The workloads whose cpuset file differs from the threads they claim.
Mismatched == {w \in WorkloadsOn(cpu) : GetCpuset(w) # CpusetOf(cpu, w)}

\* Reconciler.reconcile when it has work to do and finds a mismatch.  Skipping
\* while writers are alive, or finding none, changes nothing but counters.
ReconcileFails ==
    /\ process = "up"
    /\ pc = "idle"
    /\ ~HasPendingWork
    /\ Mismatched # {}
    /\ EndProcess
    /\ UNCHANGED crashes

-----------------------------------------------------------------------------
\* Adds are containers that have started, removes are containers that died.
CallIsolate ==
    /\ process = "up"
    /\ \E adds \in SUBSET {c \in Containers : container[c] # "absent"},
          removes \in SUBSET {c \in Containers : container[c] = "gone"} :
         BeginIsolate(adds, removes)
    /\ UNCHANGED <<process, crashes>>

Manager == process = "up" /\ IsolateStep /\ UNCHANGED <<process, crashes>>

Writer == WriterStep /\ UNCHANGED <<managerVars, process, crashes>>

Runtime ==
    /\ \E c \in Containers : ContainerStarts(c) \/ ContainerDies(c)
    /\ UNCHANGED <<managerVars, process, crashes>>

Next ==
    \/ CallIsolate
    \/ Manager
    \/ Writer
    \/ ReconcileFails
    \/ Crash
    \/ Restart
    \/ Runtime

\* Threads are scheduled, reconcile events come every minute, and systemd
\* restarts the unit on failure.
Fairness ==
    /\ WF_vars(Manager)
    /\ WF_vars(Writer)
    /\ WF_vars(ReconcileFails)
    /\ WF_vars(Restart)

Spec == Init /\ [][Next]_vars
FairSpec == Spec /\ Fairness

-----------------------------------------------------------------------------
(* Properties *)

\* The last writes asked for container c are those of a call that failed after
\* starting them: the manager believes in an older allocation.
LeftHalfway(c) == asked[c] \in halfway

\* The newest round of writes asked for container c, if some is alive or has
\* reached a file, carries the allocation a.
NewestCarries(c, a) ==
    /\ asked[c] # 0
    /\ \A t \in writers : t.c = c /\ t.n = asked[c] => t.val = a[t.f]
    /\ \A f \in Files : file[c][f].by = asked[c] => file[c][f].val = a[f]

Carries(c, a) == LeftHalfway(c) \/ NewestCarries(c, a)

\* The allocations that isolate skips because they equal those of the last
\* response need no write: between two calls, what was last asked of the cgroup
\* manager for a workload on the CPU is its current allocation, unless a call ran
\* out of threads when it had asked for another one.
SkippingIsSound ==
    pc = "idle" =>
        \A w \in WorkloadsOn(cpu) :
            /\ w \in DOMAIN last
            /\ last[w]["cpuset"] = CpusetOf(cpu, w)
            /\ Carries(w, last[w])

\* The reconciler ends the process only for a workload whose container is gone,
\* whose newest cpuset write failed or was overwritten by an older one, or belongs
\* to a call that failed after it: never for one that is being written, or was
\* written in the order it was asked.
ExitHasCause ==
    ReconcileFails =>
        \E w \in WorkloadsOn(cpu) :
            \/ ~HasCgroup(w)
            \/ LeftHalfway(w)
            \/ /\ file[w]["cpuset"].by # asked[w]
               /\ \A t \in writers : t.c # w

NoSpuriousExit == [][ExitHasCause]_vars

\* A running workload whose cpuset is in force, and whose writers are done, is
\* reported as isolated: releasing removed containers never hides it.
SettledIsIsolated ==
    pc = "idle" /\ ~HasPendingWork =>
        \A w \in WorkloadsOn(cpu) :
            HasCgroup(w) /\ file[w]["cpuset"].by = asked[w] => w \in isolated

\* A workload whose cgroup does not agree with the CPU does not stay so: it is
\* written, or moved, or the process ends and starts over.
DriftIsRepaired ==
    \A w \in Containers :
        (w \in Mismatched) ~> (w \notin Mismatched)

\* The many steps of a call are one to its caller, whatever its writers, the runtime
\* and the end of the process do between them: the workloads change at once, by
\* the containers the call was given, or not at all.  What the agent as a whole
\* asks of isolate (TitusAgent) is the same specification.
IsolateIsOneStep == INSTANCE WorkloadSet

ManagerKeepsWorkloads == IsolateIsOneStep!Spec

\* "We must always set the cpuset first", for reporting whether a workload is
\* isolated (workload_manager.py:157): a container reported as isolated has
\* had its cpuset written.
CpusetFirst == \A c \in isolated : file[c]["cpuset"].by # 0

-----------------------------------------------------------------------------
(* The inductive invariant behind SkippingIsSound and NoSpuriousExit *)

\* Rounds are numbered upwards: no thread, file or container knows of a round
\* that was not started.
RoundsAreStarted ==
    /\ \A t \in writers : t.n <= gen
    /\ \A c \in Containers : asked[c] <= gen
    /\ \A c \in Containers, f \in Files : file[c][f].by <= gen

\* So it is of the rounds of the calls that failed, and of those before a call.
CallsKnowRounds == halfway \subseteq 1..gen /\ call.since <= gen

\* A response allocates to each workload the threads its layout gives it.
Agrees(layout, allocs) ==
    \A w \in WorkloadsOn(layout) :
        w \in DOMAIN allocs /\ allocs[w]["cpuset"] = CpusetOf(layout, w)

\* The newest round of w is none of the call that is being made.
AskedBefore(w) == pc = "idle" \/ asked[w] <= call.since

\* Unless a call left it half-way, the newest round of a workload carries its
\* allocation in the last response as long as the present call has not asked for
\* it, and in the new response once the call is done with it or is doing it.
RoundsCarryAllocations ==
    /\ \A w \in DOMAIN last : AskedBefore(w) => Carries(w, last[w])
    /\ pc = "allocate" => \A w \in Containers : AskedBefore(w)
    /\ pc \in {"apply", "memory"} =>
         /\ Agrees(call.cpu, call.allocs)
         /\ \A w \in DOMAIN call.allocs \ (call.todo \ call.current) :
              Carries(w, call.allocs[w])
    /\ pc # "memory" => call.current = {}

SkippingInv ==
    /\ TypeOK
    /\ RoundsAreStarted
    /\ CallsKnowRounds
    /\ Agrees(cpu, last)
    /\ RoundsCarryAllocations

\* A running container whose newest cpuset is in force is isolated, or a thread
\* is about to say so.  Nothing is in force before the container exists.
RecordedOrAboutToBe(c) ==
    /\ HasCgroup(c) /\ asked[c] # 0 /\ file[c]["cpuset"].by = asked[c] =>
         c \in isolated \/ \E t \in writers : t.c = c /\ t.st = "record"
    /\ container[c] = "absent" => file[c]["cpuset"].by = 0

IsolationIsRecorded == \A c \in Containers : RecordedOrAboutToBe(c)

SettledInv == SkippingInv /\ IsolationIsRecorded

=============================================================================
