------------------------------ MODULE TitusAgent ------------------------------
(***************************************************************************)
(* The agent as a whole: it subscribes to docker's events, makes workloads *)
(* of the running containers, and only then starts to process events; the  *)
(* handlers add and remove workloads, rebalance them and reconcile them    *)
(* with the cgroups; and systemd starts the process again when it ends.    *)
(*                                                                         *)
(* WorkloadManager.isolate is one step here, which fails or makes its      *)
(* effects visible at once: Isolation has its steps.  Every workload has a *)
(* thread of the CPU, as the naive allocator and the remote one give it.   *)
(***************************************************************************)
EXTENDS EventManager

CONSTANTS
    Unreadable,   \* Titus containers whose pod may be one get_workload cannot read
    MaxFailures,  \* bound: calls of isolate that fail
    MaxMoves,     \* bound: rebalances that change the layout
    MaxCrashes    \* bound: ends of the process for other reasons

ASSUME UnreadableAreTitus == Unreadable \subseteq Titus

VARIABLES
    phase,        \* how far the process has got in starting
    pods,         \* the names in PodManager.__pod_cache
    toLook,       \* containers of the list or batch for which get_workload is due
    adds,         \* those for which it has returned a workload
    workloads,    \* the ids of WorkloadManager.__workloads
    writing,      \* FileCgroupManager.has_pending_work
    dropped,      \* containers of which an event had no effect in this process
    failures, moves, crashes   \* what is bounded, so far

processVars == <<phase, pods, toLook, adds, workloads, writing, dropped>>
boundVars == <<failures, moves, crashes>>
vars == <<eventVars, processVars, boundVars>>

Phases == {"down", "boot", "list", "inspect", "look", "ready", "stuck"}

TypeOK ==
    /\ DockerTypeOK
    /\ ManagerTypeOK
    /\ phase \in Phases
    /\ pods \in SUBSET Titus
    /\ toLook \in SUBSET Containers
    /\ adds \in SUBSET Titus
    /\ workloads \in SUBSET Titus
    /\ writing \in BOOLEAN
    /\ dropped \in SUBSET Containers
    /\ failures \in Nat /\ moves \in Nat /\ crashes \in Nat

Init ==
    /\ DockerInit
    /\ subscribed = FALSE
    /\ NewEventManager
    /\ phase = "boot"
    /\ pods = {}
    /\ toLook = {}
    /\ adds = {}
    /\ workloads = {}
    /\ writing = FALSE
    /\ dropped = {}
    /\ failures = 0 /\ moves = 0 /\ crashes = 0

-----------------------------------------------------------------------------
(* The end of the process, and the next one *)

\* Threads, queue, subscription and workloads go with the process.
EndProcess ==
    /\ phase' = "down"
    /\ subscribed' = FALSE
    /\ stream' = <<>>
    /\ stopped' = FALSE
    /\ puller' = "new"
    /\ queue' = <<>>
    /\ proc' = "new"
    /\ batch' = <<>>
    /\ todo' = <<>>
    /\ pods' = {}
    /\ toLook' = {}
    /\ adds' = {}
    /\ workloads' = {}
    /\ writing' = FALSE
    /\ dropped' = {}
    /\ UNCHANGED <<container, breaks>>

\* A property changed, the scheduling loop failed, listing the containers and
\* looking them up took longer than the minute of the alarm, or the cpuset of a
\* container that runs was lost, overtaken, or left by a call that failed.
Crash ==
    /\ phase # "down"
    /\ crashes < MaxCrashes
    /\ crashes' = crashes + 1
    /\ EndProcess
    /\ UNCHANGED <<failures, moves>>

\* gunicorn starts another worker, or systemd the unit: Supervision tells which.
Restart ==
    /\ phase = "down"
    /\ phase' = "boot"
    /\ UNCHANGED <<eventVars, pods, toLook, adds, workloads, writing, dropped, boundVars>>

-----------------------------------------------------------------------------
(* get_workload *)

Look(c) ==
    /\ c \in toLook
    /\ toLook' = toLook \ {c}
    /\ phase = "look" \/ proc = "handle"
    /\ UNCHANGED <<eventVars, phase, pods, workloads, writing, boundVars>>

GetWorkload(c) ==
    /\ c \in pods
    /\ Look(c)
    /\ adds' = adds \cup {c}
    /\ UNCHANGED dropped

\* The pod is not in the cache, at any of the tries, or its number of CPUs is not
\* an integer or it has no job id: then the constructor of the workload raises.
NoWorkload(c) ==
    /\ c \notin pods \/ c \in Unreadable
    /\ Look(c)
    /\ dropped' = dropped \cup {c}
    /\ UNCHANGED adds

-----------------------------------------------------------------------------
(* WorkloadManager.isolate *)

\* Mutant: a batch with starts forgets its dies.
IsolatedEither(removes) ==
    /\ workloads' = IF adds # {} THEN workloads \cup adds ELSE workloads \ removes
    /\ dropped' = dropped \cup (adds \cap removes)
    /\ writing' = (writing \/ workloads' # workloads)
    /\ UNCHANGED <<failures, moves>>

\* Removes first, then adds: one that is both stays a workload.
Isolated(removes) ==
    /\ workloads' = (workloads \ removes) \cup adds
    /\ dropped' = dropped \cup (adds \cap removes)
    /\ writing' = (writing \/ workloads' # workloads)
    /\ UNCHANGED <<failures, moves>>

\* The allocator raises, or no thread can be started for a writer behind those
\* already started: the workloads stay, and what was to be added and removed is
\* forgotten.
IsolateFails(removes) ==
    /\ failures < MaxFailures
    /\ failures' = failures + 1
    /\ dropped' = dropped \cup adds \cup removes
    /\ writing' \in {writing, TRUE}
    /\ UNCHANGED <<workloads, moves>>

Isolate(removes) ==
    /\ Isolated(removes) \/ IsolateFails(removes)
    /\ adds' = {}

\* The writer threads of the cgroup manager are all done.
WritersEnd ==
    /\ writing
    /\ writing' = FALSE
    /\ UNCHANGED <<eventVars, phase, pods, toLook, adds, workloads, dropped, boundVars>>

-----------------------------------------------------------------------------
(* Startup *)

Subscribe ==
    /\ phase = "boot"
    /\ phase' = "list"
    /\ subscribed' = TRUE
    /\ UNCHANGED <<container, stream, breaks, managerVars, pods, toLook, adds,
                   workloads, writing, dropped, boundVars>>

\* The docker client lists the names of the running containers ...
ListContainers ==
    /\ phase = "list"
    /\ phase' = "inspect"
    /\ toLook' = Running
    /\ UNCHANGED <<eventVars, pods, adds, workloads, writing, dropped, boundVars>>

\* ... and inspects each of them.
InspectContainers ==
    /\ phase = "inspect"
    /\ phase' = "look"
    /\ UNCHANGED <<eventVars, pods, toLook, adds, workloads, writing, dropped, boundVars>>

\* One of them is not there any more: the client raises, and the thread of init
\* ends, with the alarm set.
InspectFails ==
    /\ phase = "inspect"
    /\ \E c \in toLook : container[c] = "gone"
    /\ phase' = "stuck"
    /\ toLook' = {}
    /\ UNCHANGED <<eventVars, pods, adds, workloads, writing, dropped, boundVars>>

\* Mutant: the alarm is cancelled when the listing of containers raises.
AlarmIsCancelled == FALSE

\* The alarm that was set before the listing is still on: a minute later it goes
\* off, and its handler ends the process.
AlarmFires ==
    /\ phase = "stuck"
    /\ EndProcess
    /\ UNCHANGED boundVars

\* The listed containers become workloads, and event processing starts whether
\* they did or not.
FinishInit ==
    /\ phase = "look"
    /\ toLook = {}
    /\ phase' = "ready"
    /\ Isolate({})
    /\ StartProcessingEvents
    /\ UNCHANGED <<dockerVars, stopped, queue, batch, todo, pods, toLook, crashes>>

-----------------------------------------------------------------------------
(* The event handlers *)

Handling(action) == proc = "handle" /\ Head(todo).action = action

\* The container batch handler sets about the start events of the batch.
BeginBatch ==
    /\ HandlerBegins
    /\ toLook' = IF Head(todo).action = "container_batch"
                 THEN {Head(todo).starts[i] : i \in DOMAIN Head(todo).starts}
                 ELSE {}
    /\ UNCHANGED <<phase, pods, adds, workloads, writing, dropped, boundVars>>

\* Mutant: isolate is called while workloads are still being looked up.
HandleBatchEarly ==
    /\ Handling("container_batch")
    /\ Isolate({Head(todo).dies[i] : i \in DOMAIN Head(todo).dies})
    /\ HandlerEnds
    /\ UNCHANGED <<dockerVars, phase, pods, toLook, crashes>>

\* Mutant: the containers of the start events are the ones removed.
HandleBatchSwapped ==
    /\ Handling("container_batch")
    /\ toLook = {}
    /\ Isolate({Head(todo).starts[i] : i \in DOMAIN Head(todo).starts})
    /\ HandlerEnds
    /\ UNCHANGED <<dockerVars, phase, pods, toLook, crashes>>

HandleContainerBatch ==
    /\ Handling("container_batch")
    /\ toLook = {}
    /\ Isolate({Head(todo).dies[i] : i \in DOMAIN Head(todo).dies})
    /\ HandlerEnds
    /\ UNCHANGED <<dockerVars, phase, pods, toLook, crashes>>

HandleRebalance ==
    /\ Handling("rebalance")
    /\ \/ UNCHANGED <<writing, moves>>
       \/ moves < MaxMoves /\ moves' = moves + 1 /\ writing' = TRUE
    /\ HandlerEnds
    /\ UNCHANGED <<dockerVars, phase, pods, toLook, adds, workloads, dropped,
                   failures, crashes>>

\* The cpuset of a container that is gone reads as no thread at all.
Mismatch == \E w \in workloads : container[w] = "gone"

\* A periodic event that changes nothing.  Predictions are published by another
\* thread.  Reconciliation is skipped while writers are alive, or finds nothing
\* wrong.
PeriodicEventEnds ==
    /\ proc = "handle"
    /\ Head(todo).action \in {"predict_usage", "reconcile"}
    /\ Head(todo).action = "reconcile" => writing \/ ~Mismatch
    /\ HandlerEnds
    /\ UNCHANGED <<dockerVars, processVars, boundVars>>

\* Mutant: the mismatch is logged and nothing is done.
ReconcileLogs ==
    /\ Handling("reconcile")
    /\ ~writing
    /\ Mismatch
    /\ HandlerEnds
    /\ UNCHANGED <<dockerVars, processVars, boundVars>>

ReconcileFails ==
    /\ Handling("reconcile")
    /\ ~writing
    /\ Mismatch
    /\ EndProcess
    /\ UNCHANGED boundVars

-----------------------------------------------------------------------------
(* The pod watch *)

\* A pod is scheduled on the machine before its container starts.
PodAdded(c) ==
    /\ phase # "down"
    /\ container[c] # "gone"
    /\ pods' = pods \cup {c}
    /\ UNCHANGED <<eventVars, phase, toLook, adds, workloads, writing, dropped, boundVars>>

PodDeleted(c) ==
    /\ container[c] = "gone"
    /\ pods' = pods \ {c}
    /\ UNCHANGED <<eventVars, phase, toLook, adds, workloads, writing, dropped, boundVars>>

-----------------------------------------------------------------------------
Machine == DockerStep /\ UNCHANGED <<managerVars, processVars, boundVars>>

Pods == \E c \in Titus : PodAdded(c) \/ PodDeleted(c)

Timer(a) ==
    /\ phase \in {"list", "inspect", "look", "ready", "stuck"}
    /\ Tick(a)
    /\ UNCHANGED <<processVars, boundVars>>

Puller == PullerStep /\ UNCHANGED <<processVars, boundVars>>

Startup ==
    \/ Subscribe
    \/ ListContainers
    \/ InspectContainers
    \/ InspectFails
    \/ FinishInit

GetWorkloads == \E c \in Containers : GetWorkload(c) \/ NoWorkload(c)

\* The batches of the processing thread, then what its handlers do.
Processor ==
    \/ (TakeFirst \/ TakeRest \/ FinishBatch) /\ UNCHANGED <<processVars, boundVars>>
    \/ BeginBatch
    \/ HandleContainerBatch
    \/ HandleRebalance
    \/ PeriodicEventEnds
    \/ ReconcileFails

Next ==
    \/ Machine
    \/ Pods
    \/ \E a \in InternalEvents : Timer(a)
    \/ Puller
    \/ Startup
    \/ GetWorkloads
    \/ Processor
    \/ WritersEnd
    \/ AlarmFires
    \/ Crash
    \/ Restart

\* Threads are scheduled, get_workload and the writers end, the timer ticks, an
\* alarm goes off, and a process that ends is followed by another.
Fairness ==
    /\ \A a \in InternalEvents : WF_vars(Timer(a))
    /\ WF_vars(Puller)
    /\ WF_vars(Startup)
    /\ WF_vars(GetWorkloads)
    /\ WF_vars(Processor)
    /\ WF_vars(WritersEnd)
    /\ WF_vars(AlarmFires)
    /\ WF_vars(Restart)

Spec == Init /\ [][Next]_vars
FairSpec == Spec /\ Fairness

-----------------------------------------------------------------------------
(* Properties *)

\* What the handler of the current batch still has to do for container c.
BeingAdded(c) == c \in toLook \cup adds
BeingRemoved(c) ==
    /\ Handling("container_batch")
    /\ \E i \in DOMAIN Head(todo).dies : Head(todo).dies[i] = c

\* Every running Titus container is a workload, or will be one: its start event
\* is on the way or being handled, or the containers have not been listed yet.
\* Otherwise the event was dropped, or the stream of events broke or lost its
\* reader.
NoContainerIsMissed ==
    phase \in {"inspect", "look", "ready"} /\ subscribed =>
        \A c \in Titus :
            container[c] = "running" =>
                \/ c \in workloads
                \/ BeingAdded(c)
                \/ OnTheWay("start", c)
                \/ c \in dropped

\* A workload whose container is gone will be removed: its die event is on the
\* way or being handled.  Otherwise the event was dropped, as it is when it is
\* in the same batch as the start event, or the stream of events broke or lost its
\* reader.
ZombiesHaveACause ==
    subscribed =>
        \A c \in workloads :
            container[c] = "gone" =>
                \/ OnTheWay("die", c)
                \/ BeingRemoved(c)
                \/ c \in dropped

\* What the agent gives to isolate is what isolate is for: containers to add have
\* started, containers to remove are gone, whatever the batches, the lookups and
\* the ends of the process; and nothing but the end of the process takes out a
\* workload that runs.  Isolation, which has the steps of isolate, is the same
\* specification.
AsOneStep == INSTANCE WorkloadSet WITH process <- IF phase = "down" THEN "down" ELSE "up"

AgentKeepsWorkloads == AsOneStep!Spec

\* A container that runs long enough becomes a workload, across ends of the
\* process.  The exceptions: its event or its lookup at the start is dropped, or
\* the thread that reads the events has ended, because their stream broke or
\* brought one that cannot be read, until the process is started again.
ContainersAreTracked ==
    \A c \in Titus :
        (container[c] = "running")
            ~> \/ c \in workloads
               \/ container[c] = "gone"
               \/ c \in dropped
               \/ puller = "ended"

\* No workload outlives its container for ever: if its die event has no effect,
\* reconciliation ends the process, and the next one does not list it.
ZombiesAreCleared ==
    \A c \in Titus :
        (c \in workloads /\ container[c] = "gone") ~> (c \notin workloads)

\* The agent always gets to process events, again if it has to.
AgentComesBack == []<>(phase = "ready")

\* "Start processing events after adding running workloads to avoid processing a
\* die event before we add a workload" (status.py:133), and once both events of
\* a container are handled its threads are free (tests/event/test_events.py:90):
\* when there is no event left no workload is without a container.
FreedOnceHandled ==
    phase = "ready" /\ stream = <<>> /\ queue = <<>> /\ batch = <<>> =>
        \A c \in workloads : container[c] # "gone"

=============================================================================
