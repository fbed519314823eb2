------------------------------ MODULE Supervision ------------------------------
(***************************************************************************)
(* How the agent's process starts, watches its configuration, and ends.    *)
(* The main thread reads properties from a local service and builds the    *)
(* managers, the scheduling loop looks for properties that have changed,   *)
(* the init thread lists containers under an alarm, and then the main      *)
(* thread answers requests, one at a time.                                 *)
(*                                                                         *)
(* External: the property service; gunicorn, which starts a worker again   *)
(* when it ends, kills one that does not get through its import, and ends  *)
(* itself for the exit codes 3 and 4; systemd, which starts the unit again *)
(* and kills it when the loop stops notifying its watchdog.                *)
(***************************************************************************)
EXTENDS Naturals

CONSTANTS
    Values,       \* values of a property of RESTART_PROPERTIES
    NoValue,      \* None: it could not be read
    MaxChanges,   \* bound: changes of the property
    MaxFaults     \* bound: failures of the property service, docker or the cluster

ASSUME NoValueIsNone == NoValue \notin Values
ASSUME BoundsAreNumbers == MaxChanges \in Nat /\ MaxFaults \in Nat

VARIABLES
    value,        \* the property's value
    service,      \* the property service: "up", "failing", "refusing" or "hung"
    changes, faults,
    stage,        \* how far the process has got
    alarm,        \* whether the alarm of get_current_workloads is set
    watched,      \* the value in the cache of ConfigManager, which is watched
    chosen,       \* the value the managers were built with
    between,      \* whether anything outside changed between these two reads
    isolated,     \* whether the container asked about is isolated
    lock,         \* __isolate_lock, "held" by a request that is over, or "free"
    raised,       \* whether a request has raised in this process
    answer        \* the status of the last answer to a request, 0 before any

vars == <<value, service, changes, faults, stage, alarm, watched, chosen, between,
          isolated, lock, raised, answer>>
outsideVars == <<value, service, changes>>
requestVars == <<isolated, lock, raised, answer>>

Stages == {"down", "boot", "watch", "choose", "list", "isolate", "ready", "dead"}

TypeOK ==
    /\ value \in Values
    /\ service \in {"up", "failing", "refusing", "hung"}
    /\ changes \in 0 .. MaxChanges
    /\ faults \in 0 .. MaxFaults
    /\ stage \in Stages
    /\ alarm \in BOOLEAN
    /\ watched \in Values \cup {NoValue}
    /\ chosen \in Values \cup {NoValue}
    /\ between \in BOOLEAN
    /\ isolated \in BOOLEAN
    /\ lock \in {"free", "held"}
    /\ raised \in BOOLEAN
    /\ answer \in {0, 200, 404, 500}

Init ==
    /\ value \in Values
    /\ service \in {"up", "failing"}
    /\ changes = 0
    /\ faults = 0
    /\ stage = "boot"
    /\ alarm = FALSE
    /\ watched = NoValue
    /\ chosen = NoValue
    /\ between = FALSE
    /\ isolated = FALSE
    /\ lock = "free"
    /\ raised = FALSE
    /\ answer = 0

Importing == stage \in {"boot", "watch", "choose"}
Looping == stage \in {"choose", "list", "isolate", "ready", "dead"}
Serving == stage \in {"list", "isolate", "ready", "dead"}

-----------------------------------------------------------------------------
(* The world *)

\* Something changes while the two reads of the start are made.
Disturbs == between' = (between \/ stage = "choose")

ValueChanges ==
    /\ changes < MaxChanges
    /\ changes' = changes + 1
    /\ value' \in Values \ {value}
    /\ Disturbs
    /\ UNCHANGED <<service, faults, stage, alarm, watched, chosen, requestVars>>

Fault == faults < MaxFaults /\ faults' = faults + 1

ServiceFails ==
    /\ Fault
    /\ service' \in {"failing", "refusing", "hung"} \ {service}
    /\ Disturbs
    /\ UNCHANGED <<value, changes, stage, alarm, watched, chosen, requestVars>>

ServiceRecovers ==
    /\ service # "up"
    /\ service' = "up"
    /\ Disturbs
    /\ UNCHANGED <<value, changes, faults, stage, alarm, watched, chosen, requestVars>>

\* The cgroup manager has written a file of the container.
Isolates ==
    /\ stage \in {"isolate", "ready"}
    /\ isolated' = TRUE
    /\ UNCHANGED <<outsideVars, faults, stage, alarm, watched, chosen, between, lock, raised, answer>>

-----------------------------------------------------------------------------
(* The property service, as ConfigManager.get_str sees it *)

\* Any answer but 200 is taken for a property without a value.
Reads(v) == (service = "up" /\ v = value) \/ (service = "failing" /\ v = NoValue)
ReadRaises == service = "refusing"
ReadHangs == service = "hung"

\* ConfigManager keeps the first answer for a name, also None, and gives it to
\* every later caller of the cached getters.
CachesStr == \E v \in Values \cup {NoValue} : Reads(v) /\ watched' = v

EndProcess ==
    /\ stage' = "down"
    /\ alarm' = FALSE
    /\ watched' = NoValue
    /\ chosen' = NoValue
    /\ between' = FALSE
    /\ isolated' = FALSE
    /\ lock' = "free"
    /\ raised' = FALSE
    /\ answer' = 0
    /\ UNCHANGED outsideVars

StartsAgain ==
    /\ stage = "down"
    /\ stage' = "boot"
    /\ UNCHANGED <<outsideVars, faults, alarm, watched, chosen, between, requestVars>>

-----------------------------------------------------------------------------
(* The main thread: the import of the module *)

\* The event log manager reads its address first.
ReadAddress ==
    /\ stage = "boot"
    /\ \E v \in Values \cup {NoValue} : Reads(v)
    /\ stage' = "watch"
    /\ UNCHANGED <<outsideVars, faults, alarm, watched, chosen, between, requestVars>>

\* The property watcher caches what it finds, and the scheduling loop starts.
WatchProperties ==
    /\ stage = "watch"
    /\ CachesStr
    /\ between' = FALSE
    /\ stage' = "choose"
    /\ UNCHANGED <<outsideVars, faults, alarm, chosen, requestVars>>

\* The allocator is chosen by another read; None stands for the default.  The
\* rest of the managers follow, and the init thread starts.
ChooseAllocator ==
    /\ stage = "choose"
    /\ \E v \in Values \cup {NoValue} : Reads(v) /\ chosen' = v
    /\ stage' = "list"
    /\ alarm' = TRUE
    /\ UNCHANGED <<outsideVars, faults, watched, between, requestVars>>

\* A read raises or takes too long: gunicorn's worker does not get through its
\* boot.
BootFails ==
    /\ Importing
    /\ ReadRaises \/ ReadHangs
    /\ EndProcess
    /\ UNCHANGED faults

\* A constructor that calls the cluster raises: the remote allocator's, or the
\* metrics manager's by way of get_cell_name.
ConstructorRaises ==
    /\ stage = "choose"
    /\ Fault
    /\ EndProcess

-----------------------------------------------------------------------------
(* The init thread *)

\* Mutant: the alarm is cancelled when the listing of containers raises.
ListRaisesCancelling ==
    /\ stage = "list"
    /\ Fault
    /\ stage' = "dead"
    /\ alarm' = FALSE
    /\ UNCHANGED <<outsideVars, watched, chosen, between, requestVars>>

\* The docker client raises: the thread ends, with the alarm set.
ListRaises ==
    /\ stage = "list"
    /\ Fault
    /\ stage' = "dead"
    /\ UNCHANGED <<outsideVars, alarm, watched, chosen, between, requestVars>>

ListsContainers ==
    /\ stage = "list"
    /\ stage' = "isolate"
    /\ alarm' = FALSE
    /\ UNCHANGED <<outsideVars, faults, watched, chosen, between, requestVars>>

\* The containers are isolated or not, and systemd is told that the agent is
\* ready.
FinishInit ==
    /\ stage = "isolate"
    /\ stage' = "ready"
    /\ UNCHANGED <<outsideVars, faults, alarm, watched, chosen, between, requestVars>>

\* A minute is over, because the listing raised or is slow.
AlarmFires ==
    /\ alarm
    /\ \/ stage = "dead" /\ UNCHANGED faults
       \/ stage = "list" /\ Fault
    /\ EndProcess

-----------------------------------------------------------------------------
(* The scheduling loop *)

\* Mutant: the watcher takes the new value over and goes on.
DetectQuietly ==
    /\ Looping
    /\ \E v \in Values \cup {NoValue} : Reads(v) /\ v # watched /\ watched' = v
    /\ UNCHANGED <<outsideVars, faults, stage, alarm, chosen, between, requestVars>>

\* detect_changes ends the process when the value is not the one it has cached.
DetectChanges ==
    /\ Looping
    /\ \E v \in Values \cup {NoValue} : Reads(v) /\ v # watched
    /\ EndProcess
    /\ UNCHANGED faults

\* A scheduled task raises, which ends the process, or hangs, and systemd's
\* watchdog does.
LoopFails ==
    /\ Looping
    /\ ReadRaises \/ ReadHangs
    /\ EndProcess
    /\ UNCHANGED faults

-----------------------------------------------------------------------------
(* The route /isolate/<workload_id> *)

\* Mutant: only requests for isolated workloads release the lock.
AnswerUnknownLocked ==
    /\ Serving
    /\ lock = "free"
    /\ ~isolated
    /\ answer' = 404
    /\ lock' = "held"
    /\ UNCHANGED <<outsideVars, faults, stage, alarm, watched, chosen, between, isolated, raised>>

AnswerUnknown ==
    /\ Serving
    /\ lock = "free"
    /\ ~isolated
    /\ answer' = 404
    /\ UNCHANGED <<outsideVars, faults, stage, alarm, watched, chosen, between, isolated, lock, raised>>

AnswerIsolated ==
    /\ Serving
    /\ lock = "free"
    /\ isolated
    /\ answer' = 200
    /\ UNCHANGED <<outsideVars, faults, stage, alarm, watched, chosen, between, isolated, lock, raised>>

\* The tags of the latency metric need the name of the cell, for which the
\* allocator is built again: what it raises leaves the lock taken.
AnswerRaises ==
    /\ Serving
    /\ lock = "free"
    /\ isolated
    /\ Fault
    /\ answer' = 500
    /\ lock' = "held"
    /\ raised' = TRUE
    /\ UNCHANGED <<outsideVars, stage, alarm, watched, chosen, between, isolated>>

\* The lock cannot be had within a tenth of a second.
AnswerBusy ==
    /\ Serving
    /\ lock = "held"
    /\ answer' = 404
    /\ UNCHANGED <<outsideVars, faults, stage, alarm, watched, chosen, between, isolated, lock, raised>>

-----------------------------------------------------------------------------
Boot == ReadAddress \/ WatchProperties \/ ChooseAllocator \/ BootFails \/ ConstructorRaises
InitThread == ListRaises \/ ListsContainers \/ FinishInit \/ AlarmFires
Loop == DetectChanges \/ LoopFails
Request == AnswerUnknown \/ AnswerIsolated \/ AnswerRaises \/ AnswerBusy

Next ==
    \/ ValueChanges
    \/ ServiceFails
    \/ ServiceRecovers
    \/ Isolates
    \/ StartsAgain
    \/ Boot
    \/ InitThread
    \/ Loop
    \/ Request

\* Threads run, the loop looks every ten seconds, alarms and watchdogs go off,
\* gunicorn or systemd starts the process again, and the route is asked again
\* and again.
Fairness ==
    /\ WF_vars(StartsAgain)
    /\ WF_vars(Boot)
    /\ WF_vars(InitThread)
    /\ WF_vars(Loop)
    /\ WF_vars(AnswerUnknown \/ AnswerIsolated \/ AnswerBusy)

Spec == Init /\ [][Next]_vars
FairSpec == Spec /\ Fairness

-----------------------------------------------------------------------------
(* Properties *)

\* Once the property service stays up the agent gets ready and stays so, and it
\* watches the present value, whatever raised, hung or changed before: a start
\* that failed in any step is made again.
ChangesAreTakenUp ==
    []<>(service # "up") \/ <>[](stage = "ready" /\ watched = value)

\* The managers are built with another value than the one that is watched only if
\* the property or the service changed between the two reads of the start.  It is
\* then in use until the next start, for no later look can tell.
TornHasACause == Serving /\ chosen # watched => between

\* The route tells in the end that the container is isolated, unless a request
\* for an isolated workload has raised in this process.
IsolatedIsTold == isolated ~> (answer = 200 \/ raised \/ ~isolated)

=============================================================================
