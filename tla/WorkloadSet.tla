----------------------------- MODULE WorkloadSet -----------------------------
(***************************************************************************)
(* What isolate promises to whom calls it about the set of workloads: as   *)
(* if at one moment it takes out containers that are gone and puts in      *)
(* containers that have started; and a call that fails before that moment  *)
(* changes nothing.  Only the end of the process takes out a workload that *)
(* has not ended.                                                          *)
(***************************************************************************)
CONSTANT Containers

VARIABLES
    container,    \* life of each container
    workloads,    \* the containers the manager has made workloads of
    process       \* "up" or "down"

vars == <<container, workloads, process>>

Started == {c \in Containers : container[c] # "absent"}
Gone == {c \in Containers : container[c] = "gone"}

Init ==
    /\ container \in [Containers -> {"absent", "running"}]
    /\ workloads = {}
    /\ process = "up"

Starts(c) ==
    /\ container[c] = "absent"
    /\ container' = [container EXCEPT ![c] = "running"]
    /\ UNCHANGED <<workloads, process>>

Dies(c) ==
    /\ container[c] = "running"
    /\ container' = [container EXCEPT ![c] = "gone"]
    /\ UNCHANGED <<workloads, process>>

Isolate ==
    /\ process = "up"
    /\ \E adds \in SUBSET Started, removes \in SUBSET Gone :
          workloads' = (workloads \ removes) \cup adds
    /\ UNCHANGED <<container, process>>

ProcessEnds ==
    /\ process = "up"
    /\ process' = "down"
    /\ workloads' = {}
    /\ UNCHANGED container

Restarts ==
    /\ process = "down"
    /\ process' = "up"
    /\ UNCHANGED <<container, workloads>>

Next ==
    \/ \E c \in Containers : Starts(c) \/ Dies(c)
    \/ Isolate
    \/ ProcessEnds
    \/ Restarts

Spec == Init /\ [][Next]_vars

=============================================================================
