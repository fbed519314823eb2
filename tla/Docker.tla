-------------------------------- MODULE Docker --------------------------------
(***************************************************************************)
(* Docker as the agent uses it: the containers of the machine, and the     *)
(* stream of events the agent subscribes to.  External to the repository;  *)
(* a container name is a task id and is never used twice.                  *)
(***************************************************************************)
EXTENDS Naturals, Sequences

CONSTANTS
    Containers,   \* containers of this machine
    Titus,        \* those with a titus.task_id label
    Others,       \* bound: those with events that do not matter to the agent
    MaxBreaks     \* bound: times the stream breaks, or brings what cannot be read

ASSUME TitusContainers == Titus \subseteq Containers

VARIABLES
    container,    \* life of each container
    subscribed,   \* whether the agent's stream of events is open and will be read
    stream,       \* events sent on the stream and not yet read
    breaks        \* number of breaks so far

dockerVars == <<container, subscribed, stream, breaks>>

Lives == {"absent", "running", "gone"}

\* "other": the actions the agent does not handle, like create or exec_start.
DockerEvents == [action : {"start", "die", "other"}, name : Containers]

DockerTypeOK ==
    /\ container \in [Containers -> Lives]
    /\ subscribed \in BOOLEAN
    /\ stream \in Seq(DockerEvents)
    /\ breaks \in Nat

DockerInit ==
    /\ container \in [Containers -> {"absent", "running"}]
    /\ stream = <<>>
    /\ breaks = 0

Running == {c \in Containers : container[c] = "running"}

Send(action, c) ==
    stream' = IF subscribed
              THEN Append(stream, [action |-> action, name |-> c])
              ELSE stream

ContainerStarts(c) ==
    /\ container[c] = "absent"
    /\ container' = [container EXCEPT ![c] = "running"]
    /\ Send("start", c)
    /\ UNCHANGED <<subscribed, breaks>>

ContainerDies(c) ==
    /\ container[c] = "running"
    /\ container' = [container EXCEPT ![c] = "gone"]
    /\ Send("die", c)
    /\ UNCHANGED <<subscribed, breaks>>

\* Bound: one event of no interest is on the stream at a time.
OtherHappens(c) ==
    /\ c \in Others
    /\ subscribed
    /\ container[c] = "running"
    /\ \A i \in DOMAIN stream : stream[i].action # "other"
    /\ Send("other", c)
    /\ UNCHANGED <<container, subscribed, breaks>>

\* The daemon stops, or the connection to it is lost.
StreamBreaks ==
    /\ subscribed
    /\ breaks < MaxBreaks
    /\ breaks' = breaks + 1
    /\ subscribed' = FALSE
    /\ UNCHANGED <<container, stream>>

DockerStep ==
    \/ \E c \in Containers :
         ContainerStarts(c) \/ ContainerDies(c) \/ OtherHappens(c)
    \/ StreamBreaks

=============================================================================
