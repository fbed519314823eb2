---------------------------- MODULE MCEventManager ----------------------------
(* EventManager on its own, with handlers that only take time. *)
EXTENDS EventManager, TLC

CONSTANTS c1, c2, MayStop

Init ==
    /\ DockerInit
    /\ subscribed = TRUE
    /\ NewEventManager

Start ==
    /\ proc = "new"
    /\ StartProcessingEvents
    /\ UNCHANGED <<dockerVars, stopped, queue, batch, todo>>

Handle == HandlerEnds /\ UNCHANGED dockerVars

Stop == MayStop /\ StopProcessingEvents

Next ==
    \/ DockerStep /\ UNCHANGED managerVars
    \/ \E a \in InternalEvents : Tick(a)
    \/ Start
    \/ PullerStep
    \/ ProcessorStep
    \/ Handle
    \/ Stop
    \/ ProcessingEnds

\* The threads are started and scheduled, and handlers return.
Fairness ==
    /\ WF_eventVars(Start)
    /\ WF_eventVars(PullerStep)
    /\ WF_eventVars(ProcessorStep)
    /\ WF_eventVars(Handle)

Spec == Init /\ [][Next]_eventVars
FairSpec == Spec /\ Fairness

TypeOK == DockerTypeOK /\ ManagerTypeOK

-----------------------------------------------------------------------------
\* What is left to give to the handler, and what it has been given.
PendingEvents ==
    (IF BatchIsWaiting THEN ContainerEventsOf(batch) ELSE <<>>)
        \o ContainerEventsOf(queue)
        \o (IF puller = "ended" THEN <<>> ELSE Select(stream, TitusEvents))

GivenBatch ==
    IF proc = "handle" /\ Head(todo).action = "container_batch"
    THEN Head(todo) ELSE ContainerBatch(<<>>)

Delivery ==
    INSTANCE EventDelivery WITH
        Containers <- Titus, pending <- PendingEvents, given <- GivenBatch,
        open <- subscribed

\* Every event of a Titus container that docker sends is given to the container
\* batch handler once, with its neighbours, and none overtakes another.  When the
\* stream breaks, or brings an event that cannot be read, an end is lost.
DeliversInOrder == Delivery!Spec

\* And given it is in the end, unless the event manager is stopped: also what was
\* read before the stream broke or brought an event that cannot be read (behind
\* which nothing is pending any more), and when handlers raise.
DeliversAll == []~stopped => Delivery!Fairness

=============================================================================
