----------------------------- MODULE EventManager -----------------------------
(***************************************************************************)
(* EventManager: a thread that pulls docker's events from their stream and *)
(* puts those of interest on a queue, the scheduling thread that puts      *)
(* periodic events there too, and a thread that takes events off the queue *)
(* in batches and gives them to the handlers: first one event made of all  *)
(* the container events of the batch, then the periodic events.  An event  *)
(* concerns one of the handlers and is ignored by the others.              *)
(***************************************************************************)
EXTENDS Docker, Selection

CONSTANT InternalEvents   \* actions of the periodic events in use

ASSUME InternalActions ==
    InternalEvents \subseteq {"rebalance", "reconcile", "predict_usage"}

VARIABLES
    stopped,      \* __stopped
    puller,       \* __pulling_thread: "new", "pulling" or "ended"
    queue,        \* __q
    proc,         \* where __processing_thread is
    batch,        \* the batch it has dequeued
    todo          \* the events it has still to give to the handlers

managerVars == <<stopped, puller, queue, proc, batch, todo>>
eventVars == <<dockerVars, managerVars>>

InternalEvent(a) == [action |-> a]
PeriodicEvents == {InternalEvent(a) : a \in InternalEvents}
ContainerEvents == [action : {"start", "die"}, name : Containers]
TitusEvents == [action : {"start", "die"}, name : Titus]
QueuedEvents == TitusEvents \cup PeriodicEvents
HandledEvents ==
    [action : {"container_batch"}, starts : Seq(Titus), dies : Seq(Titus)]
        \cup PeriodicEvents

ManagerTypeOK ==
    /\ stopped \in BOOLEAN
    /\ puller \in {"new", "pulling", "ended"}
    /\ queue \in Seq(QueuedEvents)
    /\ proc \in {"new", "get", "rest", "next", "handle", "ended"}
    /\ batch \in Seq(QueuedEvents)
    /\ todo \in Seq(HandledEvents)
    /\ proc = "handle" => todo # <<>>

NewEventManager ==
    /\ stopped = FALSE
    /\ puller = "new"
    /\ queue = <<>>
    /\ proc = "new"
    /\ batch = <<>>
    /\ todo = <<>>

-----------------------------------------------------------------------------
IsContainerEvent(e) == e.action \in {"start", "die"}

ShouldHandle(e) == IsContainerEvent(e) /\ e.name \in Titus

ContainerEventsOf(events) == Select(events, ContainerEvents)
InternalEventsOf(events) == Select(events, PeriodicEvents)

NamesOf(events, action) ==
    LET chosen == Select(events, [action : {action}, name : Containers])
    IN  [i \in DOMAIN chosen |-> chosen[i].name]

ContainerBatch(events) ==
    [action |-> "container_batch",
     starts |-> NamesOf(events, "start"), dies |-> NamesOf(events, "die")]

EventsToHandle(events) ==
    (IF ContainerEventsOf(events) # <<>>
     THEN <<ContainerBatch(ContainerEventsOf(events))>> ELSE <<>>)
        \o InternalEventsOf(events)

-----------------------------------------------------------------------------
StartProcessingEvents ==
    /\ proc' = "get"
    /\ puller' = "pulling"

\* Mutant: an event that finds the queue occupied is dropped.
PullIfRoom ==
    /\ puller = "pulling"
    /\ stream # <<>>
    /\ stream' = Tail(stream)
    /\ queue' = IF ShouldHandle(Head(stream)) /\ queue = <<>>
                THEN Append(queue, Head(stream)) ELSE queue
    /\ UNCHANGED <<container, subscribed, breaks, stopped, puller, proc, batch, todo>>

\* __pull_events: the next event of the stream goes on the queue or is dropped.
Pull ==
    /\ puller = "pulling"
    /\ stream # <<>>
    /\ stream' = Tail(stream)
    /\ queue' = IF ShouldHandle(Head(stream))
                THEN Append(queue, Head(stream)) ELSE queue
    /\ UNCHANGED <<container, subscribed, breaks, stopped, puller, proc, batch, todo>>

\* The next event cannot be decoded, or has no action or actor: nothing catches
\* what is raised, and the thread ends.  Docker keeps a stream that has no reader,
\* which is as good as closed.
PullRaises ==
    /\ puller = "pulling"
    /\ stream # <<>>
    /\ breaks < MaxBreaks
    /\ breaks' = breaks + 1
    /\ stream' = <<>>
    /\ subscribed' = FALSE
    /\ puller' = "ended"
    /\ UNCHANGED <<container, stopped, queue, proc, batch, todo>>

\* The stream is exhausted or raises: the thread ends, and nobody notices.
PullerEnds ==
    /\ puller = "pulling"
    /\ ~subscribed
    /\ puller' = "ended"
    /\ stream' = <<>>
    /\ UNCHANGED <<container, subscribed, breaks, stopped, queue, proc, batch, todo>>

\* __rebalance, __reconcile or __predict_usage, every minute or so.  Bound: one
\* event of a kind is waiting at a time.
Tick(a) ==
    /\ \A i \in DOMAIN queue : queue[i] # InternalEvent(a)
    /\ queue' = Append(queue, InternalEvent(a))
    /\ UNCHANGED <<dockerVars, stopped, puller, proc, batch, todo>>

\* The first event of a batch, waited for.
TakeFirst ==
    /\ proc = "get"
    /\ queue # <<>>
    /\ batch' = <<Head(queue)>>
    /\ queue' = Tail(queue)
    /\ proc' = "rest"
    /\ UNCHANGED <<dockerVars, stopped, puller, todo>>

\* Mutant: the first event of the batch ends up behind the others.
TakeRestFirst ==
    /\ proc = "rest"
    /\ batch' = queue \o batch
    /\ queue' = <<>>
    /\ todo' = EventsToHandle(batch')
    /\ proc' = "next"
    /\ UNCHANGED <<dockerVars, stopped, puller>>

\* The others, as many as the queue holds when its size is read.
TakeRest ==
    /\ proc = "rest"
    /\ batch' = batch \o queue
    /\ queue' = <<>>
    /\ todo' = EventsToHandle(batch')
    /\ proc' = "next"
    /\ UNCHANGED <<dockerVars, stopped, puller>>

HandlerBegins ==
    /\ proc = "next"
    /\ todo # <<>>
    /\ proc' = "handle"
    /\ UNCHANGED <<dockerVars, stopped, puller, queue, batch, todo>>

\* Mutants: the thread goes past the last event; a handler that raises ends it.
HandlerEndsTooLate ==
    /\ proc = "handle"
    /\ todo' = Tail(todo)
    /\ proc' = "handle"
    /\ UNCHANGED <<stopped, puller, queue, batch>>

HandlerMayRaise ==
    /\ proc = "handle"
    /\ todo' = Tail(todo)
    /\ proc' \in {"next", "ended"}
    /\ UNCHANGED <<stopped, puller, queue, batch>>

\* The handler returns or raises: the next event is handled all the same.
HandlerEnds ==
    /\ proc = "handle"
    /\ todo' = Tail(todo)
    /\ proc' = "next"
    /\ UNCHANGED <<stopped, puller, queue, batch>>

FinishBatch ==
    /\ proc = "next"
    /\ todo = <<>>
    /\ batch' = <<>>
    /\ proc' = "get"
    /\ UNCHANGED <<dockerVars, stopped, puller, queue, todo>>

\* stop_processing_events closes the stream; the two threads end by themselves.
StopProcessingEvents ==
    /\ proc # "new"
    /\ ~stopped
    /\ stopped' = TRUE
    /\ subscribed' = FALSE
    /\ UNCHANGED <<container, stream, breaks, puller, queue, proc, batch, todo>>

ProcessingEnds ==
    /\ proc = "get"
    /\ stopped
    /\ proc' = "ended"
    /\ UNCHANGED <<dockerVars, stopped, puller, queue, batch, todo>>

PullerStep == Pull \/ PullRaises \/ PullerEnds
ProcessorStep == TakeFirst \/ TakeRest \/ HandlerBegins \/ FinishBatch

-----------------------------------------------------------------------------
(* Where an event is on its way from docker to the container batch handler *)

Holds(events, action, c) ==
    \E i \in DOMAIN events :
        /\ events[i].action = action
        /\ IsContainerEvent(events[i])
        /\ events[i].name = c

\* The container events of the batch have not been given to the handler yet.
BatchIsWaiting ==
    \/ proc = "rest"
    \/ proc = "next" /\ todo # <<>> /\ Head(todo).action = "container_batch"

OnTheWay(action, c) ==
    \/ Holds(stream, action, c)
    \/ Holds(queue, action, c)
    \/ BatchIsWaiting /\ Holds(batch, action, c)

=============================================================================
