-------------------------- MODULE TitusAgent_proofs --------------------------
(***************************************************************************)
(* What is proved of TitusAgent, for any containers and any bounds: no     *)
(* running container is missed and no workload outlives its container      *)
(* without one of the known causes, and what it asks of isolate is what    *)
(* WorkloadSet promises.                                                   *)
(***************************************************************************)
EXTENDS TitusAgent, EventManager_proofs

-----------------------------------------------------------------------------
(* Types *)

ProcessTypeOK ==
    /\ phase \in Phases
    /\ pods \in SUBSET Titus
    /\ toLook \in SUBSET Containers
    /\ adds \in SUBSET Titus
    /\ workloads \in SUBSET Titus
    /\ writing \in BOOLEAN
    /\ dropped \in SUBSET Containers
    /\ failures \in Nat /\ moves \in Nat /\ crashes \in Nat

\* The type invariant, part by part.
LEMMA TypeParts == TypeOK <=> DockerTypeOK /\ ManagerTypeOK /\ ProcessTypeOK
  BY DEF TypeOK, ProcessTypeOK

\* And isolate, given containers to remove.
LEMMA IsolateType ==
    ASSUME ProcessTypeOK, NEW removes \in SUBSET Titus, Isolate(removes)
    PROVE  /\ workloads' \in SUBSET Titus /\ adds' \in SUBSET Titus
           /\ dropped' \in SUBSET Containers /\ writing' \in BOOLEAN
           /\ failures' \in Nat /\ moves' \in Nat
  <1>1. CASE Isolated(removes)
    <2>1. writing' \in BOOLEAN
      BY <1>1, Zenon DEF Isolated
    <2> QED
      BY <1>1, <2>1, TitusContainers DEF ProcessTypeOK, Isolate, Isolated
  <1>2. CASE IsolateFails(removes)
    <2>1. writing' = writing \/ writing' = TRUE
      BY <1>2, Zenon DEF IsolateFails
    <2>2. writing' \in BOOLEAN
      BY <2>1, Zenon DEF ProcessTypeOK
    <2> QED
      BY <1>2, <2>2, TitusContainers DEF ProcessTypeOK, Isolate, IsolateFails
  <1> QED
    BY <1>1, <1>2 DEF Isolate

\* The process ends with all it has in memory.
LEMMA EndProcessType ==
    ASSUME DockerTypeOK, EndProcess
    PROVE  /\ DockerTypeOK' /\ ManagerTypeOK'
           /\ phase' \in Phases /\ pods' = {} /\ toLook' = {} /\ adds' = {} /\ workloads' = {}
           /\ writing' = FALSE /\ dropped' = {}
  <1>1. /\ subscribed' \in BOOLEAN /\ stopped' \in BOOLEAN
    BY Zenon DEF EndProcess
  <1>2. /\ stream' \in Seq(DockerEvents) /\ queue' \in Seq(QueuedEvents)
        /\ batch' \in Seq(QueuedEvents) /\ todo' \in Seq(HandledEvents)
    BY DEF EndProcess
  <1>3. /\ phase' \in Phases /\ puller' = "new" /\ proc' = "new"
        /\ pods' = {} /\ toLook' = {} /\ adds' = {} /\ workloads' = {} /\ dropped' = {}
        /\ container' = container /\ breaks' = breaks
    BY DEF EndProcess, Phases
  <1>4. writing' = FALSE
    BY Zenon DEF EndProcess
  <1>5. DockerTypeOK'
    BY <1>1, <1>2, <1>3 DEF DockerTypeOK
  <1>6. ManagerTypeOK'
    BY <1>1, <1>2, <1>3 DEF ManagerTypeOK
  <1> QED
    BY <1>3, <1>4, <1>5, <1>6

\* The containers of the events of a batch, as the batch handler has them.
LEMMA HeadOfTodo ==
    ASSUME ManagerTypeOK, todo # <<>>, Head(todo).action = "container_batch"
    PROVE  /\ {Head(todo).starts[i] : i \in DOMAIN Head(todo).starts} \in SUBSET Titus
           /\ {Head(todo).dies[i] : i \in DOMAIN Head(todo).dies} \in SUBSET Titus
  <1>1. Head(todo) \in HandledEvents
    BY DEF ManagerTypeOK
  <1>2. Head(todo) \in BatchEvents
    BY <1>1, InternalActions DEF HandledEvents, BatchEvents, PeriodicEvents, InternalEvent
  <1>3. Head(todo).starts \in Seq(Titus) /\ Head(todo).dies \in Seq(Titus)
    BY <1>2 DEF BatchEvents
  <1> QED
    BY <1>3

\* Every step keeps the types.
LEMMA NextType == TypeOK /\ [Next]_vars => TypeOK'
  <1> SUFFICES ASSUME DockerTypeOK, ManagerTypeOK, ProcessTypeOK, [Next]_vars
               PROVE  DockerTypeOK' /\ ManagerTypeOK' /\ ProcessTypeOK'
    BY TypeParts DEF TypeOK, ProcessTypeOK
  <1> USE DEF processVars, boundVars
  <1>1. UNCHANGED dockerVars => DockerTypeOK'
    BY DEF DockerTypeOK, dockerVars
  <1>2. UNCHANGED managerVars => ManagerTypeOK'
    BY DEF ManagerTypeOK, managerVars
  <1>3. UNCHANGED <<processVars, boundVars>> => ProcessTypeOK'
    BY DEF ProcessTypeOK
  <1>4. UNCHANGED eventVars => DockerTypeOK' /\ ManagerTypeOK'
    BY <1>1, <1>2 DEF eventVars
  <1>5. CASE Machine
    BY <1>2, <1>3, <1>5, DockerType DEF Machine
  <1>6. CASE Pods
    BY <1>4, <1>6 DEF Pods, PodAdded, PodDeleted, ProcessTypeOK
  <1>7. ASSUME NEW a \in InternalEvents, Timer(a)
        PROVE  DockerTypeOK' /\ ManagerTypeOK' /\ ProcessTypeOK'
    BY <1>3, <1>7, ManagerType DEF Timer
  <1>8. CASE Puller
    BY <1>3, <1>8, ManagerType DEF Puller
  <1>9. CASE Startup
    <2>1. CASE Subscribe
      <3>1. subscribed' \in BOOLEAN
        BY <2>1, Zenon DEF Subscribe
      <3> QED
        BY <1>2, <2>1, <3>1 DEF Subscribe, DockerTypeOK, ProcessTypeOK, Phases
    <2>2. CASE ListContainers
      BY <1>4, <2>2 DEF ListContainers, ProcessTypeOK, Phases, Running
    <2>3. CASE InspectContainers
      BY <1>4, <2>3 DEF InspectContainers, ProcessTypeOK, Phases
    <2>4. CASE InspectFails
      BY <1>4, <2>4 DEF InspectFails, ProcessTypeOK, Phases
    <2>5. CASE FinishInit
      <3>1. DockerTypeOK'
        BY <1>1, <2>5 DEF FinishInit
      <3>2. ManagerTypeOK'
        BY <2>5 DEF FinishInit, StartProcessingEvents, ManagerTypeOK
      <3>3. ProcessTypeOK'
        <4>1. {} \in SUBSET Titus /\ Isolate({})
          BY <2>5 DEF FinishInit
        <4> QED
          BY <2>5, <4>1, IsolateType DEF FinishInit, ProcessTypeOK, Phases
      <3> QED
        BY <3>1, <3>2, <3>3
    <2> QED
      BY <1>9, <2>1, <2>2, <2>3, <2>4, <2>5 DEF Startup
  <1>10. CASE GetWorkloads
    <2> PICK c \in Containers : GetWorkload(c) \/ NoWorkload(c)
      BY <1>10 DEF GetWorkloads
    <2> QED
      BY <1>4 DEF GetWorkload, NoWorkload, Look, ProcessTypeOK
  <1>11. CASE Processor
    <2>1. CASE (TakeFirst \/ TakeRest \/ FinishBatch) /\ UNCHANGED <<processVars, boundVars>>
      BY <1>3, <2>1, ManagerType
    <2>2. CASE BeginBatch
      <3>1. toLook' \in SUBSET Containers
        BY <2>2, HeadOfTodo, TitusContainers DEF BeginBatch, HandlerBegins
      <3> QED
        BY <2>2, <3>1, ManagerType DEF BeginBatch, ProcessTypeOK
    <2>3. CASE HandleContainerBatch
      <3> DEFINE removes == {Head(todo).dies[i] : i \in DOMAIN Head(todo).dies}
      <3>1. removes \in SUBSET Titus /\ Isolate(removes)
        BY <2>3, HeadOfTodo DEF HandleContainerBatch, Handling, ManagerTypeOK
      <3> HIDE DEF removes
      <3>2. ProcessTypeOK'
        BY <2>3, <3>1, IsolateType DEF HandleContainerBatch, ProcessTypeOK
      <3> QED
        BY <1>1, <2>3, <3>2, HandlerEndsType DEF HandleContainerBatch
    <2>4. CASE HandleRebalance
      <3>0. writing' = writing \/ writing' = TRUE
        BY <2>4, Zenon DEF HandleRebalance
      <3>2. writing' \in BOOLEAN
        BY <3>0, Zenon DEF ProcessTypeOK
      <3>3. moves' \in Nat
        BY <2>4 DEF HandleRebalance, ProcessTypeOK
      <3>1. writing' \in BOOLEAN /\ moves' \in Nat
        BY <3>2, <3>3
      <3> QED
        BY <1>1, <2>4, <3>1, HandlerEndsType DEF HandleRebalance, ProcessTypeOK
    <2>5. CASE PeriodicEventEnds
      BY <1>1, <1>3, <2>5, HandlerEndsType DEF PeriodicEventEnds
    <2>6. CASE ReconcileFails
      BY <2>6, EndProcessType DEF ReconcileFails, ProcessTypeOK
    <2> QED
      BY <1>11, <2>1, <2>2, <2>3, <2>4, <2>5, <2>6 DEF Processor
  <1>12. CASE WritersEnd
    BY <1>4, <1>12 DEF WritersEnd, ProcessTypeOK
  <1>13. CASE AlarmFires
    BY <1>13, EndProcessType DEF AlarmFires, ProcessTypeOK
  <1>14. CASE Crash
    BY <1>14, EndProcessType DEF Crash, ProcessTypeOK
  <1>15. CASE Restart
    BY <1>4, <1>15 DEF Restart, ProcessTypeOK, Phases
  <1>16. CASE UNCHANGED vars
    BY <1>3, <1>4, <1>16 DEF vars
  <1> QED
    BY <1>5, <1>6, <1>7, <1>8, <1>9, <1>10, <1>11, <1>12, <1>13, <1>14, <1>15, <1>16 DEF Next

\* An agent starts with these types.
LEMMA InitType == Init => TypeOK
  <1> SUFFICES ASSUME Init PROVE TypeOK
    OBVIOUS
  <1>1. subscribed \in BOOLEAN /\ stopped \in BOOLEAN /\ writing \in BOOLEAN
    BY Zenon DEF Init, NewEventManager
  <1>2. container \in [Containers -> Lives]
    BY DEF Init, DockerInit, Lives
  <1>3. DockerTypeOK
    BY <1>1, <1>2 DEF Init, DockerInit, DockerTypeOK
  <1>4. ManagerTypeOK
    BY <1>1 DEF Init, NewEventManager, ManagerTypeOK
  <1>5. ProcessTypeOK
    BY <1>1 DEF Init, ProcessTypeOK, Phases
  <1> QED
    BY <1>3, <1>4, <1>5, TypeParts

\* The types of TitusAgent hold in every state: what is on the queue and in a
\* batch are Titus events, and workloads are Titus containers.
THEOREM TypeCorrect == Spec => []TypeOK
  <1> QED
    BY InitType, NextType, PTL DEF Spec

-----------------------------------------------------------------------------
(* What the threads are at *)

\* Events are processed only by an agent that is ready, a process that has not
\* subscribed yet has nothing of the one before it, and workloads are looked up
\* and added only at the end of init or by the container batch handler.
ThreadsInv ==
    /\ phase # "ready" => proc = "new" /\ puller = "new"
    /\ phase \in {"down", "boot"} =>
         /\ ~subscribed
         /\ stream = <<>> /\ queue = <<>> /\ batch = <<>>
         /\ workloads = {}
    /\ toLook # {} => phase \in {"inspect", "look"} \/ Handling("container_batch")
    /\ adds # {} => phase = "look" \/ Handling("container_batch")

\* The batch event is the first to be handled, if any, and it is made of the
\* batch as it still is.
TodoInv ==
    proc \in {"next", "handle"} =>
        \A i \in DOMAIN todo :
            todo[i].action = "container_batch" => i = 1 /\ todo[i] = BatchOf(batch)

StageInv == ThreadsInv /\ TodoInv

\* An agent starts with nothing.
LEMMA StageInvInit == Init => StageInv
  BY DEF Init, DockerInit, NewEventManager, StageInv, ThreadsInv, TodoInv, Handling

\* The steps of the processing thread keep its batch event where it is.
LEMMA TodoNext == TypeOK /\ StageInv /\ [Next]_vars => TodoInv'
  <1> SUFFICES ASSUME TypeOK, StageInv, [Next]_vars
               PROVE  TodoInv'
    OBVIOUS
  <1>1. CASE UNCHANGED <<proc, batch, todo>>
    BY <1>1 DEF StageInv, TodoInv
  <1>2. CASE proc' \notin {"next", "handle"}
    BY <1>2 DEF TodoInv
  <1>3. CASE TakeRest
    <2>1. batch' \in Seq(QueuedEvents) /\ todo' = EventsToHandle(batch')
      BY <1>3 DEF TakeRest, TypeOK, ManagerTypeOK
    <2> QED
      BY <2>1, EventsToHandleOfBatch DEF TodoInv
  <1>4. CASE HandlerBegins
    BY <1>4 DEF HandlerBegins, StageInv, TodoInv
  <1>5. CASE HandlerEnds
    <2>1. /\ todo \in Seq(HandledEvents) /\ todo # <<>> /\ proc = "handle"
          /\ todo' = Tail(todo)
      BY <1>5 DEF HandlerEnds, TypeOK, ManagerTypeOK
    <2>2. \A i \in DOMAIN Tail(todo) :
             i + 1 \in DOMAIN todo /\ Tail(todo)[i] = todo[i + 1] /\ i + 1 # 1
      BY <2>1, RestOfList
    <2> QED
      BY <2>1, <2>2 DEF StageInv, TodoInv
  <1>6. \/ UNCHANGED <<proc, batch, todo>>
        \/ proc' \notin {"next", "handle"}
        \/ TakeRest \/ HandlerBegins \/ HandlerEnds
    <2> USE DEF eventVars, managerVars
    <2>1. CASE Machine
      BY <2>1 DEF Machine
    <2>2. CASE Pods \/ GetWorkloads \/ WritersEnd \/ Restart
      BY <2>2 DEF Pods, PodAdded, PodDeleted, GetWorkloads, GetWorkload, NoWorkload, Look,
                  WritersEnd, Restart
    <2>3. CASE (\E a \in InternalEvents : Timer(a)) \/ Puller
      BY <2>3 DEF Timer, Tick, Puller, PullerStep, Pull, PullRaises, PullerEnds
    <2>4. CASE Startup
      BY <2>4 DEF Startup, Subscribe, ListContainers, InspectContainers, InspectFails,
                  FinishInit, StartProcessingEvents
    <2>5. CASE Processor
      BY <2>5 DEF Processor, TakeFirst, FinishBatch, BeginBatch, HandleContainerBatch,
                  HandleRebalance, PeriodicEventEnds, ReconcileFails, EndProcess
    <2>6. CASE AlarmFires \/ Crash
      BY <2>6 DEF AlarmFires, Crash, EndProcess
    <2>7. CASE UNCHANGED vars
      BY <2>7 DEF vars
    <2> QED
      BY <2>1, <2>2, <2>3, <2>4, <2>5, <2>6, <2>7 DEF Next
  <1> QED
    BY <1>1, <1>2, <1>3, <1>4, <1>5, <1>6

\* Every step keeps to the stages.
LEMMA ThreadsNext == TypeOK /\ StageInv /\ [Next]_vars => ThreadsInv'
  <1> SUFFICES ASSUME TypeOK, ThreadsInv, TodoInv, [Next]_vars
               PROVE  ThreadsInv'
    BY DEF StageInv
  <1> USE DEF ThreadsInv, Handling, eventVars, managerVars, dockerVars, processVars
  <1>1. CASE Machine
    <2>1. ~subscribed => ~subscribed' /\ stream' = stream
      BY <1>1, Zenon
         DEF Machine, DockerStep, ContainerStarts, ContainerDies, OtherHappens, StreamBreaks, Send
    <2> QED
      BY <1>1, <2>1 DEF Machine
  <1>2. CASE Pods \/ WritersEnd \/ Restart
    BY <1>2 DEF Pods, PodAdded, PodDeleted, WritersEnd, Restart
  <1>3. CASE GetWorkloads
    BY <1>3 DEF GetWorkloads, GetWorkload, NoWorkload, Look
  <1>4. CASE (\E a \in InternalEvents : Timer(a)) \/ Puller
    BY <1>4 DEF Timer, Tick, Puller, PullerStep, Pull, PullRaises, PullerEnds
  <1>5. CASE Subscribe \/ ListContainers \/ InspectContainers \/ InspectFails
    BY <1>5 DEF Subscribe, ListContainers, InspectContainers, InspectFails
  <1>6. CASE FinishInit
    BY <1>6 DEF FinishInit, StartProcessingEvents, Isolate
  <1>7. CASE (TakeFirst \/ TakeRest \/ FinishBatch) /\ UNCHANGED <<processVars, boundVars>>
    BY <1>7 DEF TakeFirst, TakeRest, FinishBatch
  <1>8. CASE BeginBatch
    BY <1>8 DEF BeginBatch, HandlerBegins
  <1>9. CASE HandleContainerBatch
    BY <1>9 DEF HandleContainerBatch, HandlerEnds, Isolate
  <1>10. CASE HandleRebalance \/ PeriodicEventEnds
    BY <1>10 DEF HandleRebalance, PeriodicEventEnds, HandlerEnds
  <1>11. CASE ReconcileFails \/ AlarmFires \/ Crash
    BY <1>11 DEF ReconcileFails, AlarmFires, Crash, EndProcess
  <1>12. CASE UNCHANGED vars
    BY <1>12 DEF vars
  <1> QED
    BY <1>1, <1>2, <1>3, <1>4, <1>5, <1>6, <1>7, <1>8, <1>9, <1>10, <1>11, <1>12
       DEF Next, Startup, Processor

-----------------------------------------------------------------------------
(* Where the events are *)

\* The thread that reads the stream ends, and what is left there is never read.
ReaderEnds ==
    /\ ~subscribed'
    /\ stream' = <<>>
    /\ UNCHANGED <<container, stopped, queue, proc, batch, todo>>

\* What a step of the agent can do to the events that are on their way.
LEMMA EventSteps ==
    ASSUME [Next]_vars
    PROVE  \/ EndProcess
           \/ Subscribe
           \/ DockerStep /\ UNCHANGED managerVars
           \/ Pull \/ ReaderEnds
           \/ \E a \in InternalEvents : Tick(a)
           \/ TakeFirst \/ TakeRest \/ FinishBatch
           \/ BeginBatch
           \/ HandlerEnds /\ UNCHANGED dockerVars
           \/ phase # "ready" /\ StartProcessingEvents
                /\ UNCHANGED <<dockerVars, stopped, queue, batch, todo>>
           \/ UNCHANGED <<dockerVars, stopped, queue, proc, batch, todo>>
  <1> USE DEF eventVars, managerVars
  <1>1. CASE Machine
    BY <1>1 DEF Machine
  <1>2. CASE Pods \/ GetWorkloads \/ WritersEnd \/ Restart
    BY <1>2 DEF Pods, PodAdded, PodDeleted, GetWorkloads, GetWorkload, NoWorkload, Look,
                WritersEnd, Restart
  <1>3. CASE (\E a \in InternalEvents : Timer(a)) \/ Puller
    BY <1>3 DEF Timer, Puller, PullerStep, PullRaises, PullerEnds, ReaderEnds
  <1>4. CASE Startup
    BY <1>4 DEF Startup, ListContainers, InspectContainers, InspectFails, FinishInit
  <1>5. CASE Processor
    BY <1>5 DEF Processor, HandleContainerBatch, HandleRebalance, PeriodicEventEnds,
                ReconcileFails
  <1>6. CASE AlarmFires \/ Crash
    BY <1>6 DEF AlarmFires, Crash
  <1>7. CASE UNCHANGED vars
    BY <1>7 DEF vars
  <1> QED
    BY <1>1, <1>2, <1>3, <1>4, <1>5, <1>6, <1>7 DEF Next

\* Two events of containers are the same only if their containers are.
LEMMA EventsDiffer ==
    /\ \A a, b, c, d : Event(a, c) = Event(b, d) <=> a = b /\ c = d
    /\ \A a, c : Event(a, c).action = a /\ Event(a, c).name = c
    /\ \A c, d : Event("start", c) # Event("die", d)
    /\ \A p \in PeriodicEvents : \A c : Event("start", c) # p /\ Event("die", c) # p
    /\ \A c \in Titus, a \in {"start", "die"} : Event(a, c) \in TitusEvents
  <1>1. \A a, b, c, d : Event(a, c) = Event(b, d) <=> a = b /\ c = d
    BY DEF Event
  <1>2. \A a, c : Event(a, c).action = a /\ Event(a, c).name = c
    BY DEF Event
  <1>3. \A p \in PeriodicEvents : p.action \in InternalEvents
    BY DEF PeriodicEvents, InternalEvent
  <1>4. "start" \notin InternalEvents /\ "die" \notin InternalEvents
    BY InternalActions
  <1>5. \A c \in Titus, a \in {"start", "die"} : Event(a, c) \in TitusEvents
    BY DEF Event, TitusEvents
  <1> QED
    BY <1>1, <1>2, <1>3, <1>4, <1>5

\* What a step of docker does to the containers and to the stream: it sends the
\* event of the container that starts or dies whenever the stream is open, behind
\* those it has sent before.
DockerSent ==
    /\ \A e : IsIn(e, stream) => IsIn(e, stream')
    /\ \A c \in Titus : container[c] = "gone" => container'[c] = "gone"
    /\ subscribed' => subscribed
    /\ \A c \in Titus :
           IsIn(Event("die", c), stream') =>
               IsIn(Event("die", c), stream) \/ container'[c] = "gone"
    /\ \A c \in Titus :
           IsIn(Event("start", c), stream') =>
               IsIn(Event("start", c), stream) \/ container'[c] # "absent"
    /\ \A c \in Containers : container[c] # "absent" => container'[c] # "absent"
    /\ subscribed => \A c \in Titus :
           /\ container'[c] = "running" =>
                  container[c] = "running" \/ IsIn(Event("start", c), stream')
           /\ container'[c] = "gone" =>
                  \/ /\ container[c] = "gone"
                     /\ \A f : Followed(Event("start", c), f, stream) =>
                                  Followed(Event("start", c), f, stream')
                  \/ /\ Followed(Event("start", c), Event("die", c), stream')
                     /\ IsIn(Event("die", c), stream')

\* Docker sends its events in order.
LEMMA DockerSends == DockerTypeOK /\ DockerStep => DockerSent
  <1> SUFFICES ASSUME DockerTypeOK, DockerStep PROVE DockerSent
    OBVIOUS
  <1> USE TitusContainers DEF DockerTypeOK
  <1>1. ASSUME NEW d \in Containers, NEW action \in {"start", "die", "other"}, Send(action, d)
        PROVE  /\ \/ stream' = stream /\ ~subscribed
                  \/ stream' = Append(stream, Event(action, d))
               /\ \A e : IsIn(e, stream) => IsIn(e, stream')
               /\ \A e : IsIn(e, stream') => IsIn(e, stream) \/ e = Event(action, d)
               /\ subscribed => IsIn(Event(action, d), stream')
               /\ subscribed => \A e : Event(action, d) # e =>
                     /\ \A f : Followed(e, f, stream) => Followed(e, f, stream')
                     /\ Followed(e, Event(action, d), stream')
    <2>1. \/ stream' = stream /\ ~subscribed
          \/ stream' = Append(stream, Event(action, d))
      BY <1>1, Zenon DEF Send, Event
    <2>2. Event(action, d) \in DockerEvents
      BY DEF Event, DockerEvents
    <2> DEFINE x == Event(action, d)
               t == Append(stream, x)
    <2>3. /\ \A e : IsIn(e, t) <=> IsIn(e, stream) \/ e = x
          /\ \A e, f : x # e /\ Followed(e, f, stream) => Followed(e, f, t)
          /\ \A e : x # e => Followed(e, x, t)
      BY <2>2, Appended
    <2> HIDE DEF x
    <2>4. CASE stream' = stream /\ ~subscribed
      BY <2>1, <2>4
    <2>5. CASE stream' = t
      <3> HIDE DEF t
      <3> QED
        BY <2>1, <2>3, <2>5 DEF x
    <2> QED
      BY <2>1, <2>4, <2>5 DEF x
  <1>2. ASSUME NEW d \in Containers, ContainerStarts(d)
        PROVE  /\ Send("start", d) /\ UNCHANGED subscribed /\ container'[d] = "running"
               /\ container[d] = "absent"
               /\ \A c \in Containers : c # d => container'[c] = container[c]
    BY <1>2 DEF ContainerStarts
  <1>3. ASSUME NEW d \in Containers, ContainerDies(d)
        PROVE  /\ Send("die", d) /\ UNCHANGED subscribed /\ container'[d] = "gone"
               /\ \A c \in Containers : c # d => container'[c] = container[c]
    BY <1>3 DEF ContainerDies
  <1>4. ASSUME NEW d \in Containers, OtherHappens(d)
        PROVE  Send("other", d) /\ UNCHANGED <<subscribed, container>>
    BY <1>4 DEF OtherHappens
  <1>5. CASE StreamBreaks
    BY <1>5, Zenon DEF StreamBreaks, DockerSent
  <1>6. ASSUME NEW d \in Containers, ContainerStarts(d)
        PROVE  DockerSent
    <2>1. /\ \A e : IsIn(e, stream) => IsIn(e, stream')
          /\ \A e : IsIn(e, stream') => IsIn(e, stream) \/ e = Event("start", d)
          /\ subscribed => IsIn(Event("start", d), stream')
          /\ subscribed => \A e : Event("start", d) # e =>
                \A f : Followed(e, f, stream) => Followed(e, f, stream')
      BY <1>1, <1>2, <1>6
    <2> QED
      BY <1>2, <1>6, <2>1, EventsDiffer DEF DockerSent
  <1>7. ASSUME NEW d \in Containers, ContainerDies(d)
        PROVE  DockerSent
    <2>1. /\ \A e : IsIn(e, stream) => IsIn(e, stream')
          /\ \A e : IsIn(e, stream') => IsIn(e, stream) \/ e = Event("die", d)
          /\ subscribed => IsIn(Event("die", d), stream')
          /\ subscribed => \A e : Event("die", d) # e =>
                /\ \A f : Followed(e, f, stream) => Followed(e, f, stream')
                /\ Followed(e, Event("die", d), stream')
      BY <1>1, <1>3, <1>7
    <2>2. /\ UNCHANGED subscribed /\ container'[d] = "gone"
          /\ \A c \in Containers : c # d => container'[c] = container[c]
      BY <1>3, <1>7
    <2>3. ASSUME NEW c \in Titus, IsIn(Event("die", c), stream')
          PROVE  IsIn(Event("die", c), stream) \/ container'[c] = "gone"
      BY <2>1, <2>2, <2>3, EventsDiffer
    <2>4. ASSUME NEW c \in Titus, subscribed, container'[c] = "gone", c # d
          PROVE  /\ container[c] = "gone"
                 /\ \A f : Followed(Event("start", c), f, stream) =>
                              Followed(Event("start", c), f, stream')
      BY <2>1, <2>2, <2>4, EventsDiffer
    <2>5. subscribed => /\ Followed(Event("start", d), Event("die", d), stream')
                        /\ IsIn(Event("die", d), stream')
      BY <2>1, EventsDiffer
    <2>6. ASSUME NEW c \in Titus, container'[c] = "running"
          PROVE  container[c] = "running"
      BY <2>2, <2>6
    <2>7. \A c \in Titus : container[c] = "gone" => container'[c] = "gone"
      BY <2>2
    <2>8. subscribed' => subscribed
      BY <2>2, Zenon
    <2>9. \A c \in Containers : container[c] # "absent" => container'[c] # "absent"
      BY <2>2
    <2>10. ASSUME NEW c \in Titus, IsIn(Event("start", c), stream')
           PROVE  IsIn(Event("start", c), stream)
      BY <2>1, <2>10, EventsDiffer
    <2> QED
      BY <2>1, <2>3, <2>4, <2>5, <2>6, <2>7, <2>8, <2>9, <2>10, Zenon DEF DockerSent
  <1>8. ASSUME NEW d \in Containers, OtherHappens(d)
        PROVE  DockerSent
    <2>1. /\ \A e : IsIn(e, stream) => IsIn(e, stream')
          /\ \A e : IsIn(e, stream') => IsIn(e, stream) \/ e = Event("other", d)
          /\ subscribed => \A e : Event("other", d) # e =>
                \A f : Followed(e, f, stream) => Followed(e, f, stream')
      BY <1>1, <1>4, <1>8
    <2> QED
      BY <1>4, <1>8, <2>1, EventsDiffer DEF DockerSent
  <1> QED
    BY <1>5, <1>6, <1>7, <1>8 DEF DockerStep

\* Holds looks for the event of the container.
LEMMA HoldsIsIn ==
    ASSUME NEW s, s \in Seq(DockerEvents) \/ s \in Seq(QueuedEvents),
           NEW action \in {"start", "die"}, NEW c
    PROVE  Holds(s, action, c) <=> IsIn(Event(action, c), s)
  <1>1. \A i \in DOMAIN s : s[i] \in DockerEvents \/ s[i] \in QueuedEvents
    OBVIOUS
  <1>2. ASSUME NEW e, e \in DockerEvents \/ e \in QueuedEvents
        PROVE  e.action = action /\ IsContainerEvent(e) /\ e.name = c <=> e = Event(action, c)
    <2>1. CASE e \in DockerEvents \/ e \in TitusEvents
      BY <2>1 DEF DockerEvents, TitusEvents, IsContainerEvent, Event
    <2>2. CASE e \in PeriodicEvents
      <3>1. e.action # action
        BY <2>2, InternalActions DEF PeriodicEvents, InternalEvent
      <3> QED
        BY <3>1, EventsDiffer
    <2> QED
      BY <1>2, <2>1, <2>2 DEF QueuedEvents
  <1> QED
    BY <1>1, <1>2 DEF Holds, IsIn

\* OnTheWay, in these terms.
Coming(e) ==
    \/ IsIn(e, stream)
    \/ IsIn(e, queue)
    \/ BatchIsWaiting /\ IsIn(e, batch)

\* An event is on its way when it is on the stream, on the queue or in a batch
\* that waits.
LEMMA OnTheWayIsComing ==
    ASSUME TypeOK, NEW action \in {"start", "die"}, NEW c
    PROVE  OnTheWay(action, c) <=> Coming(Event(action, c))
  <1>1. stream \in Seq(DockerEvents) /\ queue \in Seq(QueuedEvents) /\ batch \in Seq(QueuedEvents)
    BY DEF TypeOK, DockerTypeOK, ManagerTypeOK
  <1> QED
    BY <1>1, HoldsIsIn DEF OnTheWay, Coming

\* An event that is taken from the stream is put on the queue, if it is that of a
\* Titus container.
LEMMA Pulled ==
    ASSUME TypeOK, Pull
    PROVE  /\ \A e : IsIn(e, stream') => IsIn(e, stream)
           /\ \A e : IsIn(e, queue') => IsIn(e, queue) \/ IsIn(e, stream)
           /\ \A e : IsIn(e, queue) => IsIn(e, queue')
           /\ \A e \in TitusEvents : IsIn(e, stream) => IsIn(e, stream') \/ IsIn(e, queue')
           /\ \A e, f : Followed(e, f, stream) => Followed(e, f, stream')
           /\ \A e, f : Followed(e, f, stream) /\ Followed(e, f, queue) =>
                  Followed(e, f, queue') \/ IsIn(f, stream')
           /\ \A e \in TitusEvents, f \in TitusEvents : e # f /\ IsIn(f, stream) =>
                  Followed(e, f, queue') \/ IsIn(f, stream')
  <1> DEFINE h == Head(stream)
  <1>1. /\ stream \in Seq(DockerEvents) /\ stream # <<>> /\ queue \in Seq(QueuedEvents)
        /\ stream' = Tail(stream)
    BY DEF Pull, TypeOK, DockerTypeOK, ManagerTypeOK
  <1>2. /\ h \in DockerEvents
        /\ \A e : IsIn(e, stream) <=> e = h \/ IsIn(e, stream')
        /\ \A e, f : Followed(e, f, stream) =>
              Followed(e, f, stream') /\ (h = e => IsIn(f, stream'))
    BY <1>1, RestOfList
  <1>3. /\ ShouldHandle(h) => h \in TitusEvents
        /\ h \in TitusEvents => ShouldHandle(h)
    BY <1>2 DEF ShouldHandle, IsContainerEvent, DockerEvents, TitusEvents
  <1> HIDE DEF h
  <1>4. CASE ShouldHandle(h)
    <2>1. queue' = Append(queue, h) /\ h \in QueuedEvents
      BY <1>3, <1>4 DEF Pull, h, QueuedEvents
    <2>2. /\ \A e : IsIn(e, queue') <=> IsIn(e, queue) \/ e = h
          /\ \A e, f : h # e /\ Followed(e, f, queue) => Followed(e, f, queue')
          /\ \A e : h # e => Followed(e, h, queue')
      BY <1>1, <2>1, Appended
    <2> QED
      BY <1>2, <2>2
  <1>5. CASE ~ShouldHandle(h)
    <2>1. queue' = queue
      BY <1>5 DEF Pull, h
    <2> QED
      BY <1>2, <1>3, <1>5, <2>1
  <1> QED
    BY <1>4, <1>5

\* The first event of the queue begins a batch.
LEMMA Taken ==
    ASSUME TypeOK, TakeFirst
    PROVE  /\ \A e : IsIn(e, queue) <=> IsIn(e, queue') \/ IsIn(e, batch')
           /\ \A e, f : Followed(e, f, queue) =>
                  /\ Followed(e, f, queue')
                  /\ IsIn(e, batch') => IsIn(f, queue')
           /\ stream' = stream /\ ~BatchIsWaiting /\ BatchIsWaiting'
  <1>1. /\ queue \in Seq(QueuedEvents) /\ queue # <<>>
        /\ queue' = Tail(queue) /\ batch' = <<Head(queue)>>
        /\ stream' = stream
    BY DEF TakeFirst, TypeOK, ManagerTypeOK, dockerVars
  <1>2. \A e : IsIn(e, batch') <=> e = Head(queue)
    BY <1>1 DEF IsIn
  <1>3. ~BatchIsWaiting /\ BatchIsWaiting'
    BY DEF TakeFirst, BatchIsWaiting
  <1> QED
    BY <1>1, <1>2, <1>3, RestOfList

\* The rest of the queue completes it, and its events wait for the handler.
LEMMA TakenAll ==
    ASSUME TypeOK, TakeRest
    PROVE  /\ \A e : IsIn(e, batch') <=> IsIn(e, queue) \/ IsIn(e, batch)
           /\ \A e : ~IsIn(e, queue')
           /\ queue' = <<>> /\ stream' = stream /\ BatchIsWaiting
           /\ \A e \in TitusEvents : IsIn(e, batch') => BatchIsWaiting'
  <1>1. /\ queue \in Seq(QueuedEvents) /\ batch \in Seq(QueuedEvents)
        /\ queue' = <<>> /\ batch' = batch \o queue /\ todo' = EventsToHandle(batch')
        /\ stream' = stream /\ proc = "rest" /\ proc' = "next"
    BY DEF TakeRest, TypeOK, ManagerTypeOK, dockerVars
  <1>2. /\ batch' \in Seq(QueuedEvents)
        /\ \A e : IsIn(e, batch') <=> IsIn(e, queue) \/ IsIn(e, batch)
    BY <1>1, Joined
  <1>3. ASSUME NEW e \in TitusEvents, IsIn(e, batch')
        PROVE  BatchIsWaiting'
    <2>1. todo' # <<>> /\ Head(todo') = BatchOf(batch')
      BY <1>1, <1>2, <1>3, EventsToHandleOfBatch
    <2>2. BatchOf(batch').action = "container_batch"
      BY DEF BatchOf, ContainerBatch
    <2> QED
      BY <1>1, <2>1, <2>2 DEF BatchIsWaiting
  <1>4. \A e : ~IsIn(e, queue')
    BY <1>1 DEF IsIn
  <1> QED
    BY <1>1, <1>2, <1>3, <1>4 DEF BatchIsWaiting

\* A handler that ends leaves periodic events only.
LEMMA HandlerEnded ==
    ASSUME TypeOK, StageInv, HandlerEnds
    PROVE  ~BatchIsWaiting /\ ~BatchIsWaiting'
  <1>1. /\ todo \in Seq(HandledEvents) /\ todo # <<>> /\ proc = "handle" /\ proc' = "next"
        /\ todo' = Tail(todo)
    BY DEF HandlerEnds, TypeOK, ManagerTypeOK
  <1>2. \A i \in DOMAIN Tail(todo) : Tail(todo)[i].action # "container_batch"
    BY <1>1, RestOfList DEF StageInv, TodoInv
  <1>3. todo' # <<>> => Head(todo').action # "container_batch"
    <2>1. Tail(todo) \in Seq(HandledEvents)
      BY <1>1
    <2> QED
      BY <1>1, <1>2, <2>1
  <1> QED
    BY <1>1, <1>3 DEF BatchIsWaiting

\* The container batch handler begins with the events of the batch.
LEMMA BatchBegins ==
    ASSUME TypeOK, StageInv, BeginBatch
    PROVE  /\ todo # <<>> /\ todo' = todo /\ batch' = batch /\ proc' = "handle"
           /\ BatchIsWaiting <=> Head(todo).action = "container_batch"
           /\ BatchIsWaiting => Head(todo) = BatchOf(batch)
           /\ ~BatchIsWaiting'
  <1>1. /\ todo \in Seq(HandledEvents) /\ todo # <<>> /\ proc = "next" /\ proc' = "handle"
        /\ UNCHANGED <<batch, todo>>
    BY DEF BeginBatch, HandlerBegins, TypeOK, ManagerTypeOK
  <1>2. 1 \in DOMAIN todo /\ todo[1] = Head(todo)
    BY <1>1
  <1> QED
    BY <1>1, <1>2 DEF StageInv, TodoInv, BatchIsWaiting

-----------------------------------------------------------------------------
(* Events tell what has become of their containers *)

\* An event that docker has sent and that is not handled yet.
Sent(e) == IsIn(e, stream) \/ IsIn(e, queue) \/ IsIn(e, batch)

\* Nothing but docker makes an event of a container.
LEMMA ComeFromDocker ==
    ASSUME TypeOK, [Next]_vars, NEW e \in TitusEvents, Sent(e)'
    PROVE  Sent(e) \/ (DockerStep /\ IsIn(e, stream'))
  <1> USE DEF managerVars, dockerVars
  <1>1. \A p \in PeriodicEvents : p # e
    <2>1. e.action \notin InternalEvents
      BY InternalActions DEF TitusEvents
    <2> QED
      BY <2>1 DEF PeriodicEvents, InternalEvent
  <1>2. IsIn(e, stream') \/ IsIn(e, queue') \/ IsIn(e, batch')
    BY DEF Sent
  <1>3. Sent(e) <=> IsIn(e, stream) \/ IsIn(e, queue) \/ IsIn(e, batch)
    BY DEF Sent
  <1>4. ~IsIn(e, <<>>)
    BY DEF IsIn
  <1>5. CASE EndProcess
    BY <1>2, <1>4, <1>5 DEF EndProcess
  <1>6. CASE Subscribe
    BY <1>2, <1>3, <1>6 DEF Subscribe
  <1>7. CASE DockerStep /\ UNCHANGED managerVars
    BY <1>2, <1>3, <1>7
  <1>8. CASE Pull
    BY <1>2, <1>3, <1>8, Pulled DEF Pull
  <1>9. ASSUME NEW a \in InternalEvents, Tick(a)
        PROVE  Sent(e)
    <2>1. queue \in Seq(QueuedEvents) /\ InternalEvent(a) \in QueuedEvents
          /\ InternalEvent(a) \in PeriodicEvents
      BY DEF TypeOK, ManagerTypeOK, QueuedEvents, PeriodicEvents
    <2>2. IsIn(e, queue') => IsIn(e, queue)
      BY <1>1, <1>9, <2>1, Appended DEF Tick
    <2> QED
      BY <1>2, <1>3, <1>9, <2>2 DEF Tick
  <1>10. CASE TakeFirst
    BY <1>2, <1>3, <1>10, Taken DEF TakeFirst
  <1>11. CASE TakeRest
    BY <1>2, <1>3, <1>11, TakenAll DEF TakeRest
  <1>12. CASE FinishBatch
    BY <1>2, <1>3, <1>4, <1>12 DEF FinishBatch
  <1>13. CASE BeginBatch
    BY <1>2, <1>3, <1>13 DEF BeginBatch, HandlerBegins
  <1>14. CASE HandlerEnds /\ UNCHANGED dockerVars
    BY <1>2, <1>3, <1>14 DEF HandlerEnds
  <1>15. CASE UNCHANGED <<dockerVars, stopped, queue, batch, todo>>
    BY <1>2, <1>3, <1>15
  <1>16. CASE ReaderEnds
    BY <1>2, <1>3, <1>4, <1>16 DEF ReaderEnds
  <1> QED
    BY <1>5, <1>6, <1>7, <1>8, <1>9, <1>10, <1>11, <1>12, <1>13, <1>14, <1>15, <1>16, EventSteps

\* Nothing but docker changes what becomes of containers: they start, and then
\* they die.
LEMMA LivesGoOn ==
    ASSUME TypeOK, [Next]_vars
    PROVE  /\ DockerStep \/ container' = container
           /\ \A c \in Titus : container[c] = "gone" => container'[c] = "gone"
           /\ \A c \in Containers : container[c] # "absent" => container'[c] # "absent"
  <1>1. DockerStep \/ container' = container
    BY EventSteps
       DEF dockerVars, EndProcess, Subscribe, Pull, ReaderEnds, Tick, TakeFirst, TakeRest,
           FinishBatch, BeginBatch, HandlerBegins
  <1>2. DockerStep => DockerSent
    BY DockerSends DEF TypeOK
  <1> QED
    BY <1>1, <1>2 DEF DockerSent

DiesInv == \A c \in Titus : Sent(Event("die", c)) => container[c] = "gone"

\* Die events are those of containers that are gone.
LEMMA DiesNext == TypeOK /\ DiesInv /\ [Next]_vars => DiesInv'
  <1> SUFFICES ASSUME TypeOK, DiesInv, [Next]_vars, NEW c \in Titus, Sent(Event("die", c))'
               PROVE  container'[c] = "gone"
    BY DEF DiesInv, Sent
  <1>1. Event("die", c) \in TitusEvents
    BY EventsDiffer
  <1>2. CASE Sent(Event("die", c))
    BY <1>2, LivesGoOn DEF DiesInv
  <1>3. CASE DockerStep /\ IsIn(Event("die", c), stream')
    BY <1>2, <1>3, DockerSends DEF TypeOK, DockerSent, Sent
  <1> QED
    BY <1>1, <1>2, <1>3, ComeFromDocker

-----------------------------------------------------------------------------
(* No event is lost on its way *)

\* An event of a Titus container stays on its way until the batch handler begins
\* with it, or the process or the stream of events ends.
LEMMA ComingStays ==
    ASSUME TypeOK, StageInv, [Next]_vars, ~EndProcess, ~ReaderEnds,
           NEW e \in TitusEvents, Coming(e)
    PROVE  Coming(e)' \/ (BeginBatch /\ BatchIsWaiting /\ IsIn(e, batch))
  <1> USE DEF managerVars, dockerVars
  <1>1. IsIn(e, stream) \/ IsIn(e, queue) \/ (BatchIsWaiting /\ IsIn(e, batch))
    BY DEF Coming
  <1>2. Coming(e)' <=> \/ IsIn(e, stream') \/ IsIn(e, queue')
                       \/ (BatchIsWaiting' /\ IsIn(e, batch'))
    BY DEF Coming
  <1>3. UNCHANGED <<proc, todo>> => (BatchIsWaiting' <=> BatchIsWaiting)
    BY DEF BatchIsWaiting
  <1>4. CASE Subscribe
    BY <1>1, <1>2, <1>3, <1>4 DEF Subscribe
  <1>5. CASE DockerStep /\ UNCHANGED managerVars
    BY <1>1, <1>2, <1>3, <1>5, DockerSends DEF TypeOK, DockerSent
  <1>6. CASE Pull
    BY <1>1, <1>2, <1>3, <1>6, Pulled DEF Pull
  <1>7. ASSUME NEW a \in InternalEvents, Tick(a)
        PROVE  Coming(e)'
    <2>1. queue \in Seq(QueuedEvents) /\ InternalEvent(a) \in QueuedEvents
      BY DEF TypeOK, ManagerTypeOK, QueuedEvents, PeriodicEvents
    <2>2. IsIn(e, queue) => IsIn(e, queue')
      BY <1>7, <2>1, Appended DEF Tick
    <2> QED
      BY <1>1, <1>2, <1>3, <1>7, <2>2 DEF Tick
  <1>8. CASE TakeFirst
    BY <1>1, <1>2, <1>8, Taken
  <1>9. CASE TakeRest
    BY <1>1, <1>2, <1>9, TakenAll
  <1>10. CASE FinishBatch
    <2>1. ~BatchIsWaiting
      BY <1>10 DEF FinishBatch, BatchIsWaiting
    <2> QED
      BY <1>1, <1>2, <1>10, <2>1 DEF FinishBatch
  <1>11. CASE BeginBatch
    BY <1>1, <1>2, <1>11 DEF BeginBatch, HandlerBegins
  <1>12. CASE HandlerEnds /\ UNCHANGED dockerVars
    BY <1>1, <1>2, <1>12, HandlerEnded DEF HandlerEnds
  <1>13. CASE phase # "ready" /\ StartProcessingEvents
                /\ UNCHANGED <<dockerVars, stopped, queue, batch, todo>>
    <2>1. ~BatchIsWaiting
      BY <1>13 DEF StageInv, ThreadsInv, BatchIsWaiting
    <2> QED
      BY <1>1, <1>2, <1>13, <2>1
  <1>14. CASE UNCHANGED <<dockerVars, stopped, queue, proc, batch, todo>>
    BY <1>1, <1>2, <1>3, <1>14
  <1> QED
    BY <1>4, <1>5, <1>6, <1>7, <1>8, <1>9, <1>10, <1>11, <1>12, <1>13, <1>14, EventSteps


-----------------------------------------------------------------------------
(* No container is missed *)

\* What a step of the agent can do to the workloads and to what becomes of them.
LEMMA ProcessSteps ==
    ASSUME [Next]_vars
    PROVE  \/ EndProcess
           \/ Subscribe \/ ListContainers \/ InspectFails
           \/ FinishInit \/ HandleContainerBatch
           \/ BeginBatch
           \/ \E c \in Containers : GetWorkload(c) \/ NoWorkload(c)
           \/ /\ UNCHANGED <<toLook, adds, workloads, dropped>>
              /\ \/ phase' = phase
                 \/ phase = "inspect" /\ phase' = "look" /\ UNCHANGED eventVars
                 \/ phase' = "boot"
  <1> USE DEF processVars
  <1>1. CASE Machine
    BY <1>1 DEF Machine
  <1>2. CASE Pods \/ GetWorkloads \/ WritersEnd \/ Restart
    BY <1>2 DEF Pods, PodAdded, PodDeleted, GetWorkloads, WritersEnd, Restart
  <1>3. CASE (\E a \in InternalEvents : Timer(a)) \/ Puller
    BY <1>3 DEF Timer, Puller
  <1>4. CASE Startup
    BY <1>4 DEF Startup, InspectContainers
  <1>5. CASE Processor
    BY <1>5 DEF Processor, HandleRebalance, PeriodicEventEnds, ReconcileFails
  <1>6. CASE AlarmFires \/ Crash
    BY <1>6 DEF AlarmFires, Crash
  <1>7. CASE UNCHANGED vars
    BY <1>7 DEF vars
  <1> QED
    BY <1>1, <1>2, <1>3, <1>4, <1>5, <1>6, <1>7 DEF Next

\* A container of which the agent knows, or of which an event had no effect.
Known(c) == c \in workloads \/ BeingAdded(c) \/ c \in dropped

MissedInv ==
    phase \in {"inspect", "look", "ready"} /\ subscribed =>
        \A c \in Titus :
            container[c] = "running" => Known(c) \/ Coming(Event("start", c))

\* The containers that the batch handler removes are gone.
LEMMA RemovedAreGone ==
    ASSUME TypeOK, StageInv, DiesInv, Handling("container_batch"),
           NEW c \in Titus, NEW i \in DOMAIN Head(todo).dies, Head(todo).dies[i] = c
    PROVE  IsIn(Event("die", c), batch) /\ container[c] = "gone"
  <1>1. todo \in Seq(HandledEvents) /\ todo # <<>> /\ batch \in Seq(QueuedEvents)
    BY DEF Handling, TypeOK, ManagerTypeOK
  <1>2. 1 \in DOMAIN todo /\ todo[1] = Head(todo)
    BY <1>1
  <1>3. Head(todo) = BatchOf(batch)
    BY <1>2 DEF Handling, StageInv, TodoInv
  <1>4. IsIn(Event("die", c), batch)
    BY <1>1, <1>3, BatchOfEvents
  <1> QED
    BY <1>4 DEF DiesInv, Sent

\* What is known stays known, but for containers that are removed for good.
LEMMA KnownStays ==
    ASSUME TypeOK, StageInv, DiesInv, [Next]_vars, ~EndProcess, ~InspectFails,
           NEW c \in Titus, Known(c), container[c] # "gone"
    PROVE  Known(c)'
  <1> USE DEF Known, BeingAdded
  <1>1. CASE Subscribe
    BY <1>1 DEF Subscribe
  <1>2. CASE ListContainers
    <2>1. toLook = {}
      BY <1>2 DEF ListContainers, StageInv, ThreadsInv, Handling
    <2> QED
      BY <1>2, <2>1 DEF ListContainers
  <1>3. CASE FinishInit
    <2>1. toLook = {}
      BY <1>3 DEF FinishInit
    <2>2. Isolate({})
      BY <1>3 DEF FinishInit
    <2> QED
      BY <2>1, <2>2 DEF Isolate, Isolated, IsolateFails
  <1>4. CASE HandleContainerBatch
    <2> DEFINE removes == {Head(todo).dies[i] : i \in DOMAIN Head(todo).dies}
    <2>1. toLook = {} /\ Handling("container_batch") /\ Isolate(removes)
      BY <1>4 DEF HandleContainerBatch
    <2>2. c \notin removes
      BY <2>1, RemovedAreGone
    <2> HIDE DEF removes
    <2> QED
      BY <2>1, <2>2 DEF Isolate, Isolated, IsolateFails
  <1>5. CASE BeginBatch
    <2>1. toLook = {}
      BY <1>5 DEF BeginBatch, HandlerBegins, StageInv, ThreadsInv, Handling
    <2> QED
      BY <1>5, <2>1 DEF BeginBatch
  <1>6. ASSUME NEW d \in Containers, GetWorkload(d) \/ NoWorkload(d)
        PROVE  Known(c)'
    BY <1>6 DEF GetWorkload, NoWorkload, Look
  <1>7. CASE UNCHANGED <<toLook, adds, workloads, dropped>>
    BY <1>7
  <1> QED
    BY <1>1, <1>2, <1>3, <1>4, <1>5, <1>6, <1>7, ProcessSteps

\* No step makes the agent miss a container.
LEMMA MissedNext == TypeOK /\ StageInv /\ DiesInv /\ MissedInv /\ [Next]_vars => MissedInv'
  <1> SUFFICES ASSUME TypeOK, StageInv, DiesInv, MissedInv, [Next]_vars,
                      phase' \in {"inspect", "look", "ready"}, subscribed',
                      NEW c \in Titus, container'[c] = "running"
               PROVE  Known(c)' \/ Coming(Event("start", c))'
    BY DEF MissedInv, Known, BeingAdded, Coming, BatchIsWaiting
  <1>1. ~EndProcess /\ ~ReaderEnds /\ ~InspectFails /\ ~Subscribe
    BY DEF EndProcess, ReaderEnds, InspectFails, Subscribe
  <1>2. CASE ListContainers
    <2>1. container' = container
      BY <1>2 DEF ListContainers, eventVars, dockerVars
    <2> QED
      BY <1>2, <2>1, TitusContainers DEF ListContainers, Running, Known, BeingAdded
  <1>3. CASE ~ListContainers
    <2>1. phase \in {"inspect", "look", "ready"}
      <3>1. phase = "look" \/ phase' = phase \/ phase = "inspect" \/ phase' = "boot" \/ phase = "ready"
        BY <1>1, <1>3, ProcessSteps
           DEF FinishInit, HandleContainerBatch, BeginBatch, GetWorkload, NoWorkload, Look
      <3> QED
        BY <3>1
    <2>2. /\ subscribed
          /\ container[c] = "running" \/ IsIn(Event("start", c), stream')
      <3>1. CASE DockerStep
        BY <3>1, DockerSends, Zenon DEF TypeOK, DockerSent
      <3>2. CASE subscribed' = subscribed /\ container' = container
        <4>1. subscribed
          BY <3>2, Zenon
        <4> QED
          BY <3>2, <4>1
      <3>3. DockerStep \/ (subscribed' = subscribed /\ container' = container)
        BY <1>1, EventSteps
           DEF dockerVars, Pull, Tick, TakeFirst, TakeRest, FinishBatch, BeginBatch, HandlerBegins
      <3> QED
        BY <3>1, <3>2, <3>3
    <2>3. CASE IsIn(Event("start", c), stream')
      BY <2>3 DEF Coming
    <2>4. CASE container[c] = "running" /\ Known(c)
      BY <1>1, <2>4, KnownStays
    <2>5. CASE Coming(Event("start", c))
      <3>1. Event("start", c) \in TitusEvents
        BY EventsDiffer
      <3>2. CASE BeginBatch /\ BatchIsWaiting /\ IsIn(Event("start", c), batch)
        <4>1. /\ Head(todo).action = "container_batch" /\ Head(todo) = BatchOf(batch)
              /\ batch \in Seq(QueuedEvents)
          BY <3>2, BatchBegins DEF TypeOK, ManagerTypeOK
        <4>2. c \in {Head(todo).starts[i] : i \in DOMAIN Head(todo).starts}
          BY <3>2, <4>1, BatchOfEvents
        <4> QED
          BY <3>2, <4>1, <4>2 DEF BeginBatch, Known, BeingAdded
      <3> QED
        BY <1>1, <2>5, <3>1, <3>2, ComingStays
    <2> QED
      BY <2>1, <2>2, <2>3, <2>4, <2>5 DEF MissedInv
  <1> QED
    BY <1>2, <1>3

\* Every running Titus container is a workload or will be one, unless an event of
\* it had no effect or the stream of events broke: for any containers, in any
\* order of events, batches, lookups and ends of the process (status.py:123).
THEOREM NothingIsMissed == Spec => []NoContainerIsMissed
  <1>1. Init => MissedInv /\ DiesInv
    BY DEF Init, DockerInit, NewEventManager, MissedInv, DiesInv, Sent, IsIn
  <1>2. TypeOK /\ MissedInv => NoContainerIsMissed
    BY OnTheWayIsComing DEF MissedInv, NoContainerIsMissed, Known
  <1>3. TypeOK /\ StageInv /\ [Next]_vars => StageInv'
    BY TodoNext, ThreadsNext DEF StageInv
  <1> QED
    BY <1>1, <1>2, <1>3, TypeCorrect, StageInvInit, DiesNext, MissedNext, PTL DEF Spec

-----------------------------------------------------------------------------
(* No workload outlives its container without a cause *)

\* Start and die of a container keep their order: when the start event of one
\* that is gone is on the stream or the queue, its die event is behind it, and
\* when it waits in a batch, its die event is still to come to the handler.
OrderInv ==
    subscribed => \A c \in Titus : container[c] = "gone" =>
        /\ Followed(Event("start", c), Event("die", c), stream)
        /\ IsIn(Event("die", c), stream) \/ Followed(Event("start", c), Event("die", c), queue)
        /\ BatchIsWaiting /\ IsIn(Event("start", c), batch) => Coming(Event("die", c))

\* The threads keep this order.
LEMMA OrderNext == TypeOK /\ StageInv /\ OrderInv /\ [Next]_vars => OrderInv'
  <1> SUFFICES ASSUME TypeOK, StageInv, OrderInv, [Next]_vars, subscribed',
                      NEW c \in Titus, container'[c] = "gone"
               PROVE  /\ Followed(Event("start", c), Event("die", c), stream')
                      /\ \/ IsIn(Event("die", c), stream')
                         \/ Followed(Event("start", c), Event("die", c), queue')
                      /\ BatchIsWaiting' /\ IsIn(Event("start", c), batch')
                            => Coming(Event("die", c))'
    BY DEF OrderInv, Coming, BatchIsWaiting
  <1> DEFINE s == Event("start", c)
             d == Event("die", c)
             Kept == /\ Followed(s, d, stream')
                     /\ IsIn(d, stream') \/ Followed(s, d, queue')
                     /\ BatchIsWaiting' /\ IsIn(s, batch') => Coming(d)'
  <1> SUFFICES Kept
    OBVIOUS
  <1> USE DEF managerVars, dockerVars
  <1>1. s \in TitusEvents /\ d \in TitusEvents /\ s # d /\ \A p \in PeriodicEvents : p # s /\ p # d
    BY EventsDiffer
  <1>2. ~EndProcess /\ ~ReaderEnds
    BY DEF EndProcess, ReaderEnds
  <1>3. CASE Subscribe
    <2>1. /\ stream' = <<>> /\ queue' = <<>> /\ batch' = <<>>
      BY <1>3 DEF Subscribe, StageInv, ThreadsInv
    <2>2. \A e, f : Followed(e, f, <<>>) /\ ~IsIn(e, <<>>)
      BY DEF Followed, IsIn
    <2> QED
      BY <2>1, <2>2
  <1>4. ASSUME ~Subscribe
        PROVE  /\ subscribed
               /\ DockerStep \/ container' = container
    <2>1. DockerStep \/ (subscribed' = subscribed /\ container' = container)
      BY <1>2, <1>4, EventSteps
         DEF Pull, Tick, TakeFirst, TakeRest, FinishBatch, BeginBatch, HandlerBegins
    <2>2. DockerStep => subscribed
      BY DockerSends, Zenon DEF TypeOK, DockerSent
    <2>3. subscribed' = subscribed => subscribed
      BY Zenon
    <2> QED
      BY <2>1, <2>2, <2>3
  <1>5. ASSUME ~Subscribe, container[c] = "gone"
        PROVE  /\ Followed(s, d, stream)
               /\ IsIn(d, stream) \/ Followed(s, d, queue)
               /\ BatchIsWaiting /\ IsIn(s, batch) => Coming(d)
    BY <1>4, <1>5 DEF OrderInv
  <1>6. ASSUME ~Subscribe, Coming(d)
        PROVE  Coming(d)' \/ BeginBatch
    BY <1>1, <1>2, <1>6, ComingStays
  <1> HIDE DEF s, d
  <1>7. UNCHANGED <<proc, todo>> => (BatchIsWaiting' <=> BatchIsWaiting)
    BY DEF BatchIsWaiting
  <1>8. Coming(d)' <=> IsIn(d, stream') \/ IsIn(d, queue') \/ (BatchIsWaiting' /\ IsIn(d, batch'))
    BY DEF Coming
  <1>9. CASE DockerStep /\ UNCHANGED managerVars /\ ~Subscribe
    <2>1. \/ container[c] = "gone" /\ (Followed(s, d, stream) => Followed(s, d, stream'))
          \/ Followed(s, d, stream') /\ IsIn(d, stream')
      BY <1>4, <1>9, DockerSends DEF TypeOK, DockerSent, s, d
    <2>2. IsIn(d, stream) => IsIn(d, stream')
      BY <1>9, DockerSends DEF TypeOK, DockerSent
    <2>3. ~BeginBatch \/ ~BatchIsWaiting'
      BY BatchBegins
    <2> QED
      BY <1>5, <1>6, <1>7, <1>8, <1>9, <2>1, <2>2, <2>3
  <1>10. CASE ~Subscribe /\ container[c] = "gone" /\ Pull
    <2>1. Followed(s, d, stream')
      BY <1>5, <1>10, Pulled
    <2>2. IsIn(d, stream') \/ Followed(s, d, queue')
      BY <1>1, <1>5, <1>10, Pulled
    <2>3. UNCHANGED <<proc, todo, batch>>
      BY <1>10 DEF Pull
    <2>4. ~BeginBatch \/ ~BatchIsWaiting'
      BY BatchBegins
    <2> QED
      BY <1>5, <1>6, <1>7, <1>10, <2>1, <2>2, <2>3, <2>4
  <1>11. ASSUME ~Subscribe, container[c] = "gone", NEW a \in InternalEvents, Tick(a)
         PROVE  Kept
    <2>1. queue \in Seq(QueuedEvents) /\ InternalEvent(a) \in QueuedEvents
          /\ InternalEvent(a) # s
      BY <1>1 DEF TypeOK, ManagerTypeOK, QueuedEvents, PeriodicEvents
    <2>2. /\ Followed(s, d, queue) => Followed(s, d, queue')
          /\ UNCHANGED <<stream, proc, todo, batch>>
      BY <1>11, <2>1, Appended DEF Tick
    <2>3. ~BeginBatch \/ ~BatchIsWaiting'
      BY BatchBegins
    <2> QED
      BY <1>5, <1>6, <1>7, <1>11, <2>2, <2>3
  <1>12. CASE ~Subscribe /\ container[c] = "gone" /\ TakeFirst
    BY <1>5, <1>8, <1>12, Taken
  <1>13. CASE ~Subscribe /\ container[c] = "gone" /\ TakeRest
    <2>1. Followed(s, d, queue')
      BY <1>13, TakenAll DEF Followed
    <2>2. IsIn(s, queue) => IsIn(d, stream) \/ IsIn(d, queue)
      BY <1>5, <1>13 DEF Followed, IsIn
    <2>3. IsIn(s, batch') => Coming(d)
      BY <1>5, <1>13, <2>2, TakenAll DEF Coming
    <2>4. ~BeginBatch
      BY <1>13 DEF TakeRest, BeginBatch, HandlerBegins
    <2> QED
      BY <1>5, <1>6, <1>13, <2>1, <2>3, <2>4, TakenAll
  <1>14. CASE ~Subscribe /\ container[c] = "gone" /\ FinishBatch
    BY <1>5, <1>14 DEF FinishBatch, BatchIsWaiting
  <1>15. CASE ~Subscribe /\ container[c] = "gone" /\ BeginBatch
    BY <1>5, <1>15, BatchBegins DEF BeginBatch, HandlerBegins
  <1>16. CASE ~Subscribe /\ container[c] = "gone" /\ HandlerEnds /\ UNCHANGED dockerVars
    BY <1>5, <1>16, HandlerEnded DEF HandlerEnds
  <1>17. CASE ~Subscribe /\ container[c] = "gone" /\ StartProcessingEvents
                /\ UNCHANGED <<dockerVars, stopped, queue, batch, todo>>
    BY <1>5, <1>17 DEF StartProcessingEvents, BatchIsWaiting
  <1>18. CASE ~Subscribe /\ container[c] = "gone"
                /\ UNCHANGED <<dockerVars, stopped, queue, proc, batch, todo>>
    BY <1>5, <1>6, <1>7, <1>18, BatchBegins
  <1>19. Kept
    <2>1. CASE DockerStep /\ UNCHANGED managerVars /\ ~Subscribe
      BY <1>9, <2>1
    <2>2. CASE Subscribe
      BY <1>3, <2>2
    <2>3. CASE ~Subscribe /\ ~(DockerStep /\ UNCHANGED managerVars)
      <3>1. container[c] = "gone"
        <4>1. container' = container
          BY <1>2, <2>3, EventSteps
             DEF Pull, Tick, TakeFirst, TakeRest, FinishBatch, BeginBatch, HandlerBegins
        <4> QED
          BY <4>1
      <3> QED
        BY <1>2, <1>10, <1>11, <1>12, <1>13, <1>14, <1>15, <1>16, <1>17, <1>18, <2>3, <3>1,
           EventSteps
    <2> QED
      BY <2>1, <2>2, <2>3
  <1> QED
    BY <1>19


\* While the batch handler is at work, only it changes what it is at work on.
LEMMA HandlingStays ==
    ASSUME [Next]_vars, StageInv, Handling("container_batch"), ~EndProcess
    PROVE  HandleContainerBatch \/ UNCHANGED <<proc, todo>>
  <1> USE DEF eventVars, managerVars, Handling
  <1>1. phase = "ready" /\ proc = "handle"
    BY DEF StageInv, ThreadsInv
  <1>2. CASE Machine
    BY <1>2 DEF Machine
  <1>3. CASE Pods \/ GetWorkloads \/ WritersEnd \/ Restart
    BY <1>3 DEF Pods, PodAdded, PodDeleted, GetWorkloads, GetWorkload, NoWorkload, Look,
                WritersEnd, Restart
  <1>4. CASE (\E a \in InternalEvents : Timer(a)) \/ Puller
    BY <1>4 DEF Timer, Tick, Puller, PullerStep, Pull, PullRaises, PullerEnds
  <1>5. CASE Startup
    BY <1>1, <1>5 DEF Startup, Subscribe, ListContainers, InspectContainers, InspectFails,
                      FinishInit
  <1>6. CASE Processor
    BY <1>1, <1>6 DEF Processor, TakeFirst, TakeRest, FinishBatch, BeginBatch, HandlerBegins,
                      HandleRebalance, PeriodicEventEnds, ReconcileFails
  <1>7. CASE AlarmFires \/ Crash
    BY <1>7 DEF AlarmFires, Crash
  <1>8. CASE UNCHANGED vars
    BY <1>8 DEF vars
  <1> QED
    BY <1>2, <1>3, <1>4, <1>5, <1>6, <1>7, <1>8 DEF Next

ZombieInv ==
    subscribed => \A c \in Titus :
        container[c] = "gone" /\ (c \in workloads \/ BeingAdded(c)) =>
            Coming(Event("die", c)) \/ BeingRemoved(c) \/ c \in dropped

\* No step makes a zombie without a cause.
LEMMA ZombieNext ==
    TypeOK /\ StageInv /\ OrderInv /\ ZombieInv /\ [Next]_vars => ZombieInv'
  <1> SUFFICES ASSUME TypeOK, StageInv, OrderInv, ZombieInv, [Next]_vars, subscribed',
                      NEW c \in Titus, container'[c] = "gone",
                      c \in workloads' \/ c \in toLook' \/ c \in adds'
               PROVE  Coming(Event("die", c))' \/ BeingRemoved(c)' \/ c \in dropped'
    BY DEF ZombieInv, Coming, BatchIsWaiting, BeingRemoved, BeingAdded, Handling
  <1> DEFINE d == Event("die", c)
             removes == {Head(todo).dies[i] : i \in DOMAIN Head(todo).dies}
  <1>1. d \in TitusEvents
    BY EventsDiffer
  <1>2. ~EndProcess /\ ~ReaderEnds
    BY DEF EndProcess, ReaderEnds
  <1>3. ~Subscribe
    <2>1. Subscribe => workloads' = {} /\ toLook' = {} /\ adds' = {}
      BY DEF Subscribe, StageInv, ThreadsInv, Handling
    <2> QED
      BY <2>1
  <1>4. /\ subscribed
        /\ container[c] = "gone" \/ IsIn(d, stream')
    <2>1. DockerStep \/ (subscribed' = subscribed /\ container' = container)
      BY <1>2, <1>3, EventSteps
         DEF dockerVars, Pull, Tick, TakeFirst, TakeRest, FinishBatch, BeginBatch, HandlerBegins
    <2>2. DockerStep => subscribed /\ (container[c] = "gone" \/ IsIn(d, stream'))
      <3>1. ASSUME DockerStep PROVE subscribed
        BY <3>1, DockerSends, Zenon DEF TypeOK, DockerSent
      <3> QED
        BY <3>1, DockerSends DEF TypeOK, DockerSent
    <2>3. subscribed' = subscribed => subscribed
      BY Zenon
    <2> QED
      BY <2>1, <2>2, <2>3
  <1>5. CASE IsIn(d, stream')
    BY <1>5 DEF Coming
  <1>6. CASE container[c] = "gone"
    <2>1. Coming(d) => Coming(d)' \/ (BeginBatch /\ BatchIsWaiting /\ IsIn(d, batch))
      BY <1>1, <1>2, ComingStays
    <2>2. c \in workloads \/ c \in toLook \/ c \in adds =>
             Coming(d) \/ BeingRemoved(c) \/ c \in dropped
      BY <1>4, <1>6 DEF ZombieInv, BeingAdded
    <2>3. BeingRemoved(c) <=> Handling("container_batch") /\ c \in removes
      BY DEF BeingRemoved
    <2>4. UNCHANGED todo => (BeingRemoved(c)' <=> Handling("container_batch")' /\ c \in removes)
      BY DEF BeingRemoved, Handling
    <2> HIDE DEF d, removes
    <2>5. CASE BeginBatch
      <3>1. /\ ~Handling("container_batch") /\ todo' = todo /\ proc' = "handle"
            /\ BatchIsWaiting <=> Head(todo).action = "container_batch"
            /\ BatchIsWaiting => Head(todo) = BatchOf(batch)
            /\ batch \in Seq(QueuedEvents)
        BY <2>5, BatchBegins DEF BeginBatch, HandlerBegins, Handling, TypeOK, ManagerTypeOK
      <3>2. BatchIsWaiting /\ IsIn(d, batch) => BeingRemoved(c)'
        <4>1. BatchIsWaiting /\ IsIn(d, batch) => c \in removes
          BY <3>1, BatchOfEvents DEF d, removes
        <4> QED
          BY <2>4, <3>1, <4>1 DEF Handling
      <3>3. CASE c \in workloads' \/ c \in adds'
        BY <2>1, <2>2, <2>3, <2>5, <3>1, <3>2, <3>3 DEF BeginBatch, d
      <3>4. CASE c \in toLook'
        <4>1. /\ BatchIsWaiting
              /\ \E i \in DOMAIN Head(todo).starts : Head(todo).starts[i] = c
          BY <2>5, <3>1, <3>4 DEF BeginBatch
        <4>2. IsIn(Event("start", c), batch)
          BY <3>1, <4>1, BatchOfEvents
        <4>3. Coming(d)
          BY <1>4, <1>6, <4>1, <4>2 DEF OrderInv, d
        <4> QED
          BY <2>1, <3>2, <4>3 DEF d
      <3> QED
        BY <3>3, <3>4
    <2>6. CASE HandleContainerBatch
      <3>1. toLook = {} /\ toLook' = {} /\ adds' = {} /\ Isolate(removes) /\ ~BeginBatch
        BY <2>6 DEF HandleContainerBatch, Isolate, Handling, BeginBatch, HandlerBegins, removes
      <3>2. c \in workloads'
        BY <3>1
      <3>3. CASE Isolated(removes)
        BY <2>1, <2>2, <2>3, <3>1, <3>2, <3>3 DEF Isolated, d
      <3>4. CASE IsolateFails(removes)
        BY <2>1, <2>2, <2>3, <3>1, <3>2, <3>4 DEF IsolateFails, d
      <3> QED
        BY <3>1, <3>3, <3>4 DEF Isolate
    <2>7. CASE ~BeginBatch /\ ~HandleContainerBatch
      <3>1. BeingRemoved(c) => BeingRemoved(c)'
        <4>1. Handling("container_batch") => UNCHANGED <<proc, todo>>
          BY <1>2, <2>7, HandlingStays
        <4> QED
          BY <2>3, <2>4, <4>1 DEF Handling
      <3>2. \/ c \in workloads \/ c \in toLook \/ c \in adds
            \/ c \in dropped'
        <4>1. CASE ListContainers
          BY <1>6, <4>1 DEF ListContainers, Running
        <4>2. CASE InspectFails
          BY <4>2 DEF InspectFails
        <4>3. CASE FinishInit
          BY <4>3 DEF FinishInit, Isolate, Isolated, IsolateFails
        <4>4. ASSUME NEW e \in Containers, GetWorkload(e) \/ NoWorkload(e)
              PROVE  c \in workloads \/ c \in toLook \/ c \in adds
          BY <4>4 DEF GetWorkload, NoWorkload, Look
        <4> QED
          BY <1>2, <1>3, <2>7, <4>1, <4>2, <4>3, <4>4, ProcessSteps
      <3>3. c \in dropped => c \in dropped'
        <4>1. CASE ListContainers \/ InspectFails
          BY <4>1 DEF ListContainers, InspectFails
        <4>2. CASE FinishInit
          BY <4>2 DEF FinishInit, Isolate, Isolated, IsolateFails
        <4>3. ASSUME NEW e \in Containers, GetWorkload(e) \/ NoWorkload(e)
              PROVE  c \in dropped => c \in dropped'
          BY <4>3 DEF GetWorkload, NoWorkload
        <4> QED
          BY <1>2, <1>3, <2>7, <4>1, <4>2, <4>3, ProcessSteps
      <3> QED
        BY <2>1, <2>2, <2>7, <3>1, <3>2, <3>3 DEF d
    <2> QED
      BY <2>5, <2>6, <2>7
  <1> QED
    BY <1>4, <1>5, <1>6

\* A workload whose container is gone is about to be removed, unless an event of
\* it had no effect or the stream of events broke: for any containers, in any
\* order of events, batches, lookups and ends of the process (event_manager.py:189,
\* container_batch_event_handler.py:18).
THEOREM ZombiesAreExplained == Spec => []ZombiesHaveACause
  <1>1. Init => OrderInv /\ ZombieInv
    <2>1. Init => ~subscribed
      BY Zenon DEF Init
    <2> QED
      BY <2>1 DEF OrderInv, ZombieInv
  <1>2. TypeOK /\ ZombieInv => ZombiesHaveACause
    BY OnTheWayIsComing DEF ZombieInv, ZombiesHaveACause, TypeOK
  <1>3. TypeOK /\ StageInv /\ [Next]_vars => StageInv'
    BY TodoNext, ThreadsNext DEF StageInv
  <1> QED
    BY <1>1, <1>2, <1>3, TypeCorrect, StageInvInit, OrderNext, ZombieNext, PTL DEF Spec

-----------------------------------------------------------------------------
(* What is asked of isolate *)

StartsInv == \A c \in Titus : Sent(Event("start", c)) => container[c] # "absent"

\* The containers that are looked up, and those with a workload to add, have
\* started.
LookedInv == \A c \in toLook \cup adds : container[c] # "absent"

\* Start events are those of containers that have started.
LEMMA StartsNext == TypeOK /\ StartsInv /\ [Next]_vars => StartsInv'
  <1> SUFFICES ASSUME TypeOK, StartsInv, [Next]_vars, NEW c \in Titus, Sent(Event("start", c))'
               PROVE  container'[c] # "absent"
    BY DEF StartsInv, Sent
  <1>1. Event("start", c) \in TitusEvents /\ c \in Containers
    BY EventsDiffer, TitusContainers
  <1>2. CASE Sent(Event("start", c))
    BY <1>1, <1>2, LivesGoOn DEF StartsInv
  <1>3. CASE DockerStep /\ IsIn(Event("start", c), stream')
    BY <1>2, <1>3, DockerSends DEF TypeOK, DockerSent, Sent
  <1> QED
    BY <1>1, <1>2, <1>3, ComeFromDocker

\* The containers that are looked up are listed as running, or have a start event.
LEMMA LookedNext ==
    TypeOK /\ StageInv /\ StartsInv /\ LookedInv /\ [Next]_vars => LookedInv'
  <1> SUFFICES ASSUME TypeOK, StageInv, StartsInv, LookedInv, [Next]_vars,
                      NEW c \in toLook' \cup adds'
               PROVE  container'[c] # "absent"
    BY DEF LookedInv
  <1>1. TypeOK'
    BY NextType
  <1>2. c \in Containers
    BY <1>1, TitusContainers DEF TypeOK
  <1> SUFFICES c \in toLook \cup adds \/ container[c] # "absent"
    BY <1>2, LivesGoOn DEF LookedInv
  <1>3. CASE EndProcess
    BY <1>3 DEF EndProcess
  <1>4. CASE Subscribe \/ InspectFails
    BY <1>4 DEF Subscribe, InspectFails
  <1>5. CASE ListContainers
    BY <1>5 DEF ListContainers, Running
  <1>6. CASE FinishInit \/ HandleContainerBatch
    BY <1>6 DEF FinishInit, HandleContainerBatch, Isolate
  <1>7. CASE BeginBatch
    <2>1. CASE c \in adds'
      BY <1>7, <2>1 DEF BeginBatch
    <2>2. CASE c \in toLook'
      <3>1. /\ BatchIsWaiting
            /\ \E i \in DOMAIN Head(todo).starts : Head(todo).starts[i] = c
        BY <1>7, <2>2, BatchBegins DEF BeginBatch
      <3>2. Head(todo) = BatchOf(batch) /\ batch \in Seq(QueuedEvents)
        BY <1>7, <3>1, BatchBegins DEF TypeOK, ManagerTypeOK
      <3>3. c \in Titus
        BY <1>7, <2>2, <3>1, HeadOfTodo, BatchBegins DEF BeginBatch, TypeOK
      <3>4. IsIn(Event("start", c), batch)
        BY <3>1, <3>2, <3>3, BatchOfEvents
      <3> QED
        BY <3>3, <3>4 DEF StartsInv, Sent
    <2> QED
      BY <2>1, <2>2
  <1>8. ASSUME NEW d \in Containers, GetWorkload(d) \/ NoWorkload(d)
        PROVE  c \in toLook \cup adds
    BY <1>8 DEF GetWorkload, NoWorkload, Look
  <1>9. CASE UNCHANGED <<toLook, adds>>
    BY <1>9
  <1> QED
    BY <1>3, <1>4, <1>5, <1>6, <1>7, <1>8, <1>9, ProcessSteps

\* A call of isolate with containers to remove that are gone is one of WorkloadSet's,
\* or changes nothing.
LEMMA CallIsAsPromised ==
    ASSUME TypeOK, LookedInv, phase # "down", phase' # "down", UNCHANGED container,
           NEW removes \in SUBSET AsOneStep!Gone, Isolate(removes)
    PROVE  AsOneStep!Isolate \/ UNCHANGED workloads
  <1>1. adds \in SUBSET AsOneStep!Started
    BY TitusContainers DEF TypeOK, LookedInv, AsOneStep!Started
  <1>2. CASE Isolated(removes)
    BY <1>1, <1>2 DEF Isolated, AsOneStep!Isolate
  <1>3. CASE IsolateFails(removes)
    BY <1>3 DEF IsolateFails
  <1> QED
    BY <1>2, <1>3 DEF Isolate

\* Every step of the agent is a step of WorkloadSet, or none.
LEMMA StepOfWorkloads ==
    TypeOK /\ StageInv /\ DiesInv /\ LookedInv /\ [Next]_vars
        => [AsOneStep!Next]_(AsOneStep!vars)
  <1> DEFINE up == IF phase = "down" THEN "down" ELSE "up"
             Stutters == UNCHANGED <<container, workloads, up>>
  <1> SUFFICES ASSUME TypeOK, StageInv, DiesInv, LookedInv, [Next]_vars
               PROVE  AsOneStep!Next \/ Stutters
    BY DEF AsOneStep!vars
  <1> USE DEF processVars, eventVars, dockerVars
  <1>1. CASE Machine
    <2>1. UNCHANGED <<phase, workloads>>
      BY <1>1 DEF Machine
    <2>2. ASSUME NEW c \in Containers, ContainerStarts(c)
          PROVE  AsOneStep!Starts(c)
      BY <2>1, <2>2 DEF ContainerStarts, AsOneStep!Starts
    <2>3. ASSUME NEW c \in Containers, ContainerDies(c)
          PROVE  AsOneStep!Dies(c)
      BY <2>1, <2>3 DEF ContainerDies, AsOneStep!Dies
    <2>4. ASSUME NEW c \in Containers, OtherHappens(c)
          PROVE  Stutters
      BY <2>1, <2>4 DEF OtherHappens
    <2>5. CASE StreamBreaks
      BY <2>1, <2>5 DEF StreamBreaks
    <2> QED
      BY <1>1, <2>2, <2>3, <2>4, <2>5 DEF Machine, DockerStep, AsOneStep!Next
  <1>2. CASE Pods \/ GetWorkloads \/ WritersEnd
    BY <1>2 DEF Pods, PodAdded, PodDeleted, GetWorkloads, GetWorkload, NoWorkload, Look,
                WritersEnd
  <1>3. CASE (\E a \in InternalEvents : Timer(a)) \/ Puller
    BY <1>3 DEF Timer, Tick, Puller, PullerStep, Pull, PullRaises, PullerEnds
  <1>4. CASE Subscribe \/ ListContainers \/ InspectContainers \/ InspectFails
    BY <1>4 DEF Subscribe, ListContainers, InspectContainers, InspectFails
  <1>5. CASE FinishInit
    <2>1. /\ phase # "down" /\ phase' # "down" /\ UNCHANGED container
          /\ {} \in SUBSET AsOneStep!Gone /\ Isolate({})
      BY <1>5 DEF FinishInit
    <2>2. AsOneStep!Isolate \/ UNCHANGED workloads
      BY <2>1, CallIsAsPromised
    <2> QED
      BY <2>1, <2>2 DEF AsOneStep!Next
  <1>6. CASE HandleContainerBatch
    <2> DEFINE removes == {Head(todo).dies[i] : i \in DOMAIN Head(todo).dies}
    <2>1. /\ Handling("container_batch") /\ Isolate(removes)
          /\ UNCHANGED <<container, phase>>
      BY <1>6 DEF HandleContainerBatch
    <2>2. phase # "down"
      BY <2>1 DEF StageInv, ThreadsInv, Handling
    <2>3. removes \in SUBSET Titus
      BY <2>1, HeadOfTodo DEF Handling, TypeOK, ManagerTypeOK
    <2>4. removes \in SUBSET AsOneStep!Gone
      BY <2>1, <2>3, RemovedAreGone, TitusContainers DEF AsOneStep!Gone
    <2> HIDE DEF removes
    <2>5. AsOneStep!Isolate \/ UNCHANGED workloads
      BY <2>1, <2>2, <2>4, CallIsAsPromised
    <2> QED
      BY <2>1, <2>5 DEF AsOneStep!Next
  <1>7. CASE EndProcess /\ phase # "down"
    BY <1>7 DEF EndProcess, AsOneStep!Next, AsOneStep!ProcessEnds
  <1>8. CASE ReconcileFails \/ AlarmFires \/ Crash
    BY <1>7, <1>8 DEF ReconcileFails, Handling, AlarmFires, Crash, StageInv, ThreadsInv
  <1>9. CASE Restart
    BY <1>9 DEF Restart, AsOneStep!Next, AsOneStep!Restarts
  <1>10. CASE \/ (TakeFirst \/ TakeRest \/ FinishBatch) /\ UNCHANGED <<processVars, boundVars>>
              \/ BeginBatch \/ HandleRebalance \/ PeriodicEventEnds
    BY <1>10 DEF TakeFirst, TakeRest, FinishBatch, BeginBatch, HandlerBegins, HandleRebalance,
                 PeriodicEventEnds
  <1>11. CASE UNCHANGED vars
    BY <1>11 DEF vars
  <1> QED
    BY <1>1, <1>2, <1>3, <1>4, <1>5, <1>6, <1>8, <1>9, <1>10, <1>11 DEF Next, Startup, Processor

\* The agent implements WorkloadSet, the same specification that Isolation, with the
\* steps of isolate, implements: whatever the batches, the lookups and the ends of
\* the process, isolate is asked to add containers that have started and to remove
\* containers that are gone, and a running workload is lost only with the process
\* (status.py:123-137, container_batch_event_handler.py:18-44).
THEOREM CallsAreAsPromised == Spec => AgentKeepsWorkloads
  <1>1. Init => DiesInv /\ StartsInv /\ LookedInv
    BY DEF Init, DockerInit, NewEventManager, DiesInv, StartsInv, LookedInv, Sent, IsIn
  <1>2. Init => AsOneStep!Init
    BY DEF Init, DockerInit, AsOneStep!Init
  <1>3. TypeOK /\ StageInv /\ [Next]_vars => StageInv'
    BY TodoNext, ThreadsNext DEF StageInv
  <1>4. Spec => [][AsOneStep!Next]_(AsOneStep!vars)
    BY <1>1, <1>3, TypeCorrect, StageInvInit, DiesNext, StartsNext, LookedNext,
       StepOfWorkloads, PTL DEF Spec
  <1>5. Spec => AsOneStep!Init
    BY <1>2 DEF Spec
  <1> QED
    BY <1>4, <1>5 DEF AgentKeepsWorkloads, AsOneStep!Spec

=============================================================================
