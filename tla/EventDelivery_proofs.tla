------------------------- MODULE EventDelivery_proofs -------------------------
(***************************************************************************)
(* EventManager implements EventDelivery: every step of its threads gives  *)
(* a batch to the container batch handler, ends with it, or moves events   *)
(* towards it without losing, doubling or reordering any.                  *)
(***************************************************************************)
EXTENDS MCEventManager, EventManager_proofs

-----------------------------------------------------------------------------
(* Lists that are cut and joined *)

\* Joining lists is associative.
LEMMA Associative ==
    ASSUME NEW U, NEW s \in Seq(U), NEW t \in Seq(U), NEW q \in Seq(U)
    PROVE  /\ s \o t \in Seq(U)
           /\ (s \o t) \o q = s \o (t \o q)
           /\ <<>> \o s = s /\ s \o <<>> = s
  OBVIOUS

\* What was joined can be cut again.
LEMMA Cut ==
    ASSUME NEW U, NEW s \in Seq(U), NEW t \in Seq(U)
    PROVE  /\ Len(s) \in 0 .. Len(s \o t)
           /\ s # <<>> => Len(s) \in 1 .. Len(s \o t)
           /\ SubSeq(s \o t, 1, Len(s)) = s
           /\ SubSeq(s \o t, Len(s) + 1, Len(s \o t)) = t
  <1>1. /\ s \o t \in Seq(U) /\ Len(s) \in Nat /\ Len(t) \in Nat
        /\ Len(s \o t) = Len(s) + Len(t)
        /\ s # <<>> => Len(s) # 0
        /\ \A i \in 1 .. Len(s) : (s \o t)[i] = s[i]
        /\ \A i \in 1 .. Len(t) : (s \o t)[Len(s) + i] = t[i]
    OBVIOUS
  <1>2. SubSeq(s \o t, 1, Len(s)) = s
    BY <1>1
  <1>3. SubSeq(s \o t, Len(s) + 1, Len(s \o t)) = t
    BY <1>1
  <1> QED
    BY <1>1, <1>2, <1>3

\* An element at either end.
LEMMA Ends ==
    ASSUME NEW U, NEW s \in Seq(U)
    PROVE  /\ \A x \in U : Append(s, x) = s \o <<x>> /\ <<x>> \in Seq(U)
           /\ s # <<>> => /\ s = <<Head(s)>> \o Tail(s)
                          /\ Head(s) \in U /\ Tail(s) \in Seq(U) /\ <<Head(s)>> \in Seq(U)
  OBVIOUS

\* The two definitions of what is kept, and of the names, are one.
LEMMA SelectIsSelect ==
    ASSUME NEW s, NEW S
    PROVE  Delivery!Select(s, S) = Select(s, S)
  BY Zenon DEF Delivery!Select, Select, Delivery!Positions, Positions, Delivery!Rank, Rank,
               Delivery!Cardinality, Cardinality

\* Of the events of Titus containers it makes the same batches.
LEMMA BatchIsBatch ==
    ASSUME NEW es \in Seq(TitusEvents)
    PROVE  ContainerBatch(es) = Delivery!BatchOf(es)
  <1>1. ASSUME NEW action
        PROVE  Select(es, [action : {action}, name : Containers])
                  = Select(es, [action : {action}, name : Titus])
    <2> DEFINE S == [action : {action}, name : Containers]
               T == [action : {action}, name : Titus]
    <2>1. \A e \in TitusEvents : e \in S <=> e \in T
      BY TitusContainers DEF TitusEvents
    <2>2. \A i \in DOMAIN es : es[i] \in TitusEvents
      OBVIOUS
    <2> DEFINE Along(I) ==
                   [k \in 1 .. Cardinality(I) |-> es[CHOOSE i \in I : Rank(I, i) = k]]
    <2> HIDE DEF S, T
    <2>3. Positions(es, S) = Positions(es, T)
      BY <2>1, <2>2 DEF Positions
    <2>4. /\ Select(es, S) = Along(Positions(es, S))
          /\ Select(es, T) = Along(Positions(es, T))
      BY DEF Select
    <2> HIDE DEF Along
    <2> QED
      BY <2>3, <2>4 DEF S, T
  <1>2. ASSUME NEW action
        PROVE  NamesOf(es, action) = Delivery!Names(es, action)
    <2> DEFINE S == [action : {action}, name : Containers]
               T == [action : {action}, name : Titus]
               Named(q) == [i \in DOMAIN q |-> q[i].name]
    <2>1. /\ NamesOf(es, action) = Named(Select(es, S))
          /\ Delivery!Names(es, action) = Named(Delivery!Select(es, T))
      BY DEF NamesOf, Delivery!Names
    <2>2. Select(es, S) = Delivery!Select(es, T)
      BY <1>1, SelectIsSelect
    <2> HIDE DEF S, T, Named
    <2> QED
      BY <2>1, <2>2
  <1> QED
    BY <1>2 DEF ContainerBatch, Delivery!BatchOf

-----------------------------------------------------------------------------
(* What is kept of what is on its way *)

\* An appended element is kept or not.
LEMMA KeptAppend ==
    ASSUME NEW U, NEW q \in Seq(U), NEW S, NEW e \in U
    PROVE  /\ e \in S => Select(Append(q, e), S) = Append(Select(q, S), e)
           /\ e \notin S => Select(Append(q, e), S) = Select(q, S)
  <1>1. Select(q, S) \in Seq(U)
    BY SelectElements
  <1>2. Select(Append(q, e), S) = Select(q, S) \o (IF e \in S THEN <<e>> ELSE <<>>)
    <2>1. Append(q, e) = q \o <<e>> /\ <<e>> \in Seq(U)
      BY Ends
    <2>2. Select(q \o <<e>>, S) = Select(q, S) \o Select(<<e>>, S)
      <3>1. PICK x \in Seq(U) : x = <<e>>
        BY <2>1
      <3>2. Select(q \o x, S) = Select(q, S) \o Select(x, S)
        BY SelectConcat
      <3> QED
        BY <3>1, <3>2
    <2>3. Select(<<e>>, S) = IF e \in S THEN <<e>> ELSE <<>>
      BY SelectOne
    <2> QED
      BY <2>1, <2>2, <2>3
  <1>3. /\ Select(q, S) \o <<e>> = Append(Select(q, S), e)
        /\ Select(q, S) \o <<>> = Select(q, S)
    BY <1>1
  <1> QED
    BY <1>2, <1>3

\* So is the first one.
LEMMA KeptHead ==
    ASSUME NEW U, NEW q \in Seq(U), NEW S, q # <<>>
    PROVE  /\ Head(q) \in S => Select(q, S) = <<Head(q)>> \o Select(Tail(q), S)
           /\ Head(q) \notin S => Select(q, S) = Select(Tail(q), S)
  <1>1. /\ q = <<Head(q)>> \o Tail(q) /\ Head(q) \in U
        /\ Tail(q) \in Seq(U) /\ <<Head(q)>> \in Seq(U)
    BY Ends
  <1>2. Select(<<Head(q)>> \o Tail(q), S) = Select(<<Head(q)>>, S) \o Select(Tail(q), S)
    <2>1. PICK x \in Seq(U), y \in Seq(U) : x = <<Head(q)>> /\ y = Tail(q)
      BY <1>1
    <2>2. Select(x \o y, S) = Select(x, S) \o Select(y, S)
      BY SelectConcat
    <2> QED
      BY <2>1, <2>2
  <1>3. Select(<<Head(q)>>, S) = IF Head(q) \in S THEN <<Head(q)>> ELSE <<>>
    BY <1>1, SelectOne
  <1>4. Select(Tail(q), S) \in Seq(U)
    BY <1>1, SelectElements
  <1>5. <<>> \o Select(Tail(q), S) = Select(Tail(q), S)
    BY <1>4
  <1> QED
    BY <1>1, <1>2, <1>3, <1>5

\* On a queue, the events of containers are those of Titus containers.
LEMMA KeptOnQueue ==
    ASSUME NEW e \in QueuedEvents
    PROVE  /\ e \in ContainerEvents <=> e \in TitusEvents
           /\ e \in TitusEvents \/ e \in PeriodicEvents
           /\ e \in PeriodicEvents => e \notin ContainerEvents
  BY TitusContainers, InternalActions
     DEF QueuedEvents, ContainerEvents, TitusEvents, PeriodicEvents, InternalEvent

Waiting == IF BatchIsWaiting THEN ContainerEventsOf(batch) ELSE <<>>
OnQueue == ContainerEventsOf(queue)
OnStream == IF puller = "ended" THEN <<>> ELSE Select(stream, TitusEvents)

\* The events that are pending are those of three lists.
PendingIsJoined ==
    /\ Waiting \in Seq(TitusEvents) /\ OnQueue \in Seq(TitusEvents)
    /\ OnStream \in Seq(TitusEvents)
    /\ ContainerEventsOf(batch) \in Seq(TitusEvents)
    /\ PendingEvents \in Seq(TitusEvents)
    /\ PendingEvents = (Waiting \o OnQueue) \o OnStream
    /\ PendingEvents = Waiting \o (OnQueue \o OnStream)

\* What is pending is, at every step, the container events of the batch that
\* waits, then of the queue, then of the stream.
LEMMA PendingPieces == TypeOK => PendingIsJoined
  <1> SUFFICES ASSUME TypeOK PROVE PendingIsJoined
    OBVIOUS
  <1>1. /\ batch \in Seq(QueuedEvents) /\ queue \in Seq(QueuedEvents)
        /\ stream \in Seq(DockerEvents)
    BY DEF TypeOK, DockerTypeOK, ManagerTypeOK
  <1>2. /\ ContainerEventsOf(batch) \in Seq(TitusEvents)
        /\ OnQueue \in Seq(TitusEvents)
    BY <1>1, ContainerEventsType DEF OnQueue
  <1>3. Select(stream, TitusEvents) \in Seq(TitusEvents)
    BY <1>1, SelectElements
  <1>4. <<>> \in Seq(TitusEvents)
    OBVIOUS
  <1>5. Waiting \in Seq(TitusEvents) /\ OnStream \in Seq(TitusEvents)
    BY <1>2, <1>3, <1>4, Zenon DEF Waiting, OnStream
  <1>6. PendingEvents = (Waiting \o OnQueue) \o OnStream
    BY DEF PendingEvents, Waiting, OnQueue, OnStream
  <1>7. /\ (Waiting \o OnQueue) \o OnStream = Waiting \o (OnQueue \o OnStream)
        /\ Waiting \o OnQueue \in Seq(TitusEvents)
    <2>1. PICK a \in Seq(TitusEvents), b \in Seq(TitusEvents), c \in Seq(TitusEvents) :
             a = Waiting /\ b = OnQueue /\ c = OnStream
      BY <1>2, <1>5
    <2>2. (a \o b) \o c = a \o (b \o c) /\ a \o b \in Seq(TitusEvents)
      BY Associative
    <2> QED
      BY <2>1, <2>2
  <1>8. (Waiting \o OnQueue) \o OnStream \in Seq(TitusEvents)
    BY <1>5, <1>7, Associative
  <1> QED
    BY <1>2, <1>5, <1>6, <1>7, <1>8 DEF PendingIsJoined

\* And they are after a step.
LEMMA PendingPiecesNext == TypeOK' => PendingIsJoined'
  BY PendingPieces, PTL


-----------------------------------------------------------------------------
(* The invariant *)

\* An event manager starts with the right types.
LEMMA InitType == Init => TypeOK
  <1> SUFFICES ASSUME Init PROVE TypeOK
    OBVIOUS
  <1>1. subscribed \in BOOLEAN /\ stopped \in BOOLEAN
    BY Zenon DEF Init, NewEventManager
  <1>2. container \in [Containers -> Lives]
    BY DEF Init, DockerInit, Lives
  <1>3. DockerTypeOK
    BY <1>1, <1>2 DEF Init, DockerInit, DockerTypeOK
  <1>4. ManagerTypeOK
    BY <1>1 DEF Init, NewEventManager, ManagerTypeOK
  <1> QED
    BY <1>3, <1>4 DEF TypeOK

\* Every step keeps the types.
LEMMA NextType == TypeOK /\ [Next]_eventVars => TypeOK'
  <1> SUFFICES ASSUME DockerTypeOK, ManagerTypeOK, [Next]_eventVars
               PROVE  DockerTypeOK' /\ ManagerTypeOK'
    BY DEF TypeOK
  <1>1. UNCHANGED dockerVars => DockerTypeOK'
    BY DEF DockerTypeOK, dockerVars
  <1>2. UNCHANGED managerVars => ManagerTypeOK'
    BY DEF ManagerTypeOK, managerVars
  <1>3. CASE DockerStep /\ UNCHANGED managerVars
    BY <1>2, <1>3, DockerType
  <1>4. CASE (\E a \in InternalEvents : Tick(a)) \/ PullerStep \/ ProcessorStep
    BY <1>4, ManagerType DEF ProcessorStep
  <1>5. CASE Start
    BY <1>1, <1>5 DEF Start, StartProcessingEvents, ManagerTypeOK
  <1>6. CASE Handle
    BY <1>1, <1>6, HandlerEndsType DEF Handle
  <1>7. CASE Stop
    <2>1. subscribed' \in BOOLEAN /\ stopped' \in BOOLEAN
      BY <1>7, Zenon DEF Stop, StopProcessingEvents
    <2> QED
      BY <1>7, <2>1 DEF Stop, StopProcessingEvents, DockerTypeOK, ManagerTypeOK
  <1>8. CASE ProcessingEnds
    BY <1>1, <1>8 DEF ProcessingEnds, ManagerTypeOK
  <1>9. CASE UNCHANGED eventVars
    BY <1>1, <1>2, <1>9 DEF eventVars
  <1> QED
    BY <1>3, <1>4, <1>5, <1>6, <1>7, <1>8, <1>9 DEF Next

\* The types of the event manager hold in every state: what is on the queue and
\* in a batch is an event of a Titus container or a periodic one.
THEOREM TypeCorrect == Spec => []TypeOK
  <1> QED
    BY InitType, NextType, PTL DEF Spec

\* The puller ends only when there is nothing more to come, and the batch event
\* is the first to be handled, if any, and made of the batch as it still is.
StageInv ==
    /\ puller = "ended" => ~subscribed
    /\ proc = "new" => puller = "new"
    /\ proc \in {"next", "handle"} =>
         \A i \in DOMAIN todo :
            todo[i].action = "container_batch" =>
                i = 1 /\ todo[i] = BatchOf(batch) /\ ContainerEventsOf(batch) # <<>>

\* The threads of a new event manager have not been started.
LEMMA StageInvInit == Init => StageInv
  BY DEF Init, NewEventManager, StageInv

\* The threads keep to it.
LEMMA StageInvNext == TypeOK /\ StageInv /\ [Next]_eventVars => StageInv'
  <1> SUFFICES ASSUME TypeOK, StageInv, [Next]_eventVars
               PROVE  StageInv'
    OBVIOUS
  <1> USE DEF eventVars, managerVars, dockerVars
  <1>1. (puller = "ended" => ~subscribed)'
    <2>1. CASE PullRaises \/ PullerEnds
      BY <2>1, Zenon DEF PullRaises, PullerEnds
    <2>2. CASE ~PullRaises /\ ~PullerEnds
      <3>1. subscribed' => subscribed
        <4>1. CASE DockerStep
          BY <4>1, Zenon DEF DockerStep, ContainerStarts, ContainerDies, OtherHappens, StreamBreaks
        <4>2. CASE Stop
          BY <4>2, Zenon DEF Stop, StopProcessingEvents
        <4>3. subscribed' = subscribed \/ DockerStep \/ Stop
          BY <2>2 DEF Next, Tick, Start, PullerStep, Pull, ProcessorStep, TakeFirst, TakeRest,
                 HandlerBegins, FinishBatch, Handle, ProcessingEnds
        <4>4. CASE subscribed' = subscribed
          BY <4>4, Zenon
        <4> QED
          BY <4>1, <4>2, <4>3, <4>4
      <3>2. puller' = "ended" => puller = "ended"
        BY <2>2 DEF Next, Tick, Start, StartProcessingEvents, PullerStep, Pull, ProcessorStep,
                    TakeFirst, TakeRest, HandlerBegins, FinishBatch, Handle, HandlerEnds, Stop,
                    StopProcessingEvents, ProcessingEnds
      <3>3. puller = "ended" => ~subscribed
        BY DEF StageInv
      <3> QED
        BY <3>1, <3>2, <3>3, Zenon
    <2> QED
      BY <2>1, <2>2
  <1>2. (proc = "new" => puller = "new")'
    BY DEF StageInv, Next, Tick, Start, StartProcessingEvents, PullerStep, Pull, PullRaises, PullerEnds,
           ProcessorStep, TakeFirst, TakeRest, HandlerBegins, FinishBatch, Handle, HandlerEnds,
           Stop, StopProcessingEvents, ProcessingEnds
  <1> DEFINE TodoInv ==
                 proc \in {"next", "handle"} =>
                    \A i \in DOMAIN todo :
                       todo[i].action = "container_batch" =>
                          i = 1 /\ todo[i] = BatchOf(batch) /\ ContainerEventsOf(batch) # <<>>
  <1>3. TodoInv'
    <2>1. CASE UNCHANGED <<proc, batch, todo>>
      BY <2>1 DEF StageInv
    <2>2. CASE proc' \notin {"next", "handle"}
      BY <2>2
    <2>3. CASE TakeRest
      <3>1. batch' \in Seq(QueuedEvents) /\ todo' = EventsToHandle(batch')
        BY <2>3 DEF TakeRest, TypeOK, ManagerTypeOK
      <3> QED
        BY <3>1, EventsToHandleOfBatch
    <2>4. CASE HandlerBegins
      BY <2>4 DEF HandlerBegins, StageInv
    <2>5. CASE HandlerEnds
      <3>1. /\ todo \in Seq(HandledEvents) /\ todo # <<>> /\ proc = "handle"
            /\ todo' = Tail(todo)
        BY <2>5 DEF HandlerEnds, TypeOK, ManagerTypeOK
      <3>2. \A i \in DOMAIN Tail(todo) :
               i + 1 \in DOMAIN todo /\ Tail(todo)[i] = todo[i + 1] /\ i + 1 # 1
        BY <3>1, RestOfList
      <3> QED
        BY <3>1, <3>2 DEF StageInv
    <2> QED
      BY <2>1, <2>2, <2>3, <2>4, <2>5
         DEF Next, Tick, Start, StartProcessingEvents, PullerStep, Pull, PullRaises, PullerEnds,
             ProcessorStep, TakeFirst, FinishBatch, Handle, Stop, StopProcessingEvents,
             ProcessingEnds
  <1> QED
    BY <1>1, <1>2, <1>3 DEF StageInv

-----------------------------------------------------------------------------
(* Each step is a step of EventDelivery, or none *)

\* A step that does not change what is pending, given and open.
Stutters == UNCHANGED <<PendingEvents, GivenBatch, subscribed>>

\* What is waiting or given depends on where the processing thread is.
LEMMA Parts ==
    /\ BatchIsWaiting => Waiting = ContainerEventsOf(batch)
    /\ ~BatchIsWaiting => Waiting = <<>>
    /\ puller = "ended" => OnStream = <<>>
    /\ puller # "ended" => OnStream = Select(stream, TitusEvents)
    /\ proc # "handle" => GivenBatch = ContainerBatch(<<>>)
    /\ UNCHANGED <<proc, todo>> => GivenBatch' = GivenBatch
    /\ UNCHANGED <<proc, todo, batch>> => Waiting' = Waiting
    /\ UNCHANGED queue => OnQueue' = OnQueue
    /\ UNCHANGED <<puller, stream>> => OnStream' = OnStream
  <1>1. UNCHANGED <<proc, todo>> => (BatchIsWaiting' <=> BatchIsWaiting)
    BY DEF BatchIsWaiting
  <1>2. UNCHANGED <<proc, todo, batch>> => Waiting' = Waiting
    <2>1. CASE BatchIsWaiting
      BY <1>1, <2>1 DEF Waiting
    <2>2. CASE ~BatchIsWaiting
      BY <1>1, <2>2 DEF Waiting
    <2> QED
      BY <2>1, <2>2
  <1> QED
    BY <1>2 DEF Waiting, OnStream, OnQueue, GivenBatch

\* The parts that are joined are what is pending, also after the step.
LEMMA PendingStays ==
    ASSUME TypeOK, TypeOK'
    PROVE  /\ Waiting' \o OnQueue' = Waiting \o OnQueue /\ OnStream' = OnStream
                => PendingEvents' = PendingEvents
           /\ Waiting' = Waiting /\ OnQueue' \o OnStream' = OnQueue \o OnStream
                => PendingEvents' = PendingEvents
           /\ Waiting' = Waiting /\ OnQueue' = OnQueue /\ OnStream' = OnStream
                => PendingEvents' = PendingEvents
  <1>1. /\ PendingEvents = (Waiting \o OnQueue) \o OnStream
        /\ PendingEvents = Waiting \o (OnQueue \o OnStream)
    BY PendingPieces DEF PendingIsJoined
  <1>2. /\ PendingEvents' = (Waiting' \o OnQueue') \o OnStream'
        /\ PendingEvents' = Waiting' \o (OnQueue' \o OnStream')
    BY PendingPiecesNext DEF PendingIsJoined
  <1> QED
    BY <1>1, <1>2

\* To keep all that is pending is to lose an empty end of it.
LEMMA NothingIsLost == TypeOK /\ PendingEvents' = PendingEvents => Delivery!Lose
  <1> SUFFICES ASSUME TypeOK, PendingEvents' = PendingEvents PROVE Delivery!Lose
    OBVIOUS
  <1>1. PendingEvents \in Seq(TitusEvents)
    BY PendingPieces DEF PendingIsJoined
  <1> DEFINE k == Len(PendingEvents)
  <1>2. k \in 0 .. Len(PendingEvents) /\ PendingEvents = SubSeq(PendingEvents, 1, k)
    BY <1>1
  <1> QED
    BY <1>2 DEF Delivery!Lose

\* An event of a Titus container that docker sends is announced.
LEMMA DockerAnnounces ==
    ASSUME TypeOK, TypeOK', StageInv, DockerStep, UNCHANGED managerVars
    PROVE  \/ \E e \in Delivery!ContainerEvents : Delivery!Announce(e)
           \/ Delivery!Close
           \/ Stutters
  <1>1. /\ Waiting' = Waiting /\ OnQueue' = OnQueue /\ GivenBatch' = GivenBatch
        /\ puller' = puller
    BY Parts DEF managerVars
  <1>2. stream' = stream => PendingEvents' = PendingEvents
    BY <1>1, Parts, PendingStays
  <1>3. CASE StreamBreaks
    <2>1. subscribed' = FALSE /\ stream' = stream
      BY <1>3 DEF StreamBreaks
    <2> QED
      BY <1>1, <1>2, <2>1, NothingIsLost DEF Delivery!Close
  <1>4. ASSUME NEW d \in Containers, NEW action \in {"start", "die", "other"},
               Send(action, d), subscribed' = subscribed
        PROVE  (\E e \in Delivery!ContainerEvents : Delivery!Announce(e)) \/ Stutters
    <2> DEFINE e == [action |-> action, name |-> d]
    <2>1. (subscribed /\ stream' = Append(stream, e)) \/ stream' = stream
      BY <1>4, Zenon DEF Send
    <2>2. e \in DockerEvents /\ stream \in Seq(DockerEvents)
      BY DEF DockerEvents, TypeOK, DockerTypeOK
    <2>3. e \in TitusEvents <=> e \in Delivery!ContainerEvents
      BY DEF TitusEvents, Delivery!ContainerEvents
    <2> HIDE DEF e
    <2>4. CASE stream' = stream
      BY <1>1, <1>2, <1>4, <2>4 DEF Stutters
    <2>5. CASE subscribed /\ stream' = Append(stream, e) /\ e \in TitusEvents
      <3>1. puller # "ended"
        BY <2>5, Zenon DEF StageInv
      <3>2. OnStream = Select(stream, TitusEvents) /\ OnStream' = Select(stream', TitusEvents)
        BY <1>1, <3>1, Parts DEF OnStream
      <3>3. OnStream' = Append(OnStream, e)
        <4>1. Select(Append(stream, e), TitusEvents) = Append(Select(stream, TitusEvents), e)
          BY <2>2, <2>5, KeptAppend
        <4> QED
          BY <2>5, <3>2, <4>1
      <3>4. PendingEvents' = Append(PendingEvents, e)
        <4>1. PICK a \in Seq(TitusEvents), b \in Seq(TitusEvents) :
                 a = Waiting \o OnQueue /\ b = OnStream
          BY PendingPieces, Associative DEF PendingIsJoined
        <4>2. a \o Append(b, e) = Append(a \o b, e)
          BY <2>5
        <4>3. PendingEvents' = (Waiting' \o OnQueue') \o OnStream'
          BY PendingPiecesNext DEF PendingIsJoined
        <4>4. PendingEvents = (Waiting \o OnQueue) \o OnStream
          BY PendingPieces DEF PendingIsJoined
        <4> QED
          BY <1>1, <3>3, <4>1, <4>2, <4>3, <4>4
      <3>5. Delivery!Announce(e)
        BY <1>1, <1>4, <2>5, <3>4, Zenon DEF Delivery!Announce
      <3> QED
        BY <2>3, <2>5, <3>5
    <2>6. CASE stream' = Append(stream, e) /\ e \notin TitusEvents
      <3>1. Select(stream', TitusEvents) = Select(stream, TitusEvents)
        <4>1. Select(Append(stream, e), TitusEvents) = Select(stream, TitusEvents)
          BY <2>2, <2>6, KeptAppend
        <4> QED
          BY <2>6, <4>1
      <3>2. OnStream' = OnStream
        BY <1>1, <3>1 DEF OnStream
      <3> QED
        BY <1>1, <1>4, <3>2, PendingStays DEF Stutters
    <2> QED
      BY <2>1, <2>4, <2>5, <2>6
  <1>5. \/ StreamBreaks
        \/ \E d \in Containers : \E action \in {"start", "die", "other"} :
              Send(action, d) /\ subscribed' = subscribed
    BY DEF DockerStep, ContainerStarts, ContainerDies, OtherHappens
  <1> QED
    BY <1>3, <1>4, <1>5


\* The puller moves an event from the stream to the queue, or drops one that no
\* handler is given.
LEMMA PullStutters ==
    ASSUME TypeOK, TypeOK', Pull
    PROVE  Stutters
  <1> DEFINE h == Head(stream)
             T == Select(stream, TitusEvents)
             R == Select(Tail(stream), TitusEvents)
  <1>1. /\ stream \in Seq(DockerEvents) /\ stream # <<>> /\ queue \in Seq(QueuedEvents)
        /\ stream' = Tail(stream) /\ puller # "ended" /\ puller' = puller
        /\ UNCHANGED <<proc, todo, batch, subscribed>>
        /\ h \in DockerEvents
    BY DEF Pull, TypeOK, DockerTypeOK, ManagerTypeOK
  <1>2. /\ ShouldHandle(h) => h \in TitusEvents
        /\ h \in TitusEvents => ShouldHandle(h)
    BY <1>1 DEF ShouldHandle, IsContainerEvent, DockerEvents, TitusEvents
  <1>3. Waiting' = Waiting /\ GivenBatch' = GivenBatch
    BY <1>1, Parts
  <1>4. OnStream = T /\ OnStream' = R
    BY <1>1 DEF OnStream
  <1>5. /\ h \in TitusEvents => T = <<h>> \o R
        /\ h \notin TitusEvents => T = R
    BY <1>1, KeptHead
  <1>6. OnQueue \in Seq(TitusEvents) /\ R \in Seq(TitusEvents)
    BY <1>4, PendingPieces, PendingPiecesNext DEF PendingIsJoined
  <1> HIDE DEF h, T, R
  <1>7. CASE ShouldHandle(h)
    <2>1. h \in TitusEvents /\ h \in QueuedEvents /\ h \in ContainerEvents
      BY <1>2, <1>7, KeptOnQueue DEF QueuedEvents
    <2>2. queue' = Append(queue, h)
      BY <1>7 DEF Pull, h
    <2>3. Select(Append(queue, h), ContainerEvents) = Append(Select(queue, ContainerEvents), h)
      BY <1>1, <2>1, KeptAppend
    <2>4. OnQueue' = Append(OnQueue, h)
      BY <2>2, <2>3 DEF OnQueue, ContainerEventsOf
    <2>5. Append(OnQueue, h) \o R = OnQueue \o (<<h>> \o R)
      <3>1. PICK a \in Seq(TitusEvents), b \in Seq(TitusEvents) : a = OnQueue /\ b = R
        BY <1>6
      <3>2. <<h>> \in Seq(TitusEvents) /\ Append(a, h) = a \o <<h>>
        BY <2>1
      <3>3. (a \o <<h>>) \o b = a \o (<<h>> \o b)
        BY <3>2
      <3> QED
        BY <3>1, <3>2, <3>3
    <2>6. OnQueue' \o OnStream' = OnQueue \o OnStream
      BY <1>4, <1>5, <2>1, <2>4, <2>5
    <2> QED
      BY <1>1, <1>3, <2>6, PendingStays DEF Stutters
  <1>8. CASE ~ShouldHandle(h)
    <2>1. queue' = queue
      BY <1>8 DEF Pull, h
    <2>2. OnQueue' = OnQueue /\ OnStream' = OnStream
      BY <1>2, <1>4, <1>5, <1>8, <2>1, Parts
    <2> QED
      BY <1>1, <1>3, <2>2, PendingStays DEF Stutters
  <1> QED
    BY <1>7, <1>8

\* When the puller ends, what is left on the stream is dropped.
LEMMA PullerDrops ==
    ASSUME TypeOK, TypeOK', PullRaises \/ PullerEnds
    PROVE  Delivery!Close \/ Delivery!Drop
  <1> DEFINE P == Waiting \o OnQueue
  <1>1. /\ UNCHANGED <<queue, proc, todo, batch>>
        /\ stream' = <<>> /\ puller' = "ended"
    BY DEF PullRaises, PullerEnds
  <1>2. /\ Waiting' = Waiting /\ OnQueue' = OnQueue /\ GivenBatch' = GivenBatch
        /\ OnStream' = <<>>
    BY <1>1, Parts DEF OnStream
  <1>3. /\ P \in Seq(TitusEvents) /\ OnStream \in Seq(TitusEvents)
        /\ PendingEvents = P \o OnStream /\ PendingEvents' = P \o <<>>
    BY <1>2, PendingPieces, PendingPiecesNext, Associative DEF PendingIsJoined
  <1> HIDE DEF P
  <1>4. P \o <<>> = P
    BY <1>3
  <1>5. Len(P) \in 0 .. Len(P \o OnStream) /\ SubSeq(P \o OnStream, 1, Len(P)) = P
    BY <1>3, Cut
  <1>6. Delivery!Lose
    BY <1>3, <1>4, <1>5 DEF Delivery!Lose
  <1>7. subscribed' = FALSE \/ (~subscribed /\ subscribed' = subscribed)
    BY DEF PullRaises, PullerEnds
  <1> QED
    BY <1>2, <1>6, <1>7 DEF Delivery!Close, Delivery!Drop

\* A periodic event is nothing to the container batch handler.
LEMMA TickStutters ==
    ASSUME TypeOK, TypeOK', NEW a \in InternalEvents, Tick(a)
    PROVE  Stutters
  <1>1. /\ queue \in Seq(QueuedEvents) /\ InternalEvent(a) \in QueuedEvents
        /\ InternalEvent(a) \in PeriodicEvents
        /\ queue' = Append(queue, InternalEvent(a))
        /\ UNCHANGED <<stream, puller, proc, todo, batch, subscribed>>
    BY DEF Tick, TypeOK, ManagerTypeOK, QueuedEvents, PeriodicEvents, dockerVars
  <1>2. Select(Append(queue, InternalEvent(a)), ContainerEvents) = Select(queue, ContainerEvents)
    BY <1>1, KeptOnQueue, KeptAppend
  <1>3. OnQueue' = OnQueue
    BY <1>1, <1>2 DEF OnQueue, ContainerEventsOf
  <1> QED
    BY <1>1, <1>3, Parts, PendingStays DEF Stutters

\* A batch that is begun takes the first event of the queue.
LEMMA TakeFirstStutters ==
    ASSUME TypeOK, TypeOK', TakeFirst
    PROVE  Stutters
  <1> DEFINE h == Head(queue)
             R == Select(Tail(queue), ContainerEvents)
  <1>1. /\ queue \in Seq(QueuedEvents) /\ queue # <<>> /\ h \in QueuedEvents
        /\ queue' = Tail(queue) /\ batch' = <<h>> /\ proc = "get" /\ proc' = "rest"
        /\ UNCHANGED <<stream, puller, todo, subscribed>>
    BY DEF TakeFirst, TypeOK, ManagerTypeOK, dockerVars
  <1>2. ~BatchIsWaiting /\ BatchIsWaiting'
    BY <1>1 DEF BatchIsWaiting
  <1>3. /\ h \in ContainerEvents => OnQueue = <<h>> \o R
        /\ h \notin ContainerEvents => OnQueue = R
    BY <1>1, KeptHead DEF OnQueue, ContainerEventsOf
  <1>4. OnQueue' = R /\ R \in Seq(TitusEvents) /\ OnQueue \in Seq(TitusEvents)
    <2>1. OnQueue' = R
      BY <1>1 DEF OnQueue, ContainerEventsOf
    <2> QED
      BY <2>1, PendingPieces, PendingPiecesNext DEF PendingIsJoined
  <1>5. Waiting = <<>> /\ Waiting' = Select(<<h>>, ContainerEvents)
    BY <1>1, <1>2 DEF Waiting, ContainerEventsOf
  <1>6. Select(<<h>>, ContainerEvents) = IF h \in ContainerEvents THEN <<h>> ELSE <<>>
    BY <1>1, SelectOne
  <1> HIDE DEF h, R
  <1>7. <<>> \o R = R /\ <<>> \o OnQueue = OnQueue
    BY <1>4
  <1>8. Waiting' \o OnQueue' = Waiting \o OnQueue
    BY <1>3, <1>4, <1>5, <1>6, <1>7
  <1>9. OnStream' = OnStream /\ GivenBatch' = GivenBatch
    <2>1. GivenBatch = ContainerBatch(<<>>) /\ GivenBatch' = ContainerBatch(<<>>)
      BY <1>1 DEF GivenBatch
    <2> QED
      BY <1>1, <2>1, Parts
  <1> QED
    BY <1>1, <1>8, <1>9, PendingStays DEF Stutters

\* And then all the others.
LEMMA TakeRestStutters ==
    ASSUME TypeOK, TypeOK', TakeRest
    PROVE  Stutters
  <1> DEFINE W == ContainerEventsOf(batch)
  <1>1. /\ queue \in Seq(QueuedEvents) /\ batch \in Seq(QueuedEvents)
        /\ queue' = <<>> /\ batch' = batch \o queue /\ todo' = EventsToHandle(batch')
        /\ proc = "rest" /\ proc' = "next"
        /\ UNCHANGED <<stream, puller, subscribed>>
    BY DEF TakeRest, TypeOK, ManagerTypeOK, dockerVars
  <1>2. Waiting = W
    BY <1>1 DEF BatchIsWaiting, Waiting
  <1>3. ContainerEventsOf(batch') = W \o OnQueue
    BY <1>1, SelectConcat DEF ContainerEventsOf, OnQueue
  <1>4. Waiting' = ContainerEventsOf(batch')
    <2>1. batch' \in Seq(QueuedEvents)
      BY DEF TypeOK, ManagerTypeOK
    <2>2. CASE ContainerEventsOf(batch') = <<>>
      BY <2>2 DEF Waiting
    <2>3. CASE ContainerEventsOf(batch') # <<>>
      <3>1. todo' # <<>> /\ Head(todo') = BatchOf(batch')
        BY <1>1, <2>1, <2>3, EventsToHandleOfBatch
      <3>2. BatchOf(batch').action = "container_batch"
        BY DEF BatchOf, ContainerBatch
      <3>3. BatchIsWaiting'
        BY <1>1, <3>1, <3>2 DEF BatchIsWaiting
      <3> QED
        BY <3>3 DEF Waiting
    <2> QED
      BY <2>2, <2>3
  <1>5. OnQueue' = <<>>
    BY <1>1, SelectEmpty DEF OnQueue, ContainerEventsOf
  <1>6. Waiting' \o OnQueue' = Waiting \o OnQueue
    <2>1. Waiting' \in Seq(TitusEvents)
      BY PendingPiecesNext DEF PendingIsJoined
    <2>2. Waiting' \o <<>> = Waiting'
      BY <2>1
    <2> QED
      BY <1>2, <1>3, <1>4, <1>5, <2>2
  <1>7. OnStream' = OnStream /\ GivenBatch' = GivenBatch
    <2>1. GivenBatch = ContainerBatch(<<>>) /\ GivenBatch' = ContainerBatch(<<>>)
      BY <1>1 DEF GivenBatch
    <2> QED
      BY <1>1, <2>1, Parts
  <1> QED
    BY <1>1, <1>6, <1>7, PendingStays DEF Stutters


\* When a batch has been begun, the handler is given the events that were
\* waiting; a periodic event is none of EventDelivery's.
LEMMA HandlerBeginsGives ==
    ASSUME TypeOK, TypeOK', StageInv, HandlerBegins
    PROVE  Delivery!Give \/ Stutters
  <1> DEFINE W == ContainerEventsOf(batch)
             Q == OnQueue \o OnStream
  <1>1. /\ todo \in Seq(HandledEvents) /\ todo # <<>> /\ proc = "next" /\ proc' = "handle"
        /\ UNCHANGED <<stream, queue, puller, batch, todo, subscribed>>
    BY DEF HandlerBegins, TypeOK, ManagerTypeOK, dockerVars
  <1>2. /\ OnQueue' = OnQueue /\ OnStream' = OnStream /\ Waiting' = <<>>
        /\ GivenBatch = ContainerBatch(<<>>)
    <2>1. ~BatchIsWaiting'
      BY <1>1 DEF BatchIsWaiting
    <2> QED
      BY <1>1, <2>1, Parts DEF Waiting
  <1>3. CASE Head(todo).action = "container_batch"
    <2>1. 1 \in DOMAIN todo /\ todo[1] = Head(todo)
      BY <1>1
    <2>2. Head(todo) = BatchOf(batch) /\ W # <<>>
      BY <1>1, <1>3, <2>1 DEF StageInv
    <2>3. Waiting = W
      BY <1>1, <1>3 DEF BatchIsWaiting, Waiting
    <2>4. GivenBatch' = ContainerBatch(W)
      BY <1>1, <1>3, <2>2 DEF GivenBatch, BatchOf
    <2>5. /\ W \in Seq(TitusEvents) /\ Q \in Seq(TitusEvents)
          /\ PendingEvents = W \o Q /\ PendingEvents' = Q
      <3>1. /\ OnQueue \in Seq(TitusEvents) /\ OnStream \in Seq(TitusEvents)
            /\ W \in Seq(TitusEvents) /\ PendingEvents = Waiting \o Q
        BY PendingPieces DEF PendingIsJoined
      <3>2. PendingEvents' = <<>> \o Q
        BY <1>2, PendingPiecesNext DEF PendingIsJoined
      <3>3. Q \in Seq(TitusEvents)
        BY <3>1, Associative
      <3> QED
        BY <2>3, <3>1, <3>2, <3>3, Associative
    <2> HIDE DEF W, Q
    <2>6. /\ Len(W) \in 1 .. Len(W \o Q)
          /\ SubSeq(W \o Q, 1, Len(W)) = W
          /\ SubSeq(W \o Q, Len(W) + 1, Len(W \o Q)) = Q
      BY <2>2, <2>5, Cut
    <2>7. /\ ContainerBatch(W) = Delivery!BatchOf(W)
          /\ ContainerBatch(<<>>) = Delivery!NoBatch
      <3>1. <<>> \in Seq(TitusEvents)
        OBVIOUS
      <3> QED
        BY <2>5, <3>1, BatchIsBatch DEF Delivery!NoBatch
    <2>8. \E k \in 1 .. Len(PendingEvents) :
             /\ GivenBatch' = Delivery!BatchOf(SubSeq(PendingEvents, 1, k))
             /\ PendingEvents' = SubSeq(PendingEvents, k + 1, Len(PendingEvents))
      BY <2>4, <2>5, <2>6, <2>7
    <2> QED
      BY <1>1, <1>2, <2>7, <2>8 DEF Delivery!Give
  <1>4. CASE Head(todo).action # "container_batch"
    <2>1. ~BatchIsWaiting
      BY <1>1, <1>4 DEF BatchIsWaiting
    <2>2. Waiting = <<>>
      BY <2>1, Parts
    <2>3. GivenBatch' = ContainerBatch(<<>>)
      BY <1>1, <1>4 DEF GivenBatch
    <2> QED
      BY <1>1, <1>2, <2>2, <2>3, PendingStays DEF Stutters
  <1> QED
    BY <1>3, <1>4

\* When the handler has returned or raised it has no batch.
LEMMA HandlerEndsFinishes ==
    ASSUME TypeOK, TypeOK', StageInv, Handle
    PROVE  Delivery!Finish \/ Stutters
  <1>1. /\ todo \in Seq(HandledEvents) /\ todo # <<>> /\ proc = "handle" /\ proc' = "next"
        /\ todo' = Tail(todo)
        /\ UNCHANGED <<stream, queue, puller, batch, subscribed>>
    BY DEF Handle, HandlerEnds, TypeOK, ManagerTypeOK, dockerVars
  <1>2. ~BatchIsWaiting
    BY <1>1 DEF BatchIsWaiting
  <1>3. ~BatchIsWaiting'
    <2>1. todo' # <<>> => Head(todo') = todo'[1] /\ 1 \in DOMAIN todo'
      BY <1>1
    <2>2. 1 \in DOMAIN Tail(todo) =>
             1 + 1 \in DOMAIN todo /\ Tail(todo)[1] = todo[1 + 1] /\ 1 + 1 # 1
      BY <1>1, RestOfList
    <2>3. todo' # <<>> => Head(todo').action # "container_batch"
      BY <1>1, <2>1, <2>2 DEF StageInv
    <2> QED
      BY <1>1, <2>3 DEF BatchIsWaiting
  <1>4. Waiting = <<>> /\ Waiting' = <<>>
    BY <1>2, <1>3 DEF Waiting
  <1>5. PendingEvents' = PendingEvents
    BY <1>1, <1>4, Parts, PendingStays
  <1>6. GivenBatch' = Delivery!NoBatch
    <2>1. GivenBatch' = ContainerBatch(<<>>)
      BY <1>1 DEF GivenBatch
    <2>2. <<>> \in Seq(TitusEvents)
      OBVIOUS
    <2> QED
      BY <2>1, <2>2, BatchIsBatch DEF Delivery!NoBatch
  <1> QED
    BY <1>1, <1>5, <1>6 DEF Delivery!Finish, Stutters

\* The steps that begin and end the threads, and the end of a batch, move no event.
LEMMA OthersStutter ==
    ASSUME TypeOK, TypeOK', StageInv,
           Start \/ FinishBatch \/ ProcessingEnds \/ UNCHANGED eventVars
    PROVE  Stutters
  <1>1. /\ UNCHANGED <<stream, queue, subscribed, todo>>
        /\ puller' = "ended" <=> puller = "ended"
    BY DEF Start, StartProcessingEvents, FinishBatch, ProcessingEnds, StageInv,
           eventVars, dockerVars, managerVars
  <1>2. OnQueue' = OnQueue /\ OnStream' = OnStream
    BY <1>1 DEF OnQueue, OnStream
  <1>3. Waiting' = Waiting
    <2>1. CASE UNCHANGED <<proc, todo, batch>>
      BY <2>1, Parts
    <2>2. CASE ~BatchIsWaiting /\ ~BatchIsWaiting'
      BY <2>2 DEF Waiting
    <2> QED
      BY <2>1, <2>2 DEF Start, StartProcessingEvents, FinishBatch, ProcessingEnds, BatchIsWaiting,
                        eventVars, dockerVars, managerVars
  <1>4. GivenBatch' = GivenBatch
    <2>1. CASE UNCHANGED <<proc, todo>>
      BY <2>1, Parts
    <2>2. CASE proc # "handle" /\ proc' # "handle"
      BY <2>2 DEF GivenBatch
    <2> QED
      BY <2>1, <2>2 DEF Start, StartProcessingEvents, FinishBatch, ProcessingEnds,
                        eventVars, dockerVars, managerVars
  <1> QED
    BY <1>1, <1>2, <1>3, <1>4, PendingStays DEF Stutters

\* Stopping the event manager closes the stream.
LEMMA StopCloses ==
    ASSUME TypeOK, TypeOK', Stop
    PROVE  Delivery!Close
  <1>1. /\ UNCHANGED <<stream, queue, puller, batch, proc, todo>>
        /\ subscribed' = FALSE
    BY DEF Stop, StopProcessingEvents
  <1> QED
    BY <1>1, Parts, PendingStays, NothingIsLost DEF Delivery!Close

\* A new event manager has nothing pending and nothing given.
LEMMA InitDelivers == Init => Delivery!Init
  <1> SUFFICES ASSUME Init PROVE Delivery!Init
    OBVIOUS
  <1>1. /\ queue = <<>> /\ stream = <<>> /\ proc = "new" /\ puller = "new"
        /\ subscribed = TRUE
    BY DEF Init, DockerInit, NewEventManager
  <1>2. ~BatchIsWaiting
    BY <1>1 DEF BatchIsWaiting
  <1>3. Waiting = <<>> /\ OnQueue = <<>> /\ OnStream = <<>>
    BY <1>1, <1>2, SelectEmpty DEF Waiting, OnQueue, OnStream, ContainerEventsOf
  <1>4. PendingEvents = <<>>
    <2>1. PendingEvents = (Waiting \o OnQueue) \o OnStream
      BY InitType, PendingPieces DEF PendingIsJoined
    <2> QED
      BY <1>3, <2>1
  <1>5. GivenBatch = Delivery!NoBatch
    <2>1. <<>> \in Seq(TitusEvents)
      OBVIOUS
    <2> QED
      BY <1>1, <2>1, BatchIsBatch DEF GivenBatch, Delivery!NoBatch
  <1> QED
    BY <1>1, <1>4, <1>5 DEF Delivery!Init

\* Every step of the event manager and of docker is one of EventDelivery.
LEMMA StepDelivers ==
    TypeOK /\ StageInv /\ [Next]_eventVars => [Delivery!Next]_(Delivery!vars)
  <1> SUFFICES ASSUME TypeOK, StageInv, [Next]_eventVars
               PROVE  Delivery!Next \/ Stutters
    BY DEF Stutters, Delivery!vars
  <1>1. TypeOK'
    BY NextType
  <1>2. CASE DockerStep /\ UNCHANGED managerVars
    BY <1>1, <1>2, DockerAnnounces DEF Delivery!Next
  <1>3. CASE \E a \in InternalEvents : Tick(a)
    BY <1>1, <1>3, TickStutters
  <1>4. CASE Pull
    BY <1>1, <1>4, PullStutters
  <1>5. CASE PullRaises \/ PullerEnds
    BY <1>1, <1>5, PullerDrops DEF Delivery!Next
  <1>6. CASE TakeFirst
    BY <1>1, <1>6, TakeFirstStutters
  <1>7. CASE TakeRest
    BY <1>1, <1>7, TakeRestStutters
  <1>8. CASE HandlerBegins
    BY <1>1, <1>8, HandlerBeginsGives DEF Delivery!Next
  <1>9. CASE Handle
    BY <1>1, <1>9, HandlerEndsFinishes DEF Delivery!Next
  <1>10. CASE Stop
    BY <1>1, <1>10, StopCloses DEF Delivery!Next
  <1>11. CASE Start \/ FinishBatch \/ ProcessingEnds \/ UNCHANGED eventVars
    BY <1>1, <1>11, OthersStutter
  <1> QED
    BY <1>2, <1>3, <1>4, <1>5, <1>6, <1>7, <1>8, <1>9, <1>10, <1>11
       DEF Next, PullerStep, ProcessorStep

\* EventManager implements EventDelivery: whatever the threads, the stream and the
\* handlers do, the events of Titus containers that docker sends are given to the
\* container batch handler once each, in consecutive pieces of the stream, and only
\* what a closed stream had still to bring is never given.
THEOREM EventsInOrder == Spec => DeliversInOrder
  <1>1. Spec => []TypeOK
    BY TypeCorrect
  <1>2. Spec => []StageInv
    <2> QED
      BY <1>1, StageInvInit, StageInvNext, PTL DEF Spec
  <1>3. Spec => Delivery!Init
    BY InitDelivers DEF Spec
  <1>4. Spec => [][Delivery!Next]_(Delivery!vars)
    <2> QED
      BY <1>1, <1>2, StepDelivers, PTL DEF Spec
  <1> QED
    BY <1>3, <1>4 DEF DeliversInOrder, Delivery!Spec

=============================================================================
