---------------------- MODULE PredictionPublisher_proofs ----------------------
(***************************************************************************)
(* Proofs about PodWatch and PredictionPublisher: type correctness, that   *)
(* the cache is right about every pod of which nothing is on the way, that *)
(* publications never go back, and that each is counted once.              *)
(***************************************************************************)
EXTENDS PredictionPublisher, FiniteSetTheorems, TLAPS

-----------------------------------------------------------------------------
(* The cache of pods *)

\* What a new watch announces names every pod that exists once.
LEMMA OrdersArePermutations ==
    ASSUME NEW S \in SUBSET Pods, NEW order \in SetToSeqs(S)
    PROVE  /\ order \in Seq(S)
           /\ \A p \in S : \E i \in DOMAIN order : order[i] = p
           /\ \A i, j \in DOMAIN order : order[i] = order[j] => i = j
  <1> DEFINE n == Cardinality(S)
  <1>1. IsFiniteSet(S) /\ n \in Nat
    BY PodsAreFinite, FS_Subset, FS_CardinalityType
  <1>2. /\ order \in [1 .. n -> S]
        /\ \A i, j \in 1 .. n : order[i] = order[j] => i = j
    BY DEF SetToSeqs
  <1>3. IsFiniteSet(1 .. n) /\ Cardinality(1 .. n) = n
    BY <1>1, FS_Interval
  <1>4. order \in Injection(1 .. n, S)
    BY <1>2 DEF Injection, IsInjective
  <1>5. order \in Surjection(1 .. n, S)
    BY <1>1, <1>3, <1>4, FS_Injection
  <1>6. \A p \in S : \E i \in 1 .. n : order[i] = p
    BY <1>5 DEF Surjection
  <1> QED
    BY <1>1, <1>2, <1>6

\* What a watch announces and what the manager does keep the types.
LEMMA PodInitType == PodInit => PodTypeOK
  BY DEF PodInit, PodTypeOK, Lives, Objects

\* Every step of the cluster, the watch and the pod manager keeps the types.
LEMMA PodNextType == PodTypeOK /\ [Cluster \/ PodManager]_podVars => PodTypeOK'
  <1> SUFFICES ASSUME PodTypeOK, [Cluster \/ PodManager]_podVars
               PROVE  PodTypeOK'
    OBVIOUS
  <1> USE DEF PodTypeOK
  <1>1. ASSUME NEW p \in Pods, NEW from \in Objects \cup {"none"},
               NEW to \in Objects \cup {"gone"},
               NEW type \in {"ADDED", "MODIFIED", "DELETED"},
               from = "none" => to # "gone",
               PodChanges(p, from, to, type)
        PROVE  PodTypeOK'
    <2>1. Event(type, p, IF to = "gone" THEN from ELSE to) \in PodEvents
      BY <1>1 DEF Event, PodEvents, Objects
    <2>2. feed' \in Seq(PodEvents)
      BY <1>1, <2>1 DEF PodChanges, Announce
    <2> QED
      BY <1>1, <2>2 DEF PodChanges, Lives
  <1>2. ASSUME NEW p \in Pods, OddEvent(p)
        PROVE  PodTypeOK'
    <2>1. Event("ERROR", p, cluster[p]) \in PodEvents
      BY <1>2 DEF OddEvent, Exists, Event, PodEvents
    <2> QED
      BY <1>2, <2>1 DEF OddEvent, Announce
  <1>3. CASE WatchStarts
    <2>1. CASE feed' = <<>>
      BY <1>3, <2>1 DEF WatchStarts
    <2>2. CASE feed' # <<>>
      <3>1. PICK order \in SetToSeqs({p \in Pods : Exists(p)}) :
              feed' = [i \in DOMAIN order |-> Event("ADDED", order[i], cluster[order[i]])]
        BY <1>3, <2>2 DEF WatchStarts
      <3>2. order \in Seq({p \in Pods : Exists(p)})
        BY OrdersArePermutations
      <3>3. DOMAIN order = 1 .. Len(order) /\ Len(order) \in Nat
        BY <3>2
      <3>4. \A i \in DOMAIN order : Event("ADDED", order[i], cluster[order[i]]) \in PodEvents
        BY <3>2 DEF Exists, Event, PodEvents
      <3>5. feed' \in Seq(PodEvents)
        BY <3>1, <3>3, <3>4
      <3> QED
        BY <1>3, <3>5 DEF WatchStarts
    <2> QED
      BY <2>1, <2>2
  <1>4. CASE WatchFails
    <2>1. \A j \in DOMAIN feed : feed[j] \in PodEvents
      OBVIOUS
    <2>2. \A j \in DOMAIN feed : feed[j].name \in Pods
      BY <2>1 DEF PodEvents
    <2> QED
      BY <1>4, <2>2 DEF WatchFails
  <1>5. CASE HandleEvent
    <2>1. Head(feed) \in PodEvents /\ Tail(feed) \in Seq(PodEvents)
      BY <1>5 DEF HandleEvent
    <2> QED
      BY <1>5, <2>1 DEF HandleEvent, PodEvents
  <1>6. CASE UNCHANGED podVars
    BY <1>6 DEF podVars
  <1> QED
    BY <1>1, <1>2, <1>3, <1>4, <1>5, <1>6
    DEF Cluster, PodManager, PodCreated, PodStarts, PodDeleted, Objects

\* What the machine has of a pod, and what the cache has of it once an event is
\* handled.
Present(p) == IF Exists(p) THEN cluster[p] ELSE "none"
Outcome(event) == IF event.type = "DELETED" THEN "none" ELSE event.object
About(event, p) == event.name = p /\ event.type # "ERROR"

\* The last event about the pod that is on the way is about what it is now.
LastIsPresent(p) ==
    \E i \in DOMAIN feed :
        /\ About(feed[i], p)
        /\ \A j \in DOMAIN feed : j > i => ~About(feed[j], p)
        /\ Outcome(feed[i]) = Present(p)

\* Nothing is on the way about the pod: the cache is right about it, or the pod
\* is there and will be announced by the next watch.
NothingIsOnItsWay(p) ==
    /\ \A i \in DOMAIN feed : ~About(feed[i], p)
    /\ cache[p] = Present(p) \/ (watch # "node" /\ Exists(p))

\* The inductive invariant behind CacheIsCurrent.
FeedInv ==
    /\ watch # "node" => feed = <<>>
    /\ \A p \in Pods : p \in lost \/ LastIsPresent(p) \/ NothingIsOnItsWay(p)

\* It is what CacheIsCurrent says, in every phase of the watch.
LEMMA FeedInvImplies == PodTypeOK /\ FeedInv => CacheIsCurrent
  BY DEF PodTypeOK, FeedInv, CacheIsCurrent, NothingIsOnItsWay, LastIsPresent,
         Awaited, About, Present

\* No pod exists and none is in the cache at first.
LEMMA FeedInvInit == PodInit => FeedInv
  BY DEF PodInit, FeedInv, NothingIsOnItsWay, About, Present, Exists, Objects

\* What happens to a pod is announced or lost, and what is announced is handled in
\* order.
LEMMA FeedInvNext == PodTypeOK /\ FeedInv /\ [Cluster \/ PodManager]_podVars => FeedInv'
  <1> SUFFICES ASSUME PodTypeOK, FeedInv, [Cluster \/ PodManager]_podVars
               PROVE  FeedInv'
    OBVIOUS
  <1> USE DEF PodTypeOK
  <1>1. PodTypeOK'
    BY PodNextType
  \* A pod changes: the watch says so, or is not running.
  <1>2. ASSUME NEW p \in Pods, NEW from \in Objects \cup {"none"},
               NEW to \in Objects \cup {"gone"},
               NEW type \in {"ADDED", "MODIFIED", "DELETED"},
               from = "none" => to # "gone",
               to = "gone" <=> type = "DELETED",
               PodChanges(p, from, to, type)
        PROVE  FeedInv'
    <2> DEFINE e == Event(type, p, IF to = "gone" THEN from ELSE to)
    <2>1. cluster' = [cluster EXCEPT ![p] = to] /\ cache' = cache /\ watch' = watch
      BY <1>2 DEF PodChanges
    <2>2. Present(p)' = (IF to = "gone" THEN "none" ELSE to)
      BY <2>1 DEF Present, Exists, Objects
    <2>3. \A q \in Pods \ {p} : Present(q)' = Present(q) /\ (Exists(q)' <=> Exists(q))
      BY <2>1 DEF Present, Exists
    <2>4. CASE watch # "node"
      <3>1. feed = <<>> /\ feed' = <<>>
        BY <1>2, <2>4 DEF PodChanges, Announce, FeedInv
      <3>2. p \in lost' \/ Exists(p)'
        BY <1>2, <2>1, <2>4 DEF PodChanges, Exists
      <3>3. lost \subseteq lost'
        BY <1>2 DEF PodChanges
      <3>4. \A q \in Pods \ {p} : q \in lost' \/ NothingIsOnItsWay(q)'
        BY <2>1, <2>3, <3>1, <3>3 DEF FeedInv, NothingIsOnItsWay, LastIsPresent, About
      <3> QED
        BY <2>1, <2>4, <3>1, <3>2, <3>4 DEF FeedInv, NothingIsOnItsWay, About
    <2>5. CASE watch = "node"
      <3>1. feed' = Append(feed, e) /\ lost' = lost
        BY <1>2, <2>5 DEF PodChanges, Announce
      <3>2. e.type = type /\ e.name = p /\ e.object = (IF to = "gone" THEN from ELSE to)
        BY DEF Event
      <3>3. LastIsPresent(p)'
        <4>1. Len(feed') = Len(feed) + 1 /\ feed'[Len(feed')] = e /\ DOMAIN feed' = 1 .. Len(feed')
          BY <3>1, <1>1
        <4>2. Outcome(e) = Present(p)'
          BY <2>2, <1>2, <3>2 DEF Outcome
        <4>3. About(e, p)
          BY <3>2, <1>2 DEF About
        <4> QED
          BY <4>1, <4>2, <4>3 DEF LastIsPresent
      <3>4. ASSUME NEW q \in Pods \ {p}
            PROVE  q \in lost' \/ LastIsPresent(q)' \/ NothingIsOnItsWay(q)'
        <4>1. \A i \in DOMAIN feed' : About(feed'[i], q) => i \in DOMAIN feed /\ About(feed[i], q)
          BY <3>1, <3>2 DEF About
        <4>2. \A i \in DOMAIN feed : i \in DOMAIN feed' /\ feed'[i] = feed[i]
          BY <3>1
        <4>3. LastIsPresent(q) => LastIsPresent(q)'
          BY <4>1, <4>2, <2>3 DEF LastIsPresent
        <4>4. NothingIsOnItsWay(q) => NothingIsOnItsWay(q)'
          BY <4>1, <2>1, <2>3 DEF NothingIsOnItsWay
        <4> QED
          BY <3>1, <4>3, <4>4 DEF FeedInv
      <3> QED
        BY <2>1, <2>5, <3>3, <3>4 DEF FeedInv
    <2> QED
      BY <2>4, <2>5
  <1>3. ASSUME NEW p \in Pods, OddEvent(p)
        PROVE  FeedInv'
    <2> DEFINE e == Event("ERROR", p, cluster[p])
    <2>1. /\ feed = <<>> /\ feed' = <<e>>
          /\ watch = "node" /\ watch' = "node"
          /\ UNCHANGED <<cluster, cache, lost>>
      BY <1>3 DEF OddEvent, Announce
    <2>2. \A q \in Pods : ~About(e, q)
      BY DEF About, Event
    <2>3. \A q \in Pods : q \in lost \/ cache[q] = Present(q)
      BY <2>1 DEF FeedInv, LastIsPresent, NothingIsOnItsWay
    <2>4. \A q \in Pods : Present(q)' = Present(q)
      BY <2>1 DEF Present, Exists
    <2> QED
      BY <2>1, <2>2, <2>3, <2>4 DEF FeedInv, NothingIsOnItsWay
  \* A new watch announces every pod that exists; of the others the cache was
  \* right, for nothing was on the way.
  <1>4. CASE WatchStarts
    <2>1. feed = <<>> /\ watch = "down" /\ UNCHANGED <<cluster, cache, lost>>
      BY <1>4 DEF WatchStarts, FeedInv
    <2>2. \A p \in Pods : p \in lost \/ cache[p] = Present(p) \/ Exists(p)
      BY <2>1 DEF FeedInv, LastIsPresent, NothingIsOnItsWay
    <2>3. \A p \in Pods : Present(p)' = Present(p) /\ (Exists(p)' <=> Exists(p))
      BY <2>1 DEF Present, Exists
    <2>4. CASE watch' = "nothing" /\ feed' = <<>>
      BY <2>1, <2>2, <2>3, <2>4 DEF FeedInv, NothingIsOnItsWay
    <2>5. CASE watch' = "node"
      <3>1. PICK order \in SetToSeqs({p \in Pods : Exists(p)}) :
              feed' = [i \in DOMAIN order |-> Event("ADDED", order[i], cluster[order[i]])]
        BY <1>4, <2>5 DEF WatchStarts
      <3>2. /\ order \in Seq({p \in Pods : Exists(p)})
            /\ \A p \in {q \in Pods : Exists(q)} : \E i \in DOMAIN order : order[i] = p
            /\ \A i, j \in DOMAIN order : order[i] = order[j] => i = j
        BY OrdersArePermutations
      <3>3. /\ DOMAIN feed' = DOMAIN order
            /\ \A i \in DOMAIN order : /\ feed'[i].name = order[i]
                                       /\ feed'[i].type = "ADDED"
                                       /\ feed'[i].object = cluster[order[i]]
        BY <3>1 DEF Event
      <3>4. ASSUME NEW p \in Pods, Exists(p)
            PROVE  LastIsPresent(p)'
        <4>1. PICK i \in DOMAIN order : order[i] = p
          BY <3>2, <3>4
        <4>2. About(feed'[i], p) /\ Outcome(feed'[i]) = Present(p)'
          BY <3>3, <3>4, <4>1, <2>3 DEF About, Outcome, Present
        <4>3. \A j \in DOMAIN feed' : About(feed'[j], p) => j = i
          BY <3>2, <3>3, <4>1 DEF About
        <4>4. i \in Nat /\ ~(i > i)
          BY <3>2
        <4> QED
          BY <3>3, <4>1, <4>2, <4>3, <4>4 DEF LastIsPresent
      <3>5. ASSUME NEW p \in Pods, ~Exists(p)
            PROVE  \A i \in DOMAIN feed' : ~About(feed'[i], p)
        <4>1. \A i \in DOMAIN order : order[i] # p
          BY <3>2, <3>5
        <4> QED
          BY <3>3, <4>1 DEF About
      <3>6. \A p \in Pods : ~Exists(p) => p \in lost' \/ NothingIsOnItsWay(p)'
        BY <2>1, <2>2, <2>3, <3>5 DEF NothingIsOnItsWay
      <3> QED
        BY <2>5, <3>4, <3>6 DEF FeedInv
    <2> QED
      BY <1>4, <2>4, <2>5 DEF WatchStarts
  \* What was on the way is gone.  The pods whose deletion was are in lost; the
  \* others that something was on its way about exist, and will be announced.
  <1>5. CASE WatchFails
    <2>1. /\ feed' = <<>> /\ watch' = "down" /\ UNCHANGED <<cluster, cache>>
          /\ lost' = lost \cup {feed[i].name : i \in {j \in DOMAIN feed : feed[j].type = "DELETED"}}
      BY <1>5 DEF WatchFails
    <2>2. \A p \in Pods : Present(p)' = Present(p) /\ (Exists(p)' <=> Exists(p))
      BY <2>1 DEF Present, Exists
    <2>3. ASSUME NEW p \in Pods, LastIsPresent(p), p \notin lost'
          PROVE  Exists(p)
      <3>1. PICK i \in DOMAIN feed : About(feed[i], p) /\ Outcome(feed[i]) = Present(p)
        BY <2>3 DEF LastIsPresent
      <3>2. feed[i] \in PodEvents
        OBVIOUS
      <3>3. feed[i].type # "DELETED"
        BY <2>1, <2>3, <3>1 DEF About
      <3> QED
        BY <3>1, <3>2, <3>3 DEF Outcome, Present, PodEvents, Objects
    <2>4. \A p \in Pods : NothingIsOnItsWay(p) => cache[p] = Present(p) \/ Exists(p)
      BY DEF NothingIsOnItsWay
    <2>5. \A p \in Pods : p \in lost' \/ cache[p] = Present(p) \/ Exists(p)
      BY <2>1, <2>3, <2>4 DEF FeedInv
    <2> QED
      BY <2>1, <2>2, <2>5 DEF FeedInv, NothingIsOnItsWay
  <1>6. CASE HandleEvent
    <2> DEFINE e == feed[1]
    <2>1. /\ feed # <<>> /\ Head(feed) = e /\ feed' = Tail(feed)
          /\ UNCHANGED <<cluster, watch, lost>>
          /\ e \in PodEvents
      BY <1>6 DEF HandleEvent
    <2>2. /\ DOMAIN feed = 1 .. Len(feed) /\ Len(feed) \in Nat \ {0}
          /\ DOMAIN feed' = 1 .. Len(feed) - 1
          /\ \A i \in 1 .. Len(feed) - 1 : feed'[i] = feed[i + 1]
      BY <2>1
    <2>3. \A p \in Pods : cache'[p] = IF About(e, p) THEN Outcome(e) ELSE cache[p]
      <3>1. /\ e.name \in Pods
            /\ \/ e.type \in {"ADDED", "MODIFIED"} /\ cache' = [cache EXCEPT ![e.name] = e.object]
               \/ e.type = "DELETED" /\ cache' = [cache EXCEPT ![e.name] = "none"]
               \/ e.type = "ERROR" /\ cache' = cache
        BY <1>6, <2>1 DEF HandleEvent, PodEvents
      <3> QED
        BY <3>1 DEF About, Outcome
    <2>4. watch = "node"
      BY <2>1 DEF FeedInv
    <2>5. \A p \in Pods : Present(p)' = Present(p)
      BY <2>1 DEF Present, Exists
    <2>6. ASSUME NEW p \in Pods, LastIsPresent(p)
          PROVE  LastIsPresent(p)' \/ NothingIsOnItsWay(p)'
      <3>1. PICK i \in DOMAIN feed :
              /\ About(feed[i], p)
              /\ \A j \in DOMAIN feed : j > i => ~About(feed[j], p)
              /\ Outcome(feed[i]) = Present(p)
        BY <2>6 DEF LastIsPresent
      <3>2. CASE i = 1
        <4>1. \A j \in DOMAIN feed' : ~About(feed'[j], p)
          BY <2>2, <3>1, <3>2
        <4>2. cache'[p] = Present(p)'
          BY <2>3, <2>5, <3>1, <3>2
        <4> QED
          BY <4>1, <4>2 DEF NothingIsOnItsWay
      <3>3. CASE i # 1
        <4>1. i - 1 \in DOMAIN feed' /\ feed'[i - 1] = feed[i]
          BY <2>2, <3>3
        <4>2. ASSUME NEW j \in DOMAIN feed', j > i - 1 PROVE ~About(feed'[j], p)
          <5>1. j + 1 \in DOMAIN feed /\ j + 1 > i /\ feed'[j] = feed[j + 1]
            BY <2>2, <4>2
          <5> QED
            BY <3>1, <5>1
        <4>3. Outcome(feed'[i - 1]) = Present(p)'
          BY <4>1, <3>1, <2>5
        <4> QED
          BY <3>1, <4>1, <4>2, <4>3 DEF LastIsPresent
      <3> QED
        BY <3>2, <3>3
    <2>7. ASSUME NEW p \in Pods, NothingIsOnItsWay(p)
          PROVE  NothingIsOnItsWay(p)'
      <3>1. \A j \in DOMAIN feed' : ~About(feed'[j], p)
        BY <2>2, <2>7 DEF NothingIsOnItsWay
      <3>2. ~About(e, p)
        BY <2>2, <2>7 DEF NothingIsOnItsWay
      <3> QED
        BY <2>3, <2>4, <2>5, <2>7, <3>1, <3>2 DEF NothingIsOnItsWay
    <2> QED
      BY <2>1, <2>4, <2>6, <2>7 DEF FeedInv
  <1>7. CASE UNCHANGED podVars
    BY <1>7 DEF podVars, FeedInv, LastIsPresent, NothingIsOnItsWay, Present, Exists
  <1> QED
    BY <1>2, <1>3, <1>4, <1>5, <1>6, <1>7
    DEF Cluster, PodManager, PodCreated, PodStarts, PodDeleted, Objects

-----------------------------------------------------------------------------
(* Type correctness of the publisher *)

\* A new handler, publisher and cache have the types.
LEMMA InitType == Init => TypeOK
  <1> SUFFICES ASSUME Init PROVE TypeOK
    OBVIOUS
  <1>1. NoSnapshot \in Snapshots /\ NoCounts \in [Counters -> Nat]
    BY DEF NoSnapshot, Snapshots, NoCounts
  <1>2. PublishTypeOK
    BY <1>1 DEF Init, PublishTypeOK, Steps
  <1> QED
    BY <1>2, PodInitType DEF Init, TypeOK

\* Taking a snapshot makes one.
LEMMA TakeSnapshotType ==
    ASSUME PublishTypeOK, NEW t \in Threads, NEW pods \in SUBSET Pods, TakeSnapshot(t, pods)
    PROVE  /\ age' \in Nat /\ age' = age + 1
           /\ snapshot' \in [Threads -> Snapshots]
           /\ snapshot'[t].age = age'
           /\ \A u \in Threads \ {t} : snapshot'[u] = snapshot[u]
  BY DEF PublishTypeOK, TakeSnapshot, Snapshots

\* Every step of a thread, of the report and of the cache keeps the types.
LEMMA NextType == TypeOK /\ [Next]_vars => TypeOK'
  <1> SUFFICES ASSUME TypeOK, [Next]_vars PROVE TypeOK'
    OBVIOUS
  <1> USE DEF TypeOK
  <1>1. PodTypeOK'
    <2>1. [Cluster \/ PodManager]_podVars
      BY DEF Next, vars, podVars
    <2> QED
      BY <2>1, PodNextType
  <1>2. ASSUME UNCHANGED publishVars
        PROVE  PublishTypeOK'
    BY <1>2 DEF publishVars, PublishTypeOK
  <1>3. ASSUME NEW t \in Threads, Handle(t) \/ TakeLock(t)
        PROVE  PublishTypeOK'
    BY <1>3 DEF Handle, TakeLock, Goes, PublishTypeOK, Steps
  <1>4. ASSUME NEW t \in Threads, CheckPods(t)
        PROVE  PublishTypeOK'
    <2>1. thread' \in [Threads -> Steps]
      BY <1>4 DEF CheckPods, Goes, PublishTypeOK, Steps
    <2>2. snapshot' \in [Threads -> Snapshots] /\ age' \in Nat
      BY <1>4, TakeSnapshotType DEF CheckPods, PublishTypeOK
    <2> QED
      BY <1>4, <2>1, <2>2 DEF CheckPods, PublishTypeOK
  <1>5. ASSUME NEW t \in Threads, ReadPods(t)
        PROVE  PublishTypeOK'
    <2>1. thread' \in [Threads -> Steps]
      BY <1>5 DEF ReadPods, Goes, Leave, PublishTypeOK, Steps
    <2>2. snapshot' \in [Threads -> Snapshots] /\ age' \in Nat
      BY <1>5, TakeSnapshotType DEF ReadPods, Leave, PublishTypeOK
    <2> QED
      BY <1>5, <2>1, <2>2 DEF ReadPods, Leave, PublishTypeOK
  <1>6. ASSUME NEW t \in Threads, Predict(t) \/ GetNode(t)
        PROVE  PublishTypeOK'
    BY <1>6 DEF Predict, RequestHangs, GetNode, Goes, Leave, PublishTypeOK, Steps
  <1>7. ASSUME NEW t \in Threads, Patch(t) \/ Create(t)
        PROVE  PublishTypeOK'
    BY <1>7 DEF Patch, Create, RequestHangs, Goes, Leave, PublishTypeOK, Steps
  <1>8. ASSUME NEW t \in Threads, CountOutcome(t)
        PROVE  PublishTypeOK'
    BY <1>8 DEF CountOutcome, Count, Goes, PublishTypeOK, Steps, Counters
  <1>9. ASSUME Report
        PROVE  PublishTypeOK'
    <2>1. reporting' \in BOOLEAN
      BY <1>9, Zenon DEF Report, ReportCounts, ResetCounts
    <2>2. counts' \in [Counters -> Nat] /\ registry' \in [Counters -> Nat]
      BY <1>9 DEF Report, ReportCounts, ResetCounts, NoCounts, PublishTypeOK
    <2> QED
      BY <1>9, <2>1, <2>2 DEF Report, ReportCounts, ResetCounts, PublishTypeOK
  <1>10. PublishTypeOK'
    BY <1>2, <1>3, <1>4, <1>5, <1>6, <1>7, <1>8, <1>9 DEF Next, Publish, vars
  <1> QED
    BY <1>1, <1>10

\* The publisher keeps its types.
THEOREM TypeCorrect == Spec => []TypeOK
  BY InitType, NextType, PTL DEF Spec

\* While the machine is watched, the cache is right about every pod of which no
\* event is on the way, unless its deletion fell between two watches: for any
\* number of pods, and of watches that fail.
THEOREM CacheIsRight == Spec => []CacheIsCurrent
  <1>1. Init => FeedInv
    BY FeedInvInit DEF Init
  <1>2. TypeOK /\ FeedInv /\ [Next]_vars => FeedInv'
    <2>1. [Next]_vars => [Cluster \/ PodManager]_podVars
      BY DEF Next, vars, podVars
    <2> QED
      BY <2>1, FeedInvNext DEF TypeOK
  <1>3. TypeOK /\ FeedInv => CacheIsCurrent
    BY FeedInvImplies DEF TypeOK
  <1> QED
    BY <1>1, <1>2, <1>3, TypeCorrect, PTL DEF Spec

-----------------------------------------------------------------------------
(* Publications do not go back *)

Critical == {"check", "read", "predict", "hung", "node", "patch", "create"}
AfterSnapshot == {"predict", "hung", "node", "patch", "create"}

\* One thread at a time publishes, with the lock, and once it has read the pods
\* nothing younger is published than what it has read.
PublishInv ==
    /\ \A t \in Threads : thread[t] \in Critical => publishLock = t
    /\ \A t \in Threads : thread[t] \in AfterSnapshot => object.age <= snapshot[t].age
    /\ \A t \in Threads : snapshot[t].age <= age
    /\ object.age <= age

\* No thread has the lock, and nothing is published, at first.
LEMMA PublishInvInit == Init => PublishInv
  BY DEF Init, PublishInv, NoSnapshot, Critical, AfterSnapshot

\* Every step keeps the invariant, and none makes the published object older.
LEMMA PublishInvNext ==
    TypeOK /\ PublishInv /\ [Next]_vars => PublishInv' /\ object'.age >= object.age
  <1> SUFFICES ASSUME TypeOK, PublishInv, [Next]_vars
               PROVE  PublishInv' /\ object'.age >= object.age
    OBVIOUS
  <1> USE DEF TypeOK, Critical, AfterSnapshot
  <1>0. /\ object \in Snapshots /\ age \in Nat
        /\ object.age \in Nat
        /\ \A t \in Threads : snapshot[t].age \in Nat
    BY DEF PublishTypeOK, Snapshots
  <1>1. ASSUME UNCHANGED publishVars
        PROVE  PublishInv' /\ object'.age >= object.age
    BY <1>0, <1>1 DEF publishVars, PublishInv
  <1>2. ASSUME NEW t \in Threads, Handle(t) \/ TakeLock(t)
        PROVE  PublishInv' /\ object'.age >= object.age
    BY <1>0, <1>2, NoThreadIsNone DEF Handle, TakeLock, Goes, PublishTypeOK, PublishInv
  \* A snapshot that is taken is younger than what is published.
  <1>3. ASSUME NEW t \in Threads, NEW pods \in SUBSET Pods,
               NEW from \in {"check", "read"}, NEW to \in {"node", "predict"},
               Goes(t, from, to), TakeSnapshot(t, pods), UNCHANGED <<publishLock, object>>
        PROVE  PublishInv' /\ object'.age >= object.age
    <2>1. /\ age' = age + 1 /\ snapshot'[t].age = age'
          /\ \A u \in Threads \ {t} : snapshot'[u] = snapshot[u]
      BY <1>3, TakeSnapshotType
    <2> QED
      BY <1>0, <1>3, <2>1 DEF Goes, PublishTypeOK, PublishInv
  \* A step of the thread that publishes, which goes on.
  <1>4. ASSUME NEW t \in Threads, NEW from \in Critical, NEW to \in Critical,
               Goes(t, from, to), from \in AfterSnapshot \/ to \notin AfterSnapshot,
               UNCHANGED <<publishLock, snapshot, object, age>>
        PROVE  PublishInv' /\ object'.age >= object.age
    BY <1>0, <1>4 DEF Goes, PublishTypeOK, PublishInv
  \* The thread that publishes leaves, and has published what it has read or not.
  <1>5. ASSUME NEW t \in Threads, NEW outcome \in {"succeed", "fail"},
               thread[t] \in Critical, Leave(t, outcome), UNCHANGED snapshot,
               object' = object \/ (thread[t] \in AfterSnapshot /\ object' = snapshot[t])
        PROVE  PublishInv' /\ object'.age >= object.age
    <2>1. \A u \in Threads : thread'[u] \notin Critical
      BY <1>5 DEF Leave, PublishTypeOK, PublishInv
    <2>2. object'.age >= object.age /\ object'.age <= age
      BY <1>0, <1>5 DEF PublishInv
    <2> QED
      BY <1>0, <1>5, <2>1, <2>2 DEF Leave, PublishInv
  <1>6. ASSUME NEW t \in Threads, CheckPods(t)
        PROVE  PublishInv' /\ object'.age >= object.age
    BY <1>3, <1>4, <1>6 DEF CheckPods
  <1>7. ASSUME NEW t \in Threads, ReadPods(t)
        PROVE  PublishInv' /\ object'.age >= object.age
    BY <1>3, <1>5, <1>7 DEF ReadPods
  <1>8. ASSUME NEW t \in Threads, Predict(t) \/ GetNode(t)
        PROVE  PublishInv' /\ object'.age >= object.age
    BY <1>4, <1>5, <1>8 DEF Predict, RequestHangs, GetNode
  \* A request that is never answered may have published what the thread has read.
  <1>9. ASSUME NEW t \in Threads, NEW from \in {"patch", "create"},
                RequestHangs(t, from), UNCHANGED snapshot,
                object' = object \/ object' = snapshot[t]
         PROVE  PublishInv' /\ object'.age >= object.age
    <2>1. /\ thread[t] = from /\ thread'[t] = "hung"
          /\ \A u \in Threads \ {t} : thread'[u] = thread[u]
          /\ UNCHANGED <<publishLock, age>>
      BY <1>9 DEF RequestHangs, Goes, PublishTypeOK
    <2>2. publishLock = t /\ object.age <= snapshot[t].age /\ snapshot[t].age <= age
      BY <2>1 DEF PublishInv
    <2>3. object'.age \in Nat /\ object'.age >= object.age /\ object'.age <= snapshot[t].age
      BY <1>0, <1>9, <2>2
    <2>4. \A u \in Threads \ {t} : thread'[u] \notin Critical
      BY <2>1, <2>2 DEF PublishInv
    <2>5. \A u \in Threads : thread'[u] \in AfterSnapshot => object'.age <= snapshot[u].age
      BY <2>3, <2>4
    <2> QED
      BY <1>0, <1>9, <2>1, <2>2, <2>3, <2>4, <2>5 DEF PublishInv
  <1>10. ASSUME NEW t \in Threads, Patch(t)
        PROVE  PublishInv' /\ object'.age >= object.age
    <2>1. CASE RequestHangs(t, "patch")
      BY <1>10, <1>9, <2>1 DEF Patch, RequestHangs, Goes
    <2>2. CASE ~RequestHangs(t, "patch")
      BY <1>4, <1>5, <1>10, <2>2 DEF Patch
    <2> QED
      BY <2>1, <2>2
  <1>11. ASSUME NEW t \in Threads, Create(t)
         PROVE  PublishInv' /\ object'.age >= object.age
    <2>1. CASE RequestHangs(t, "create")
      BY <1>11, <1>9, <2>1 DEF Create
    <2>2. CASE ~RequestHangs(t, "create")
      BY <1>5, <1>11, <2>2 DEF Create
    <2> QED
      BY <2>1, <2>2
  <1>12. ASSUME NEW t \in Threads, CountOutcome(t)
         PROVE  PublishInv' /\ object'.age >= object.age
    BY <1>0, <1>12 DEF CountOutcome, Count, Goes, PublishTypeOK, PublishInv
  <1>13. CASE Report
    BY <1>0, <1>13 DEF Report, ReportCounts, ResetCounts, PublishInv
  <1> QED
    BY <1>1, <1>2, <1>6, <1>7, <1>8, <1>10, <1>11, <1>12, <1>13 DEF Next, Publish, vars

\* Threads that overlap never put an older state of the machine back, for any
\* number of events, and wherever a publication fails.
THEOREM NothingGoesBack == Spec => PublishedNeverGoesBack
  <1>1. TypeOK /\ PublishInv /\ [Next]_vars => [object'.age >= object.age]_vars
    BY PublishInvNext
  <1> QED
    BY <1>1, PublishInvInit, PublishInvNext, TypeCorrect, PTL
    DEF Spec, PublishedNeverGoesBack

-----------------------------------------------------------------------------
(* Every publication is counted once *)

Ended == {"published", "failed"}

\* The number of threads at a step changes with the thread that moves.
LEMMA InType == \A step : In({step}) \in Nat
  BY ThreadsAreFinite, FS_Subset, FS_CardinalityType DEF In

\* A thread that moves between other steps leaves the number at a step.
LEMMA InStays ==
    ASSUME NEW step, NEW t \in Threads,
           thread[t] # step, thread'[t] # step,
           \A u \in Threads \ {t} : thread'[u] = thread[u]
    PROVE  In({step})' = In({step})
  <1>1. {u \in Threads : thread'[u] \in {step}} = {u \in Threads : thread[u] \in {step}}
    OBVIOUS
  <1> QED
    BY <1>1 DEF In

\* A thread that comes to a step adds one to the number there.
LEMMA InGrows ==
    ASSUME NEW step, NEW t \in Threads,
           thread[t] # step, thread'[t] = step,
           \A u \in Threads \ {t} : thread'[u] = thread[u]
    PROVE  In({step})' = In({step}) + 1
  <1> DEFINE before == {u \in Threads : thread[u] \in {step}}
             after == {u \in Threads : thread'[u] \in {step}}
  <1>1. IsFiniteSet(before)
    BY ThreadsAreFinite, FS_Subset
  <1>2. after = before \cup {t} /\ t \notin before
    OBVIOUS
  <1>3. Cardinality(after) = Cardinality(before) + 1
    BY <1>1, <1>2, FS_AddElement
  <1> QED
    BY <1>3 DEF In

\* What has been reported, and what is counted and not yet being reported, is the
\* number of threads that are through; while the counts are handed over, they
\* are in the registry already.
CountInv ==
    /\ registry["success"] + (IF reporting THEN 0 ELSE counts["success"]) = In({"published"})
    /\ registry["failure"] + (IF reporting THEN 0 ELSE counts["failure"]) = In({"failed"})

\* Nothing is counted, and no thread is through, at first.
LEMMA CountInvInit == Init => CountInv
  <1> SUFFICES ASSUME Init PROVE CountInv
    OBVIOUS
  <1>1. \A step \in Ended : {t \in Threads : thread[t] \in {step}} = {}
    BY DEF Init, Ended
  <1>2. \A step \in Ended : In({step}) = 0
    BY <1>1, FS_EmptySet DEF In
  <1> QED
    BY <1>2 DEF Init, CountInv, NoCounts, Counters, Ended

\* A step of a thread that does not count leaves the counts and the number of
\* threads that are through.
LEMMA OnlyCountingEnds ==
    ASSUME TypeOK, NEW t \in Threads, Handle(t) \/ Publish(t)
    PROVE  /\ UNCHANGED <<counts, registry, reporting>>
           /\ thread[t] \notin Ended /\ thread'[t] \notin Ended
           /\ \A u \in Threads \ {t} : thread'[u] = thread[u]
  <1> USE DEF TypeOK, PublishTypeOK, Ended, Goes, Leave
  <1>1. CASE Handle(t) \/ TakeLock(t)
    BY <1>1 DEF Handle, TakeLock
  <1>2. CASE CheckPods(t) \/ ReadPods(t)
    BY <1>2 DEF CheckPods, ReadPods, TakeSnapshot
  <1>3. CASE Predict(t) \/ GetNode(t)
    BY <1>3 DEF Predict, RequestHangs, GetNode
  <1>4. CASE Patch(t) \/ Create(t)
    BY <1>4 DEF Patch, Create, RequestHangs
  <1> QED
    BY <1>1, <1>2, <1>3, <1>4 DEF Publish

\* A thread that ends counts one, also while counts are reported.
LEMMA CountInvNext == TypeOK /\ CountInv /\ [Next]_vars => CountInv'
  <1> SUFFICES ASSUME TypeOK, CountInv, [Next]_vars PROVE CountInv'
    OBVIOUS
  <1>1. counts \in [Counters -> Nat] /\ registry \in [Counters -> Nat] /\ reporting \in BOOLEAN
    BY DEF TypeOK, PublishTypeOK
  <1>2. CASE UNCHANGED publishVars
    BY <1>2 DEF publishVars, CountInv, In
  <1>3. ASSUME NEW t \in Threads, Handle(t) \/ Publish(t)
        PROVE  CountInv'
    <2>1. /\ UNCHANGED <<counts, registry, reporting>>
          /\ \A step \in Ended : In({step})' = In({step})
      BY <1>3, OnlyCountingEnds, InStays DEF Ended
    <2> QED
      BY <2>1 DEF CountInv, Ended
  \* An outcome is counted while nothing is being reported.
  <1>4. ASSUME NEW t \in Threads, CountOutcome(t)
        PROVE  CountInv'
    <2>1. /\ ~reporting /\ UNCHANGED <<registry, reporting>>
          /\ \A u \in Threads \ {t} : thread'[u] = thread[u]
          /\ thread[t] \notin Ended
      BY <1>4 DEF CountOutcome, Count, Goes, TypeOK, PublishTypeOK, Ended
    <2>2. CASE Count(t, "succeed", "success", "published")
      <3>1. /\ counts'["success"] = counts["success"] + 1
            /\ counts'["failure"] = counts["failure"]
            /\ thread'[t] = "published"
        BY <1>1, <2>2 DEF Count, Goes, Counters, TypeOK, PublishTypeOK
      <3>2. In({"published"})' = In({"published"}) + 1 /\ In({"failed"})' = In({"failed"})
        BY <2>1, <3>1, InStays, InGrows DEF Ended
      <3> QED
        BY <1>1, <2>1, <3>1, <3>2, InType DEF CountInv, Counters
    <2>3. CASE Count(t, "fail", "failure", "failed")
      <3>1. /\ counts'["failure"] = counts["failure"] + 1
            /\ counts'["success"] = counts["success"]
            /\ thread'[t] = "failed"
        BY <1>1, <2>3 DEF Count, Goes, Counters, TypeOK, PublishTypeOK
      <3>2. In({"failed"})' = In({"failed"}) + 1 /\ In({"published"})' = In({"published"})
        BY <2>1, <3>1, InStays, InGrows DEF Ended
      <3> QED
        BY <1>1, <2>1, <3>1, <3>2, InType DEF CountInv, Counters
    <2> QED
      BY <1>4, <2>2, <2>3 DEF CountOutcome
  <1>5. CASE Report
    <2>1. In({"published"})' = In({"published"}) /\ In({"failed"})' = In({"failed"})
      BY <1>5 DEF Report, ReportCounts, ResetCounts, In
    <2>2. CASE ReportCounts
      <3>1. ~reporting /\ reporting'
        BY <2>2, Zenon DEF ReportCounts
      <3>2. \A k \in Counters : registry'[k] = registry[k] + counts[k]
        BY <2>2 DEF ReportCounts
      <3> QED
        BY <1>1, <2>1, <3>1, <3>2, InType DEF CountInv, Counters
    <2>3. CASE ResetCounts
      <3>1. reporting /\ ~reporting'
        BY <2>3, Zenon DEF ResetCounts
      <3>2. \A k \in Counters : registry'[k] = registry[k] /\ counts'[k] = 0
        BY <2>3 DEF ResetCounts, NoCounts
      <3> QED
        BY <1>1, <2>1, <3>1, <3>2, InType DEF CountInv, Counters
    <2> QED
      BY <1>5, <2>2, <2>3 DEF Report
  <1> QED
    BY <1>2, <1>3, <1>4, <1>5 DEF Next, vars

\* Every publication that has ended is counted once, as a success or a failure,
\* for any number of events and however the report of the counts falls.
THEOREM AllAreCounted == Spec => []EveryPublicationIsCounted
  <1>1. CountInv => EveryPublicationIsCounted
    BY DEF CountInv, EveryPublicationIsCounted, Counted
  <1> QED
    BY <1>1, CountInvInit, CountInvNext, TypeCorrect, PTL DEF Spec

=============================================================================
