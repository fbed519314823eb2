-------------------------- MODULE Isolation_proofs --------------------------
(***************************************************************************)
(* Proofs about Isolation: type correctness, and what the decision to skip *)
(* unchanged allocations rests on.                                         *)
(***************************************************************************)
EXTENDS Isolation, TLAPS

\* What the files of a workload are to hold is a value for every file.
LEMMA AllocType ==
    ASSUME NEW cpuset \in SUBSET Threads, NEW limit \in Limits
    PROVE  /\ Alloc(cpuset, limit) \in Allocs
           /\ Alloc(cpuset, limit) \in [Files -> Values]
           /\ Alloc(cpuset, limit)["cpuset"] = cpuset
  BY CpusetIsAFile DEF Alloc, Allocs, Values

\* An allocation gives every file one of the values that files can have.
LEMMA AllocsAreContents ==
    ASSUME NEW a \in Allocs
    PROVE  a \in [Files -> Values]
  BY AllocType DEF Allocs

\* A response allocates exactly the workloads on its layout, with its threads.
LEMMA AllocationsType ==
    ASSUME NEW layout \in Cpus, NEW allocs \in AllocationsOf(layout)
    PROVE  /\ allocs \in AllocMaps
           /\ DOMAIN allocs = WorkloadsOn(layout)
           /\ Agrees(layout, allocs)
  <1>1. PICK limit \in [WorkloadsOn(layout) -> Limits] :
          allocs = [w \in WorkloadsOn(layout) |-> Alloc(CpusetOf(layout, w), limit[w])]
    BY DEF AllocationsOf
  <1>2. \A w \in WorkloadsOn(layout) :
          /\ allocs[w] \in Allocs
          /\ allocs[w]["cpuset"] = CpusetOf(layout, w)
    <2>1. \A w : CpusetOf(layout, w) \in SUBSET Threads
      BY DEF CpusetOf
    <2> QED
      BY <1>1, <2>1, AllocType
  <1>3. WorkloadsOn(layout) \in SUBSET Containers
    BY DEF WorkloadsOn, Cpus
  <1>4. allocs \in [WorkloadsOn(layout) -> Allocs]
    BY <1>1, <1>2
  <1> QED
    BY <1>1, <1>2, <1>3, <1>4 DEF AllocMaps, Agrees

\* A response names containers and gives them allocations.
LEMMA AllocMapsType ==
    ASSUME NEW allocs \in AllocMaps
    PROVE  /\ DOMAIN allocs \in SUBSET Containers
           /\ \A w \in DOMAIN allocs : allocs[w] \in Allocs
  BY DEF AllocMaps

\* The empty CPU and the empty response, which a new manager has, have the types.
LEMMA EmptyTypes ==
    /\ EmptyCpu \in Cpus
    /\ WorkloadsOn(EmptyCpu) = {}
    /\ NoAllocs \in AllocMaps
    /\ DOMAIN NoAllocs = {}
    /\ NoCall \in Calls
  <1>1. EmptyCpu \in Cpus /\ WorkloadsOn(EmptyCpu) = {}
    BY DEF EmptyCpu, Cpus, WorkloadsOn
  <1>2. NoAllocs \in [{} -> Allocs] /\ DOMAIN NoAllocs = {}
    BY DEF NoAllocs
  <1>3. NoAllocs \in AllocMaps
    BY <1>2 DEF AllocMaps
  <1> QED
    BY <1>1, <1>2, <1>3 DEF NoCall, Calls

-----------------------------------------------------------------------------
(* Type correctness *)

\* The process starts with the types.
LEMMA InitType == Init => TypeOK
  <1> SUFFICES ASSUME Init PROVE TypeOK
    OBVIOUS
  <1>1. (CHOOSE l \in Limits : TRUE) \in Limits
    BY SomeLimit
  <1>2. file \in [Containers -> [Files -> Contents]]
    BY <1>1 DEF Init, Contents, Values
  <1>3. CgroupTypeOK
    BY <1>2 DEF Init, CgroupTypeOK
  <1>4. ManagerTypeOK
    <2>1. NoCall.todo = {}
      BY DEF NoCall
    <2> QED
      BY <2>1, EmptyTypes DEF Init, NewManager, ManagerTypeOK
  <1> QED
    BY <1>3, <1>4 DEF Init, TypeOK

\* What is still to apply is an allocation.
LEMMA TodoType ==
    ASSUME ManagerTypeOK, NEW w \in call.todo
    PROVE  w \in Containers /\ call.allocs[w] \in [Files -> Values]
  <1>1. w \in DOMAIN call.allocs /\ call.allocs \in AllocMaps
    BY DEF ManagerTypeOK, Calls
  <1> QED
    BY <1>1, AllocMapsType, AllocsAreContents

\* Starting the writers of some files keeps the types.
LEMMA StartType ==
    ASSUME CgroupTypeOK, NEW w \in Containers, NEW a \in [Files -> Values],
           NEW fs \in SUBSET Files, StartWriters(w, a, fs)
    PROVE  CgroupTypeOK'
  <1>1. \A f \in fs :
          [n |-> gen + 1, c |-> w, f |-> f, val |-> a[f], st |-> "write"]
            \in WriterThreads
    BY DEF CgroupTypeOK, WriterThreads
  <1> QED
    BY <1>1 DEF StartWriters, CgroupTypeOK

\* Every step of the manager, the writers, the reconciler and the containers keeps
\* the types.
LEMMA NextType == TypeOK /\ [Next]_vars => TypeOK'
  <1> SUFFICES ASSUME TypeOK, [Next]_vars PROVE TypeOK'
    OBVIOUS
  <1> USE DEF TypeOK
  <1>1. ASSUME NEW adds \in SUBSET Containers, NEW removes \in SUBSET Containers,
               process = "up", BeginIsolate(adds, removes),
               UNCHANGED <<process, crashes>>
        PROVE  TypeOK'
    <2>1. call' \in Calls /\ call'.todo = {}
      BY <1>1, EmptyTypes DEF BeginIsolate, NoCall, Calls, ManagerTypeOK, CgroupTypeOK
    <2>2. CgroupTypeOK'
      BY <1>1 DEF BeginIsolate, ReleaseContainers, CgroupTypeOK
    <2> QED
      BY <1>1, <2>1, <2>2 DEF BeginIsolate, ManagerTypeOK
  <1>2. ASSUME Allocate, UNCHANGED <<process, crashes>>
        PROVE  TypeOK'
    <2>1. PICK layout \in Layouts : \E allocs \in AllocationsOf(layout) :
              call' = [call EXCEPT
                !.cpu = layout,
                !.allocs = allocs,
                !.todo = {w \in DOMAIN allocs :
                            w \in DOMAIN last => last[w] # allocs[w]}]
      BY <1>2 DEF Allocate
    <2>2. PICK allocs \in AllocationsOf(layout) :
              call' = [call EXCEPT
                !.cpu = layout,
                !.allocs = allocs,
                !.todo = {w \in DOMAIN allocs :
                            w \in DOMAIN last => last[w] # allocs[w]}]
      BY <2>1
    <2>3. layout \in Cpus /\ allocs \in AllocMaps /\ DOMAIN allocs \in SUBSET Containers
      BY LayoutsAreCpus, AllocationsType, AllocMapsType
    <2>4. call' \in Calls /\ call'.todo \subseteq DOMAIN call'.allocs
      BY <2>2, <2>3 DEF Calls, ManagerTypeOK
    <2> QED
      BY <1>2, <2>4 DEF Allocate, ManagerTypeOK, CgroupTypeOK, cgroupVars
  <1>3. ASSUME AllocateFails, UNCHANGED <<process, crashes>>
        PROVE  TypeOK'
    <2>1. call'.todo = {}
      BY <1>3 DEF AllocateFails, NoCall
    <2> QED
      BY <1>3, <2>1, EmptyTypes
      DEF AllocateFails, ManagerTypeOK, CgroupTypeOK, cgroupVars
  <1>4. ASSUME NEW w \in Containers, Apply(w), UNCHANGED <<process, crashes>>
        PROVE  TypeOK'
    <2>1. CgroupTypeOK'
      BY <1>4, TodoType, StartType DEF Apply
    <2>2. call' \in Calls /\ call'.todo = call.todo /\ call'.allocs = call.allocs
      BY <1>4 DEF Apply, Calls, ManagerTypeOK
    <2> QED
      BY <1>4, <2>1, <2>2 DEF Apply, ManagerTypeOK
  <1>18. ASSUME NEW w \in Containers, ApplyFails(w), UNCHANGED <<process, crashes>>
         PROVE  TypeOK'
    <2>1. CgroupTypeOK'
      <3>1. CASE UNCHANGED cgroupVars
        BY <3>1 DEF CgroupTypeOK, cgroupVars
      <3>2. CASE \E fs \in SUBSET Files : StartWriters(w, call.allocs[w], fs)
        BY <1>18, <3>2, TodoType, StartType DEF ApplyFails
      <3> QED
        BY <1>18, <3>1, <3>2 DEF ApplyFails
    <2>2. halfway' \in SUBSET Nat
      <3>1. call.since \in Nat /\ gen' \in Nat
        BY <2>1 DEF ManagerTypeOK, Calls, CgroupTypeOK
      <3>2. (call.since + 1)..gen' \in SUBSET Nat
        BY <3>1
      <3> QED
        BY <1>18, <3>2 DEF ApplyFails, ManagerTypeOK
    <2>3. call'.todo = {}
      BY <1>18 DEF ApplyFails, NoCall
    <2> QED
      BY <1>18, <2>1, <2>2, <2>3, EmptyTypes DEF ApplyFails, ManagerTypeOK
  <1>5. ASSUME NEW w \in Containers, ApplyMemory(w), UNCHANGED <<process, crashes>>
        PROVE  TypeOK'
    <2>1. CgroupTypeOK'
      BY <1>5 DEF ApplyMemory, SetMemory, CgroupTypeOK
    <2>2. /\ call' \in Calls
          /\ call'.todo = call.todo \ {w}
          /\ call'.allocs = call.allocs
      BY <1>5 DEF ApplyMemory, Calls, ManagerTypeOK
    <2> QED
      BY <1>5, <2>1, <2>2 DEF ApplyMemory, ManagerTypeOK
  <1>6. ASSUME Commit, UNCHANGED <<process, crashes>>
        PROVE  TypeOK'
    <2>1. call'.todo = {}
      BY <1>6 DEF Commit, NoCall
    <2>2. call.cpu \in Cpus /\ call.workloads \in SUBSET Containers
            /\ call.allocs \in AllocMaps
      BY DEF Calls, ManagerTypeOK
    <2> QED
      BY <1>6, <2>1, <2>2, EmptyTypes
      DEF Commit, ManagerTypeOK, CgroupTypeOK, cgroupVars
  <1>7. ASSUME NEW t \in writers, WriteFile(t), UNCHANGED <<managerVars, process, crashes>>
        PROVE  TypeOK'
    <2>1. t \in WriterThreads
      BY DEF CgroupTypeOK
    <2>2. [t EXCEPT !.st = "record"] \in WriterThreads
      BY <2>1 DEF WriterThreads
    <2>3. [val |-> t.val, by |-> t.n] \in Contents
      BY <2>1 DEF WriterThreads, Contents
    <2> QED
      BY <1>7, <2>1, <2>2, <2>3
      DEF WriteFile, ManagerTypeOK, CgroupTypeOK, managerVars, WriterThreads
  <1>8. ASSUME NEW t \in writers, WriteFails(t) \/ RecordIsolated(t),
               UNCHANGED <<managerVars, process, crashes>>
        PROVE  TypeOK'
    BY <1>8 DEF WriteFails, RecordIsolated, ManagerTypeOK, CgroupTypeOK,
                managerVars, WriterThreads
  <1>9. ASSUME EndProcess, crashes' \in Nat
        PROVE  TypeOK'
    <2>1. call'.todo = {}
      BY <1>9 DEF EndProcess, NoCall
    <2>2. CgroupTypeOK'
      BY <1>9 DEF EndProcess, CgroupTypeOK
    <2> QED
      BY <1>9, <2>1, <2>2, EmptyTypes DEF EndProcess, ManagerTypeOK
  <1>10. CASE CallIsolate
    BY <1>1, <1>10 DEF CallIsolate
  <1>11. CASE Manager
    BY <1>2, <1>3, <1>4, <1>5, <1>6, <1>11, <1>18 DEF Manager, IsolateStep
  <1>12. CASE Writer
    BY <1>7, <1>8, <1>12 DEF Writer, WriterStep
  <1>13. CASE ReconcileFails
    BY <1>9, <1>13 DEF ReconcileFails
  <1>14. CASE Crash
    BY <1>9, <1>14 DEF Crash
  <1>15. CASE Restart
    BY <1>15 DEF Restart, ManagerTypeOK, CgroupTypeOK, cgroupVars, managerVars
  <1>16. CASE Runtime
    BY <1>16 DEF Runtime, ContainerStarts, ContainerDies, ManagerTypeOK,
                 CgroupTypeOK, managerVars
  <1>17. CASE UNCHANGED vars
    BY <1>17 DEF vars, ManagerTypeOK, CgroupTypeOK, cgroupVars, managerVars
  <1> QED
    BY <1>10, <1>11, <1>12, <1>13, <1>14, <1>15, <1>16, <1>17 DEF Next

\* Every variable of the agent stays in its type, for any number of containers,
\* threads, layouts and calls.
THEOREM TypeCorrect == Spec => []TypeOK
  <1> QED
    BY InitType, NextType, PTL DEF Spec

-----------------------------------------------------------------------------
(* Skipping unchanged allocations *)

\* Nothing has been asked or written at first.
LEMMA InitSkipping == Init => SkippingInv
  <1> SUFFICES ASSUME Init PROVE SkippingInv
    OBVIOUS
  <1>1. RoundsAreStarted
    <2>1. \A c \in Containers, f \in Files : file[c][f].by = 0
      BY DEF Init
    <2>2. gen = 0 /\ writers = {} /\ \A c \in Containers : asked[c] = 0
      BY DEF Init
    <2> QED
      BY <2>1, <2>2 DEF RoundsAreStarted
  <1>2. Agrees(cpu, last)
    BY EmptyTypes DEF Init, NewManager, Agrees
  <1>3. RoundsCarryAllocations
    BY EmptyTypes DEF Init, NewManager, RoundsCarryAllocations, NoCall
  <1>4. CallsKnowRounds
    BY DEF Init, NewManager, CallsKnowRounds, NoCall
  <1> QED
    BY <1>1, <1>2, <1>3, <1>4, InitType DEF SkippingInv

\* Whatever a writer thread does, the newest round of a container carries what
\* it carried.
LEMMA WriterKeepsRounds ==
    ASSUME TypeOK, RoundsAreStarted, WriterStep
    PROVE  /\ RoundsAreStarted'
           /\ \A c \in Containers : \A a : NewestCarries(c, a) => NewestCarries(c, a)'
  <1> PICK t \in writers : WriteFile(t) \/ WriteFails(t) \/ RecordIsolated(t)
    BY DEF WriterStep
  <1>1. t \in WriterThreads /\ file \in [Containers -> [Files -> Contents]]
    BY DEF TypeOK, CgroupTypeOK
  <1>2. CASE WriteFile(t)
    <2>1. /\ asked' = asked /\ gen' = gen
          /\ writers' = (writers \ {t}) \cup {[t EXCEPT !.st = "record"]}
          /\ file' = [file EXCEPT ![t.c][t.f] = [val |-> t.val, by |-> t.n]]
      BY <1>2 DEF WriteFile
    <2>2. \A s \in writers' : \E r \in writers :
            s.n = r.n /\ s.c = r.c /\ s.f = r.f /\ s.val = r.val
      BY <1>1, <2>1 DEF WriterThreads
    <2>3. \A c \in Containers, f \in Files :
            \/ file'[c][f] = file[c][f]
            \/ c = t.c /\ f = t.f /\ file'[c][f].val = t.val /\ file'[c][f].by = t.n
      BY <1>1, <2>1 DEF WriterThreads
    <2>4. RoundsAreStarted'
      <3>1. \A s \in writers' : s.n <= gen'
        BY <2>1, <2>2 DEF RoundsAreStarted
      <3>2. \A c \in Containers, f \in Files : file'[c][f].by <= gen'
        BY <2>1, <2>3 DEF RoundsAreStarted
      <3> QED
        BY <2>1, <3>1, <3>2 DEF RoundsAreStarted
    <2>5. ASSUME NEW c \in Containers, NEW a, NewestCarries(c, a)
          PROVE  NewestCarries(c, a)'
      <3>1. \A s \in writers' : s.c = c /\ s.n = asked'[c] => s.val = a[s.f]
        BY <2>1, <2>2, <2>5 DEF NewestCarries
      <3>2. \A f \in Files : file'[c][f].by = asked'[c] => file'[c][f].val = a[f]
        BY <2>1, <2>3, <2>5 DEF NewestCarries
      <3> QED
        BY <2>1, <2>5, <3>1, <3>2 DEF NewestCarries
    <2> QED
      BY <2>4, <2>5
  <1>3. CASE WriteFails(t) \/ RecordIsolated(t)
    BY <1>3 DEF WriteFails, RecordIsolated, RoundsAreStarted, NewestCarries
  <1> QED
    BY <1>2, <1>3

\* A round of writers that is started is the newest one of its container, carries
\* what it was given, and is of no concern to the other containers.
LEMMA StartedRound ==
    ASSUME TypeOK, RoundsAreStarted, NEW w \in Containers, NEW a \in [Files -> Values],
           NEW fs \in SUBSET Files, StartWriters(w, a, fs)
    PROVE  /\ RoundsAreStarted'
           /\ gen' = gen + 1 /\ asked'[w] = gen + 1
           /\ NewestCarries(w, a)'
           /\ \A v \in Containers \ {w} :
                /\ asked'[v] = asked[v]
                /\ \A b : NewestCarries(v, b) => NewestCarries(v, b)'
  <1>1. /\ gen \in Nat /\ gen' = gen + 1
        /\ asked \in [Containers -> Nat]
        /\ asked' = [asked EXCEPT ![w] = gen + 1]
        /\ file' = file
        /\ \A t \in writers' : \/ t \in writers
                               \/ t.n = gen + 1 /\ t.c = w /\ t.val = a[t.f]
    BY DEF StartWriters, TypeOK, CgroupTypeOK
  <1>2. /\ \A t \in writers : t.n \in Nat /\ t.n <= gen
        /\ \A c \in Containers : asked[c] \in Nat /\ asked[c] <= gen
        /\ \A c \in Containers, f \in Files : file[c][f].by \in Nat /\ file[c][f].by <= gen
    <2>1. \A t \in writers : t.n \in Nat
      BY DEF TypeOK, CgroupTypeOK, WriterThreads
    <2>2. \A c \in Containers, f \in Files : file[c][f].by \in Nat
      BY DEF TypeOK, CgroupTypeOK, Contents
    <2> QED
      BY <2>1, <2>2 DEF TypeOK, CgroupTypeOK, RoundsAreStarted
  <1>3. RoundsAreStarted'
    <2>1. \A t \in writers' : t.n <= gen'
      BY <1>1, <1>2
    <2>2. \A c \in Containers : asked'[c] <= gen'
      BY <1>1, <1>2
    <2>3. \A c \in Containers, f \in Files : file'[c][f].by <= gen'
      BY <1>1, <1>2
    <2> QED
      BY <2>1, <2>2, <2>3 DEF RoundsAreStarted
  <1>4. NewestCarries(w, a)'
    BY <1>1, <1>2 DEF NewestCarries
  <1>5. ASSUME NEW v \in Containers \ {w}
        PROVE  /\ asked'[v] = asked[v]
               /\ \A b : NewestCarries(v, b) => NewestCarries(v, b)'
    BY <1>1, <1>2 DEF NewestCarries
  <1> QED
    BY <1>1, <1>3, <1>4, <1>5

\* What a container's newest round carries, it carries after a step that asks for no
\* other round of it.
LEMMA StillCarries ==
    ASSUME NEW c, asked'[c] = asked[c], halfway \subseteq halfway',
           \A b : NewestCarries(c, b) => NewestCarries(c, b)'
    PROVE  \A b : Carries(c, b) => Carries(c, b)'
  BY DEF Carries, LeftHalfway

\* So it does after a step that starts no round and lets no writer run.
LEMMA RoundsUnchanged ==
    ASSUME UNCHANGED <<file, writers, gen, asked>>, halfway \subseteq halfway'
    PROVE  /\ RoundsAreStarted => RoundsAreStarted'
           /\ \A c, b : Carries(c, b) => Carries(c, b)'
  <1>1. \A c, b : NewestCarries(c, b) => NewestCarries(c, b)'
    BY DEF NewestCarries
  <1>2. \A c : asked'[c] = asked[c]
    OBVIOUS
  <1> QED
    BY <1>1, <1>2, StillCarries DEF RoundsAreStarted

\* Every step keeps the invariant, also one that fails half-way, or ends the process
\* with writers alive.
LEMMA NextSkipping == SkippingInv /\ [Next]_vars => SkippingInv'
  <1> SUFFICES ASSUME SkippingInv, [Next]_vars PROVE SkippingInv'
    OBVIOUS
  <1>1. TypeOK /\ TypeOK'
    BY NextType DEF SkippingInv
  <1>2. /\ RoundsAreStarted /\ CallsKnowRounds
        /\ Agrees(cpu, last) /\ RoundsCarryAllocations
    BY DEF SkippingInv
  <1>3. /\ gen \in Nat /\ asked \in [Containers -> Nat] /\ call \in Calls
        /\ halfway \in SUBSET Nat /\ call.since \in Nat
        /\ DOMAIN last \in SUBSET Containers
        /\ DOMAIN call.allocs \in SUBSET Containers
    BY <1>1, AllocMapsType DEF TypeOK, CgroupTypeOK, ManagerTypeOK, Calls
  <1>4. ASSUME NEW adds, NEW removes, BeginIsolate(adds, removes)
        PROVE  SkippingInv'
    <2>1. call'.since = gen /\ call'.current = {} /\ pc = "idle" /\ pc' = "allocate"
      BY <1>4 DEF BeginIsolate, NoCall
    <2>2. UNCHANGED <<file, writers, gen, asked, cpu, last, halfway>>
      BY <1>4 DEF BeginIsolate
    <2>3. CallsKnowRounds' /\ Agrees(cpu, last)'
      BY <1>2, <1>3, <2>1, <2>2 DEF CallsKnowRounds, Agrees
    <2>4. RoundsAreStarted' /\ \A c, b : Carries(c, b) => Carries(c, b)'
      BY <1>2, <2>2, RoundsUnchanged
    <2>5. \A w \in DOMAIN last' : Carries(w, last[w])'
      BY <1>2, <2>1, <2>2, <2>4 DEF RoundsCarryAllocations, AskedBefore
    <2>6. \A w \in Containers : asked'[w] <= call'.since
      BY <1>2, <2>1, <2>2 DEF RoundsAreStarted
    <2>7. RoundsCarryAllocations'
      BY <2>1, <2>5, <2>6 DEF RoundsCarryAllocations, AskedBefore
    <2> QED
      BY <1>1, <2>3, <2>4, <2>7 DEF SkippingInv
  <1>5. ASSUME Allocate PROVE SkippingInv'
    <2>0. PICK layout \in Layouts : \E allocs \in AllocationsOf(layout) :
              call' = [call EXCEPT
                !.cpu = layout,
                !.allocs = allocs,
                !.todo = {w \in DOMAIN allocs :
                            w \in DOMAIN last => last[w] # allocs[w]}]
      BY <1>5 DEF Allocate
    <2>1. PICK allocs \in AllocationsOf(layout) :
              call' = [call EXCEPT
                !.cpu = layout,
                !.allocs = allocs,
                !.todo = {w \in DOMAIN allocs :
                            w \in DOMAIN last => last[w] # allocs[w]}]
      BY <2>0
    <2>2. /\ call'.cpu = layout
          /\ call'.allocs = allocs
          /\ call'.todo = {w \in DOMAIN allocs :
                            w \in DOMAIN last => last[w] # allocs[w]}
          /\ call'.current = call.current
          /\ call'.since = call.since
      BY <1>3, <2>1 DEF Calls
    <2>3. Agrees(call'.cpu, call'.allocs)
      BY <2>2, AllocationsType, LayoutsAreCpus
    <2>4. \A w \in DOMAIN call'.allocs \ call'.todo :
            w \in DOMAIN last /\ call'.allocs[w] = last[w]
      BY <2>2
    <2>5. call.current = {} /\ pc = "allocate" /\ pc' = "apply"
      BY <1>2, <1>5 DEF Allocate, RoundsCarryAllocations
    <2>6. UNCHANGED <<file, writers, gen, asked, cpu, last, halfway>>
      BY <1>5 DEF Allocate, cgroupVars
    <2>7. RoundsAreStarted' /\ \A c, b : Carries(c, b) => Carries(c, b)'
      BY <1>2, <2>6, RoundsUnchanged
    <2>8. \A w \in DOMAIN last' : Carries(w, last[w])'
      BY <1>2, <1>3, <2>5, <2>6, <2>7 DEF RoundsCarryAllocations
    <2>9. \A w \in DOMAIN call'.allocs \ call'.todo : Carries(w, call.allocs[w])'
      <3> SUFFICES ASSUME NEW w \in DOMAIN call'.allocs \ call'.todo
                   PROVE  Carries(w, call.allocs[w])'
        OBVIOUS
      <3> QED
        BY <2>4, <2>6, <2>8
    <2>10. RoundsCarryAllocations'
      BY <2>2, <2>3, <2>5, <2>8, <2>9 DEF RoundsCarryAllocations
    <2>11. CallsKnowRounds' /\ Agrees(cpu, last)'
      BY <1>2, <2>2, <2>6 DEF CallsKnowRounds, Agrees
    <2> QED
      BY <1>1, <2>7, <2>10, <2>11 DEF SkippingInv
  <1>6. ASSUME AllocateFails PROVE SkippingInv'
    <2>1. /\ UNCHANGED <<file, writers, gen, asked, cpu, last, halfway>>
          /\ call'.since = 0 /\ call'.current = {} /\ pc = "allocate" /\ pc' = "idle"
      BY <1>6 DEF AllocateFails, cgroupVars, NoCall
    <2>2. CallsKnowRounds' /\ Agrees(cpu, last)'
      BY <1>2, <1>3, <2>1 DEF CallsKnowRounds, Agrees
    <2>3. RoundsAreStarted' /\ \A c, b : Carries(c, b) => Carries(c, b)'
      BY <1>2, <2>1, RoundsUnchanged
    <2>4. \A w \in DOMAIN last' : Carries(w, last[w])'
      BY <1>2, <1>3, <2>1, <2>3 DEF RoundsCarryAllocations
    <2>5. RoundsCarryAllocations'
      BY <2>1, <2>4 DEF RoundsCarryAllocations
    <2> QED
      BY <1>1, <2>2, <2>3, <2>5 DEF SkippingInv
  <1>7. ASSUME NEW w \in Containers, Apply(w) PROVE SkippingInv'
    <2>1. PICK a \in [Files -> Values] : a = call.allocs[w]
      BY <1>1, <1>7, TodoType DEF Apply, TypeOK
    <2>2. /\ call'.cpu = call.cpu
          /\ call'.allocs = call.allocs
          /\ call'.todo = call.todo
          /\ call'.current = {w}
          /\ call'.since = call.since
      BY <1>3, <1>7 DEF Apply, Calls
    <2>3. StartWriters(w, a, Files) /\ UNCHANGED <<cpu, last, halfway>>
          /\ pc = "apply" /\ pc' = "memory"
      BY <1>7, <2>1 DEF Apply
    <2>4. /\ RoundsAreStarted' /\ gen' = gen + 1 /\ asked'[w] = gen + 1
          /\ NewestCarries(w, a)'
          /\ \A v \in Containers \ {w} :
               /\ asked'[v] = asked[v]
               /\ \A b : NewestCarries(v, b) => NewestCarries(v, b)'
      BY <1>1, <1>2, <2>3, StartedRound
    <2>5. CallsKnowRounds' /\ Agrees(cpu, last)'
      BY <1>2, <1>3, <2>2, <2>3, <2>4 DEF CallsKnowRounds, Agrees
    <2>6. \A v \in Containers \ {w} : \A b : Carries(v, b) => Carries(v, b)'
      BY <2>3, <2>4, StillCarries
    <2>7. ~AskedBefore(w)'
      BY <1>2, <1>3, <2>2, <2>3, <2>4 DEF AskedBefore, CallsKnowRounds
    <2>8. \A v \in DOMAIN last' : AskedBefore(v)' => Carries(v, last[v])'
      <3> SUFFICES ASSUME NEW v \in DOMAIN last', AskedBefore(v)'
                   PROVE  Carries(v, last[v])'
        OBVIOUS
      <3>1. v \in Containers \ {w} /\ v \in DOMAIN last
        BY <1>3, <2>3, <2>7
      <3>2. AskedBefore(v)
        BY <2>2, <2>3, <2>4, <3>1 DEF AskedBefore
      <3>3. Carries(v, last[v])
        BY <1>2, <3>1, <3>2 DEF RoundsCarryAllocations
      <3> QED
        BY <2>3, <2>6, <3>1, <3>3
    <2>9. \A v \in DOMAIN call'.allocs \ (call'.todo \ call'.current) :
            Carries(v, call.allocs[v])'
      <3> SUFFICES ASSUME NEW v \in DOMAIN call'.allocs \ (call'.todo \ call'.current)
                   PROVE  Carries(v, call.allocs[v])'
        OBVIOUS
      <3>1. CASE v = w
        BY <2>1, <2>2, <2>4, <3>1 DEF Carries
      <3>2. CASE v # w
        BY <1>2, <1>3, <2>2, <2>3, <2>6, <3>2 DEF RoundsCarryAllocations
      <3> QED
        BY <3>1, <3>2
    <2>10. RoundsCarryAllocations'
      BY <1>2, <2>2, <2>3, <2>8, <2>9 DEF RoundsCarryAllocations, Agrees
    <2> QED
      BY <1>1, <2>4, <2>5, <2>10 DEF SkippingInv
  <1>8. ASSUME NEW w \in Containers, ApplyFails(w) PROVE SkippingInv'
    <2>1. PICK a \in [Files -> Values] : a = call.allocs[w]
      BY <1>1, <1>8, TodoType DEF ApplyFails, TypeOK
    <2>2. /\ call'.since = 0 /\ call'.current = {}
          /\ pc = "apply" /\ pc' = "idle"
          /\ UNCHANGED <<cpu, last>>
          /\ halfway' = halfway \cup ((call.since + 1)..gen')
      BY <1>8 DEF ApplyFails, NoCall
    <2>3. /\ RoundsAreStarted' /\ gen' \in Nat /\ gen <= gen'
          /\ \A v \in Containers :
               \/ asked'[v] = gen'
                  /\ call.since < gen'
               \/ /\ asked'[v] = asked[v]
                  /\ \A b : Carries(v, b) => Carries(v, b)'
      <3>1. CASE UNCHANGED cgroupVars
        <4>1. UNCHANGED <<file, writers, gen, asked>> /\ halfway \subseteq halfway'
          BY <2>2, <3>1 DEF cgroupVars
        <4>2. RoundsAreStarted' /\ \A c, b : Carries(c, b) => Carries(c, b)'
          BY <1>2, <4>1, RoundsUnchanged
        <4> QED
          BY <1>3, <4>1, <4>2
      <3>2. CASE \E fs \in SUBSET Files : StartWriters(w, a, fs)
        <4>1. PICK fs \in SUBSET Files : StartWriters(w, a, fs)
          BY <3>2
        <4>2. /\ RoundsAreStarted' /\ gen' = gen + 1 /\ asked'[w] = gen + 1
              /\ \A v \in Containers \ {w} :
                   /\ asked'[v] = asked[v]
                   /\ \A b : NewestCarries(v, b) => NewestCarries(v, b)'
          BY <1>1, <1>2, <4>1, StartedRound
        <4>3. \A v \in Containers \ {w} : \A b : Carries(v, b) => Carries(v, b)'
          BY <2>2, <4>2, StillCarries
        <4> QED
          BY <1>2, <1>3, <4>2, <4>3 DEF CallsKnowRounds
      <3> QED
        <4>1. UNCHANGED cgroupVars \/ \E fs \in SUBSET Files : StartWriters(w, call.allocs[w], fs)
          BY <1>8 DEF ApplyFails
        <4>2. \A fs : StartWriters(w, call.allocs[w], fs) => StartWriters(w, a, fs)
          BY <2>1 DEF StartWriters
        <4>3. UNCHANGED cgroupVars \/ \E fs \in SUBSET Files : StartWriters(w, a, fs)
          BY <4>1, <4>2
        <4> QED
          BY <3>1, <3>2, <4>3
    <2>4. CallsKnowRounds' /\ Agrees(cpu, last)'
      <3>1. halfway \subseteq 1..gen' /\ (call.since + 1)..gen' \subseteq 1..gen'
        <4>1. \A n \in 1..gen : n \in 1..gen'
          BY <1>3, <2>3
        <4>2. \A n \in (call.since + 1)..gen' : n \in 1..gen'
          BY <1>3, <2>3
        <4> QED
          BY <1>2, <4>1, <4>2 DEF CallsKnowRounds
      <3>2. halfway' \subseteq 1..gen'
        BY <2>2, <3>1
      <3> QED
        BY <1>2, <2>2, <2>3, <3>2 DEF CallsKnowRounds, Agrees
    <2>5. \A v \in DOMAIN last' : Carries(v, last[v])'
      <3> SUFFICES ASSUME NEW v \in DOMAIN last'
                   PROVE  Carries(v, last[v])'
        OBVIOUS
      <3>1. v \in Containers /\ v \in DOMAIN last /\ last' = last
        BY <1>3, <2>2
      <3>2. CASE asked'[v] \in (call.since + 1)..gen'
        BY <2>2, <3>2 DEF Carries, LeftHalfway
      <3>3. CASE asked'[v] \notin (call.since + 1)..gen'
        <4>1. asked'[v] = asked[v] /\ \A b : Carries(v, b) => Carries(v, b)'
          BY <1>3, <2>3, <3>1, <3>3
        <4>2. asked[v] <= call.since
          BY <1>2, <1>3, <2>3, <3>1, <3>3, <4>1 DEF RoundsAreStarted
        <4>3. Carries(v, last[v])
          BY <1>2, <3>1, <4>2 DEF RoundsCarryAllocations, AskedBefore
        <4> QED
          BY <3>1, <4>1, <4>3
      <3> QED
        BY <3>2, <3>3
    <2>6. RoundsCarryAllocations'
      BY <2>2, <2>5 DEF RoundsCarryAllocations
    <2> QED
      BY <1>1, <2>3, <2>4, <2>6 DEF SkippingInv
  <1>9. ASSUME NEW w \in Containers, ApplyMemory(w) PROVE SkippingInv'
    <2>1. /\ call'.cpu = call.cpu
          /\ call'.allocs = call.allocs
          /\ call'.todo = call.todo \ {w}
          /\ call'.current = {}
          /\ call'.since = call.since
          /\ w \in call.current
      BY <1>3, <1>9 DEF ApplyMemory, Calls
    <2>2. /\ UNCHANGED <<file, writers, gen, asked, cpu, last, halfway>>
          /\ pc = "memory" /\ pc' = "apply"
      BY <1>9 DEF ApplyMemory, SetMemory
    <2>3. RoundsAreStarted' /\ \A c, b : Carries(c, b) => Carries(c, b)'
      BY <1>2, <2>2, RoundsUnchanged
    <2>4. CallsKnowRounds' /\ Agrees(cpu, last)'
      BY <1>2, <2>1, <2>2 DEF CallsKnowRounds, Agrees
    <2>5. \A v \in DOMAIN last' : AskedBefore(v)' => Carries(v, last[v])'
      BY <1>2, <2>1, <2>2, <2>3 DEF RoundsCarryAllocations, AskedBefore
    <2>6. \A v \in DOMAIN call'.allocs \ call'.todo : Carries(v, call.allocs[v])'
      BY <1>2, <2>1, <2>2, <2>3 DEF RoundsCarryAllocations
    <2>7. RoundsCarryAllocations'
      BY <1>2, <2>1, <2>2, <2>5, <2>6 DEF RoundsCarryAllocations, Agrees
    <2> QED
      BY <1>1, <2>3, <2>4, <2>7 DEF SkippingInv
  <1>10. ASSUME Commit PROVE SkippingInv'
    <2>1. /\ UNCHANGED <<file, writers, gen, asked, halfway>>
          /\ cpu' = call.cpu /\ last' = call.allocs /\ call.todo = {}
          /\ call'.since = 0 /\ call'.current = {} /\ pc = "apply" /\ pc' = "idle"
      BY <1>10 DEF Commit, cgroupVars, NoCall
    <2>2. RoundsAreStarted' /\ \A c, b : Carries(c, b) => Carries(c, b)'
      BY <1>2, <2>1, RoundsUnchanged
    <2>3. CallsKnowRounds' /\ Agrees(cpu, last)'
      BY <1>2, <1>3, <2>1 DEF CallsKnowRounds, Agrees, RoundsCarryAllocations
    <2>4. \A v \in DOMAIN last' : Carries(v, last[v])'
      BY <1>2, <2>1, <2>2 DEF RoundsCarryAllocations
    <2>5. RoundsCarryAllocations'
      BY <2>1, <2>4 DEF RoundsCarryAllocations
    <2> QED
      BY <1>1, <2>2, <2>3, <2>5 DEF SkippingInv
  <1>11. ASSUME RoundsAreStarted', UNCHANGED <<gen, asked, managerVars>>,
                \A c \in Containers : \A b : NewestCarries(c, b) => NewestCarries(c, b)'
         PROVE  SkippingInv'
    <2>1. /\ UNCHANGED <<gen, asked, cpu, last, pc, call, halfway>>
      BY <1>11 DEF managerVars
    <2>2. \A c \in Containers : \A b : Carries(c, b) => Carries(c, b)'
      BY <1>11, <2>1, StillCarries
    <2>3. CallsKnowRounds' /\ Agrees(cpu, last)'
      BY <1>2, <2>1 DEF CallsKnowRounds, Agrees
    <2>4. \A v \in DOMAIN last' : AskedBefore(v)' => Carries(v, last[v])'
      BY <1>2, <1>3, <2>1, <2>2 DEF RoundsCarryAllocations, AskedBefore
    <2>5. pc' \in {"apply", "memory"} =>
            \A v \in DOMAIN call'.allocs \ (call'.todo \ call'.current) :
              Carries(v, call.allocs[v])'
      BY <1>2, <1>3, <2>1, <2>2 DEF RoundsCarryAllocations
    <2>6. RoundsCarryAllocations'
      BY <1>2, <2>1, <2>4, <2>5 DEF RoundsCarryAllocations, AskedBefore, Agrees
    <2> QED
      BY <1>1, <1>11, <2>3, <2>6 DEF SkippingInv
  <1>12. ASSUME EndProcess PROVE SkippingInv'
    <2>1. Agrees(cpu, last)'
      BY <1>12, EmptyTypes DEF EndProcess, Agrees
    <2>2. RoundsCarryAllocations'
      BY <1>12, EmptyTypes DEF EndProcess, RoundsCarryAllocations, NoCall
    <2>3. RoundsAreStarted'
      BY <1>1, <1>12
      DEF EndProcess, SkippingInv, RoundsAreStarted, TypeOK, CgroupTypeOK
    <2>4. CallsKnowRounds'
      BY <1>3, <1>12 DEF EndProcess, CallsKnowRounds, NoCall
    <2> QED
      BY <1>1, <2>1, <2>2, <2>3, <2>4 DEF SkippingInv
  <1>13. ASSUME UNCHANGED <<file, writers, gen, asked, managerVars>>
         PROVE  SkippingInv'
    <2>1. RoundsAreStarted' /\ UNCHANGED <<gen, asked, managerVars>>
      BY <1>2, <1>13 DEF RoundsAreStarted
    <2>2. \A c \in Containers : \A b : NewestCarries(c, b) => NewestCarries(c, b)'
      BY <1>13 DEF NewestCarries
    <2> QED
      BY <1>11, <2>1, <2>2
  <1>14. CASE CallIsolate
    BY <1>4, <1>14 DEF CallIsolate
  <1>15. CASE Manager
    BY <1>5, <1>6, <1>7, <1>8, <1>9, <1>10, <1>15 DEF Manager, IsolateStep
  <1>16. CASE Writer
    <2>1. UNCHANGED <<gen, asked, managerVars>>
      BY <1>16 DEF Writer, WriterStep, WriteFile, WriteFails, RecordIsolated
    <2> QED
      BY <1>1, <1>2, <1>11, <1>16, <2>1, WriterKeepsRounds DEF Writer
  <1>17. CASE ReconcileFails \/ Crash
    BY <1>12, <1>17 DEF ReconcileFails, Crash
  <1>18. CASE Restart \/ UNCHANGED vars
    BY <1>13, <1>18 DEF Restart, cgroupVars, vars
  <1>19. CASE Runtime
    BY <1>13, <1>19 DEF Runtime, ContainerStarts, ContainerDies
  <1> QED
    BY <1>14, <1>15, <1>16, <1>17, <1>18, <1>19 DEF Next

\* The invariant holds at every moment.
LEMMA SkippingInvariant == Spec => []SkippingInv
  <1> QED
    BY InitSkipping, NextSkipping, PTL DEF Spec

\* Skipping the allocations that did not change never leaves a workload whose
\* newest writes carry anything but its current allocation.
THEOREM SkippingSound == Spec => []SkippingIsSound
  <1>1. SkippingInv => SkippingIsSound
    BY DEF SkippingInv, SkippingIsSound, RoundsCarryAllocations, AskedBefore, Agrees
  <1> QED
    BY <1>1, SkippingInvariant, PTL

\* When the reconciler ends the process, the container of some workload is gone,
\* its newest cpuset write is not the one in force, or it is of a failed call.
THEOREM SpuriousExitNever == Spec => NoSpuriousExit
  <1>1. SkippingInv /\ [Next]_vars => [ExitHasCause]_vars
    <2> SUFFICES ASSUME SkippingInv, ReconcileFails
                 PROVE  \E w \in WorkloadsOn(cpu) :
                          \/ ~HasCgroup(w)
                          \/ LeftHalfway(w)
                          \/ /\ file[w]["cpuset"].by # asked[w]
                             /\ \A t \in writers : t.c # w
      BY DEF ExitHasCause
    <2>1. PICK w \in WorkloadsOn(cpu) : GetCpuset(w) # CpusetOf(cpu, w)
      BY DEF ReconcileFails, Mismatched
    <2>2. /\ w \in DOMAIN last
          /\ last[w]["cpuset"] = CpusetOf(cpu, w)
          /\ Carries(w, last[w])
      BY <2>1 DEF ReconcileFails, SkippingInv, RoundsCarryAllocations, AskedBefore, Agrees
    <2>3. HasCgroup(w) /\ ~LeftHalfway(w) => file[w]["cpuset"].by # asked[w]
      BY <2>1, <2>2, CpusetIsAFile DEF GetCpuset, Carries, NewestCarries
    <2>4. writers = {}
      BY DEF ReconcileFails, HasPendingWork
    <2> QED
      BY <2>3, <2>4
  <1> QED
    BY <1>1, SkippingInvariant, PTL DEF Spec, NoSpuriousExit

-----------------------------------------------------------------------------
(* Reporting isolated workloads *)

\* No cpuset has been asked for at first.
LEMMA InitRecorded == Init => IsolationIsRecorded
  <1> SUFFICES ASSUME Init PROVE IsolationIsRecorded
    OBVIOUS
  <1>1. \A c \in Containers : asked[c] = 0 /\ file[c]["cpuset"].by = 0
    BY CpusetIsAFile DEF Init
  <1> QED
    BY <1>1 DEF IsolationIsRecorded, RecordedOrAboutToBe

\* Where the newest cpuset of a workload is in force the container stays recorded as
\* isolated, or a thread is about to record it, whoever is released meanwhile.
LEMMA NextRecorded == SettledInv /\ [Next]_vars => IsolationIsRecorded'
  <1> SUFFICES ASSUME SettledInv, [Next]_vars PROVE IsolationIsRecorded'
    OBVIOUS
  <1>1. /\ TypeOK /\ RoundsAreStarted /\ IsolationIsRecorded
        /\ CgroupTypeOK /\ gen \in Nat
    BY DEF SettledInv, SkippingInv, TypeOK, CgroupTypeOK
  <1>2. CASE CallIsolate
    \* only containers without a cgroup are released
    BY <1>1, <1>2
    DEF CallIsolate, BeginIsolate, ReleaseContainers, IsolationIsRecorded,
        RecordedOrAboutToBe, HasCgroup
  <1>3. CASE Manager
    <2>1. ASSUME NEW w \in Containers, NEW a, NEW fs, StartWriters(w, a, fs)
          PROVE  IsolationIsRecorded'
      <3>1. /\ container' = container /\ file' = file /\ isolated' = isolated
            /\ asked' = [asked EXCEPT ![w] = gen + 1]
            /\ writers \subseteq writers'
        BY <2>1 DEF StartWriters
      <3>2. \A c \in Containers : file[c]["cpuset"].by \in Nat
                                  /\ file[c]["cpuset"].by <= gen
        BY <1>1, CpusetIsAFile DEF CgroupTypeOK, Contents, RoundsAreStarted
      <3>3. file[w]["cpuset"].by # gen + 1
        BY <1>1, <3>2
      <3> QED
        BY <1>1, <3>1, <3>3
        DEF IsolationIsRecorded, RecordedOrAboutToBe, HasCgroup, CgroupTypeOK
    <2>2. ASSUME NEW w \in Containers, ApplyMemory(w)
          PROVE  IsolationIsRecorded'
      BY <1>1, <2>2
      DEF ApplyMemory, SetMemory, IsolationIsRecorded, RecordedOrAboutToBe,
          HasCgroup
    <2>3. ASSUME UNCHANGED cgroupVars
          PROVE  IsolationIsRecorded'
      BY <1>1, <2>3
      DEF cgroupVars, IsolationIsRecorded, RecordedOrAboutToBe, HasCgroup
    <2>4. CASE \E w \in Containers : Apply(w) \/ ApplyFails(w)
      <3> PICK w \in Containers : Apply(w) \/ ApplyFails(w)
        BY <2>4
      <3> PICK a : a = call.allocs[w]
        OBVIOUS
      <3>1. UNCHANGED cgroupVars \/ \E fs : StartWriters(w, a, fs)
        BY DEF Apply, ApplyFails
      <3> QED
        BY <2>1, <2>3, <3>1
    <2> QED
      BY <1>3, <2>2, <2>3, <2>4
      DEF Manager, IsolateStep, Allocate, AllocateFails, Commit
  <1>4. CASE Writer
    <2> PICK t \in writers : WriteFile(t) \/ WriteFails(t) \/ RecordIsolated(t)
      BY <1>4 DEF Writer, WriterStep
    <2>1. CASE WriteFile(t)
      <3>1. t \in WriterThreads
        BY <1>1 DEF CgroupTypeOK
      <3>2. /\ HasCgroup(t.c) /\ t.c \in Containers
            /\ container' = container /\ asked' = asked /\ isolated' = isolated
            /\ \E s \in writers' : s.c = t.c /\ s.st = "record"
        <4>1. [t EXCEPT !.st = "record"] \in writers'
          BY <2>1 DEF WriteFile
        <4>2. /\ [t EXCEPT !.st = "record"].c = t.c
              /\ [t EXCEPT !.st = "record"].st = "record"
              /\ t.c \in Containers
          BY <3>1 DEF WriterThreads
        <4> QED
          BY <2>1, <4>1, <4>2 DEF WriteFile
      <3>3. \A c \in Containers \ {t.c} :
              /\ file'[c] = file[c]
              /\ \A s \in writers : s.c = c => s \in writers'
        BY <1>1, <2>1, <3>1 DEF WriteFile, CgroupTypeOK
      <3> SUFFICES ASSUME NEW c \in Containers
                   PROVE  RecordedOrAboutToBe(c)'
        BY DEF IsolationIsRecorded
      <3>4. CASE c = t.c
        BY <3>2, <3>4 DEF RecordedOrAboutToBe, HasCgroup
      <3>5. CASE c # t.c
        BY <1>1, <3>2, <3>3, <3>5
        DEF IsolationIsRecorded, RecordedOrAboutToBe, HasCgroup
      <3> QED
        BY <3>4, <3>5
    <2>2. CASE WriteFails(t)
      BY <1>1, <2>2
      DEF WriteFails, IsolationIsRecorded, RecordedOrAboutToBe, HasCgroup
    <2>3. CASE RecordIsolated(t)
      BY <1>1, <2>3
      DEF RecordIsolated, IsolationIsRecorded, RecordedOrAboutToBe, HasCgroup
    <2> QED
      BY <2>1, <2>2, <2>3
  <1>5. CASE ReconcileFails \/ Crash
    BY <1>1, <1>5
    DEF ReconcileFails, Crash, EndProcess, IsolationIsRecorded,
        RecordedOrAboutToBe, HasCgroup
  <1>6. CASE Restart \/ UNCHANGED vars
    BY <1>1, <1>6
    DEF Restart, cgroupVars, vars, IsolationIsRecorded, RecordedOrAboutToBe,
        HasCgroup
  <1>7. CASE Runtime
    BY <1>1, <1>7
    DEF Runtime, ContainerStarts, ContainerDies, IsolationIsRecorded,
        RecordedOrAboutToBe, HasCgroup, CgroupTypeOK
  <1> QED
    BY <1>2, <1>3, <1>4, <1>5, <1>6, <1>7 DEF Next

\* Whatever order the writers run in, and wherever the process ends, a running
\* container whose newest cpuset is in force is recorded as isolated, or the thread
\* that wrote it is about to record it.
THEOREM SettledInvariant == Spec => []SettledInv
  <1>1. Init => SettledInv
    BY InitSkipping, InitRecorded DEF SettledInv
  <1>2. SettledInv /\ [Next]_vars => SettledInv'
    BY NextSkipping, NextRecorded DEF SettledInv
  <1> QED
    BY <1>1, <1>2, PTL DEF Spec

\* A running workload whose cpuset is in force, with no thread left to run, is
\* reported as isolated: is_isolated does not keep a container waiting forever.
THEOREM SettledWorkloadsAreIsolated == Spec => []SettledIsIsolated
  <1>1. SettledInv => SettledIsIsolated
    <2> SUFFICES ASSUME SettledInv, pc = "idle", ~HasPendingWork,
                        NEW w \in WorkloadsOn(cpu),
                        HasCgroup(w), file[w]["cpuset"].by = asked[w]
                 PROVE  w \in isolated
      BY DEF SettledIsIsolated
    <2>1. w \in Containers
      BY DEF SettledInv, SkippingInv, TypeOK, ManagerTypeOK, Cpus, WorkloadsOn
    <2>2. asked[w] # 0
      <3>1. Carries(w, last[w])
        BY DEF SettledInv, SkippingInv, RoundsCarryAllocations, AskedBefore, Agrees
      <3>2. 0 \notin halfway
        BY DEF SettledInv, SkippingInv, CallsKnowRounds, TypeOK, CgroupTypeOK
      <3> QED
        BY <3>1, <3>2 DEF Carries, LeftHalfway, NewestCarries
    <2>3. writers = {}
      BY DEF HasPendingWork
    <2> QED
      BY <2>1, <2>2, <2>3 DEF SettledInv, IsolationIsRecorded, RecordedOrAboutToBe
  <1> QED
    BY <1>1, SettledInvariant, PTL

-----------------------------------------------------------------------------
(* A call of isolate is one step *)

\* What a call is about to make of the workloads: it takes out containers that are
\* gone, and puts in containers that have started.
CallInv ==
    pc # "idle" =>
        /\ \A c \in workloads \ call.workloads : container[c] = "gone"
        /\ \A c \in call.workloads \ workloads : container[c] # "absent"

\* Between its steps the workloads stay, and so does what has become of the
\* containers.
LEMMA CallNext == TypeOK /\ CallInv /\ [Next]_vars => CallInv'
  <1> SUFFICES ASSUME TypeOK, CallInv, [Next]_vars PROVE CallInv'
    OBVIOUS
  <1> USE DEF CallInv, managerVars, cgroupVars
  <1>1. CASE CallIsolate
    BY <1>1 DEF CallIsolate, BeginIsolate, ReleaseContainers, NoCall
  <1>2. CASE Manager
    BY <1>2 DEF Manager, IsolateStep, Allocate, AllocateFails, Apply, ApplyFails,
                ApplyMemory, Commit,
                StartWriters, SetMemory, TypeOK, ManagerTypeOK, Calls
  <1>3. CASE Writer
    BY <1>3 DEF Writer, WriterStep, WriteFile, WriteFails, RecordIsolated
  <1>4. CASE ReconcileFails \/ Crash
    BY <1>4 DEF ReconcileFails, Crash, EndProcess
  <1>5. CASE Restart
    BY <1>5 DEF Restart
  <1>6. CASE Runtime
    <2> PICK d \in Containers : ContainerStarts(d) \/ ContainerDies(d)
      BY <1>6 DEF Runtime
    <2>1. \A c \in Containers : /\ container[c] = "gone" => container'[c] = "gone"
                                /\ container[c] # "absent" => container'[c] # "absent"
      BY DEF ContainerStarts, ContainerDies, TypeOK, CgroupTypeOK
    <2> QED
      BY <1>6, <2>1 DEF Runtime, TypeOK, ManagerTypeOK, Calls
  <1>7. CASE UNCHANGED vars
    BY <1>7 DEF vars
  <1> QED
    BY <1>1, <1>2, <1>3, <1>4, <1>5, <1>6, <1>7 DEF Next

\* Every step of the manager, its writers and its process is a step of WorkloadSet,
\* or none.
LEMMA StepOfSet ==
    TypeOK /\ CallInv /\ [Next]_vars => [IsolateIsOneStep!Next]_(IsolateIsOneStep!vars)
  <1> DEFINE Stutters == UNCHANGED <<container, workloads, process>>
  <1> SUFFICES ASSUME TypeOK, CallInv, [Next]_vars
               PROVE  IsolateIsOneStep!Next \/ Stutters
    BY DEF IsolateIsOneStep!vars
  <1> USE DEF managerVars, cgroupVars
  <1>1. CASE CallIsolate
    BY <1>1 DEF CallIsolate, BeginIsolate
  <1>2. CASE Manager
    <2>1. CASE Commit
      <3> DEFINE adds == call.workloads \ workloads
                 removes == workloads \ call.workloads
      <3>1. call.workloads \in SUBSET Containers /\ workloads \in SUBSET Containers
        BY DEF TypeOK, ManagerTypeOK, Calls
      <3>2. pc # "idle"
        BY <2>1 DEF Commit
      <3>3. adds \in SUBSET IsolateIsOneStep!Started /\ removes \in SUBSET IsolateIsOneStep!Gone
        BY <3>1, <3>2 DEF CallInv, IsolateIsOneStep!Started, IsolateIsOneStep!Gone
      <3>4. workloads' = (workloads \ removes) \cup adds
        BY <2>1 DEF Commit
      <3>5. process = "up" /\ UNCHANGED <<container, process>>
        BY <1>2, <2>1 DEF Manager, Commit
      <3> HIDE DEF adds, removes
      <3>6. IsolateIsOneStep!Isolate
        BY <3>3, <3>4, <3>5 DEF IsolateIsOneStep!Isolate
      <3> QED
        BY <3>6 DEF IsolateIsOneStep!Next
    <2>2. CASE ~Commit
      BY <1>2, <2>2 DEF Manager, IsolateStep, Allocate, AllocateFails, Apply, ApplyFails, ApplyMemory,
                        StartWriters, SetMemory
    <2> QED
      BY <2>1, <2>2
  <1>3. CASE Writer
    BY <1>3 DEF Writer, WriterStep, WriteFile, WriteFails, RecordIsolated
  <1>4. CASE ReconcileFails \/ Crash
    BY <1>4 DEF ReconcileFails, Crash, EndProcess, IsolateIsOneStep!Next,
                IsolateIsOneStep!ProcessEnds
  <1>5. CASE Restart
    BY <1>5 DEF Restart, IsolateIsOneStep!Next, IsolateIsOneStep!Restarts
  <1>6. CASE Runtime
    BY <1>6 DEF Runtime, ContainerStarts, ContainerDies, IsolateIsOneStep!Next,
                IsolateIsOneStep!Starts, IsolateIsOneStep!Dies
  <1>7. CASE UNCHANGED vars
    BY <1>7 DEF vars
  <1> QED
    BY <1>1, <1>2, <1>3, <1>4, <1>5, <1>6, <1>7 DEF Next

\* Isolation implements WorkloadSet: to its caller a call of isolate is one step,
\* which fails and changes nothing or has all of its effect, and no workload whose
\* container runs is lost but with the process (workload_manager.py:81-126).
THEOREM IsolateIsAtomic == Spec => ManagerKeepsWorkloads
  <1>1. Init => CallInv
    BY DEF Init, NewManager, CallInv
  <1>2. Init => IsolateIsOneStep!Init
    BY DEF Init, NewManager, IsolateIsOneStep!Init
  <1>3. Spec => []TypeOK
    BY TypeCorrect
  <1>4. Spec => [][IsolateIsOneStep!Next]_(IsolateIsOneStep!vars)
    BY <1>1, <1>3, CallNext, StepOfSet, PTL DEF Spec
  <1>5. Spec => IsolateIsOneStep!Init
    BY <1>2 DEF Spec
  <1> QED
    BY <1>4, <1>5 DEF ManagerKeepsWorkloads, IsolateIsOneStep!Spec

=============================================================================
