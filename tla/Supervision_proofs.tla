-------------------------- MODULE Supervision_proofs --------------------------
(***************************************************************************)
(* Proofs about Supervision: type correctness, and that the managers are   *)
(* built with another value than the one that is watched only if something *)
(* changed between the two reads.                                          *)
(***************************************************************************)
EXTENDS Supervision, TLAPS

-----------------------------------------------------------------------------
(* Type correctness, of the flags and of the rest *)

FlagsOK ==
    /\ alarm \in BOOLEAN
    /\ between \in BOOLEAN
    /\ isolated \in BOOLEAN
    /\ raised \in BOOLEAN

RestOK ==
    /\ value \in Values
    /\ service \in {"up", "failing", "refusing", "hung"}
    /\ changes \in 0 .. MaxChanges
    /\ faults \in 0 .. MaxFaults
    /\ stage \in Stages
    /\ watched \in Values \cup {NoValue}
    /\ chosen \in Values \cup {NoValue}
    /\ lock \in {"free", "held"}
    /\ answer \in {0, 200, 404, 500}

\* The types are those of the flags and those of the rest.
LEMMA TypeIsBoth == TypeOK <=> FlagsOK /\ RestOK
  BY DEF TypeOK, FlagsOK, RestOK

\* A process that starts has the types.
LEMMA InitType == Init => TypeOK
  <1>1. Init => FlagsOK
    BY Zenon DEF Init, FlagsOK
  <1>2. Init => RestOK
    BY BoundsAreNumbers DEF Init, RestOK, Stages
  <1> QED
    BY <1>1, <1>2, TypeIsBoth

\* A step sets a flag, resets it or leaves it.
Sets(flag, next) == next = TRUE \/ next = FALSE \/ next = flag

\* Whoever only sets and resets flags keeps their type.
LEMMA SetsFlags ==
    ASSUME FlagsOK, Sets(alarm, alarm'), Sets(between, between'),
           Sets(isolated, isolated'), Sets(raised, raised')
    PROVE  FlagsOK'
  BY Zenon DEF FlagsOK, Sets

\* Every step sets a flag, resets it or leaves it.
LEMMA FlagsNext == FlagsOK /\ [Next]_vars => FlagsOK'
  <1> SUFFICES ASSUME FlagsOK, [Next]_vars PROVE FlagsOK'
    OBVIOUS
  <1> USE SetsFlags DEF Sets, outsideVars, requestVars
  <1>1. ASSUME ValueChanges \/ ServiceFails \/ ServiceRecovers PROVE FlagsOK'
    <2>1. Disturbs /\ UNCHANGED <<alarm, isolated, raised>>
      BY <1>1 DEF ValueChanges, ServiceFails, ServiceRecovers
    <2>2. (between \/ stage = "choose") \in BOOLEAN
      OBVIOUS
    <2>3. between' \in BOOLEAN
      BY <2>1, <2>2, Zenon DEF Disturbs
    <2>4. between' = TRUE \/ between' = FALSE
      BY <2>3, Zenon
    <2> QED
      BY <2>1, <2>4
  <1>2. ASSUME Isolates \/ StartsAgain PROVE FlagsOK'
    BY <1>2 DEF Isolates, StartsAgain
  <1>3. ASSUME ReadAddress \/ WatchProperties \/ ChooseAllocator PROVE FlagsOK'
    BY <1>3 DEF ReadAddress, WatchProperties, ChooseAllocator
  <1>4. ASSUME EndProcess PROVE FlagsOK'
    BY <1>4 DEF EndProcess
  <1>5. ASSUME ListRaises \/ ListsContainers \/ FinishInit PROVE FlagsOK'
    BY <1>5 DEF ListRaises, ListsContainers, FinishInit
  <1>6. ASSUME Request PROVE FlagsOK'
    <2>1. ASSUME AnswerUnknown \/ AnswerIsolated \/ AnswerBusy PROVE FlagsOK'
      <3>1. UNCHANGED <<alarm, between, isolated, raised>>
        BY <2>1, Zenon DEF AnswerUnknown, AnswerIsolated, AnswerBusy
      <3> QED
        BY <3>1, Zenon
    <2>2. ASSUME AnswerRaises PROVE FlagsOK'
      <3>1. UNCHANGED <<alarm, between, isolated>> /\ raised' = TRUE
        BY <2>2, Zenon DEF AnswerRaises
      <3> QED
        BY <3>1, Zenon
    <2> QED
      BY <1>6, <2>1, <2>2, Zenon DEF Request
  <1>7. ASSUME UNCHANGED vars PROVE FlagsOK'
    BY <1>7 DEF vars
  <1> QED
    BY <1>1, <1>2, <1>3, <1>4, <1>5, <1>6, <1>7
    DEF Next, Boot, InitThread, Loop, BootFails, ConstructorRaises, AlarmFires,
        DetectChanges, LoopFails

\* The bound on faults is kept.
LEMMA FaultType ==
    ASSUME RestOK, Fault \/ UNCHANGED faults
    PROVE  faults' \in 0 .. MaxFaults
  BY BoundsAreNumbers DEF RestOK, Fault

\* Every step keeps the other types.
LEMMA RestNext == RestOK /\ [Next]_vars => RestOK'
  <1> SUFFICES ASSUME RestOK, [Next]_vars PROVE RestOK'
    OBVIOUS
  <1> USE DEF outsideVars, requestVars
  <1>1. ASSUME ValueChanges PROVE RestOK'
    BY <1>1, BoundsAreNumbers DEF RestOK, ValueChanges
  <1>2. ASSUME ServiceFails \/ ServiceRecovers PROVE RestOK'
    BY <1>2, FaultType DEF RestOK, ServiceFails, ServiceRecovers
  <1>3. ASSUME Isolates \/ StartsAgain PROVE RestOK'
    BY <1>3 DEF RestOK, Isolates, StartsAgain, Stages
  <1>4. ASSUME ReadAddress \/ WatchProperties \/ ChooseAllocator PROVE RestOK'
    BY <1>4 DEF RestOK, ReadAddress, WatchProperties, ChooseAllocator, CachesStr, Stages
  \* A process that ends leaves nothing behind, in whatever step it was.
  <1>5. ASSUME EndProcess, Fault \/ UNCHANGED faults PROVE RestOK'
    BY <1>5, FaultType DEF RestOK, EndProcess, Stages
  <1>6. ASSUME ListRaises \/ ListsContainers \/ FinishInit PROVE RestOK'
    BY <1>6, FaultType DEF RestOK, ListRaises, ListsContainers, FinishInit, Stages
  <1>7. ASSUME Request PROVE RestOK'
    BY <1>7, FaultType DEF RestOK, Request, AnswerUnknown, AnswerIsolated, AnswerBusy, AnswerRaises
  <1>8. ASSUME UNCHANGED vars PROVE RestOK'
    BY <1>8 DEF vars, RestOK
  <1> QED
    BY <1>1, <1>2, <1>3, <1>4, <1>5, <1>6, <1>7, <1>8
    DEF Next, Boot, InitThread, Loop, BootFails, ConstructorRaises, AlarmFires,
        DetectChanges, LoopFails

\* Every step keeps the types.
LEMMA NextType == TypeOK /\ [Next]_vars => TypeOK'
  BY FlagsNext, RestNext, TypeIsBoth DEF TypeOK, FlagsOK, RestOK

\* The process keeps its types, through any starts, changes and failures.
THEOREM TypeCorrect == Spec => []TypeOK
  BY InitType, NextType, PTL DEF Spec

-----------------------------------------------------------------------------
(* The two reads of the start *)

\* Between the two reads, as long as nothing outside has changed, a read would
\* bring what is watched; afterwards, what was chosen is what is watched.
TornInv ==
    /\ stage = "choose" => between \/ Reads(watched)
    /\ TornHasACause

\* Nothing has been read at first.
LEMMA TornInvInit == Init => TornInv
  BY DEF Init, TornInv, TornHasACause, Serving

\* One state of the property service has one answer.
LEMMA ReadsOnce ==
    ASSUME NEW v, NEW w, Reads(v), Reads(w)
    PROVE  v = w
  BY DEF Reads

\* Whatever changes the answer of the property service between the two reads is
\* recorded, and a restart reads both again.
LEMMA TornInvNext == TypeOK /\ TornInv /\ [Next]_vars => TornInv'
  <1> SUFFICES ASSUME TypeOK, TornInv, [Next]_vars PROVE TornInv'
    OBVIOUS
  <1> USE DEF TornInv, TornHasACause, Serving
  <1>1. ASSUME ValueChanges \/ ServiceFails \/ ServiceRecovers
        PROVE  TornInv'
    <2>1. UNCHANGED <<stage, watched, chosen>> /\ (stage = "choose" => between')
          /\ (between => between')
      BY <1>1 DEF ValueChanges, ServiceFails, ServiceRecovers, Disturbs
    <2> QED
      BY <2>1
  <1>2. ASSUME UNCHANGED <<value, service, stage, watched, chosen, between>>
        PROVE  TornInv'
    BY <1>2 DEF Reads
  <1>3. ASSUME Isolates \/ Request
        PROVE  TornInv'
    BY <1>2, <1>3 DEF Isolates, Request, AnswerUnknown, AnswerIsolated, AnswerRaises,
                      AnswerBusy, outsideVars
  <1>4. ASSUME stage' \in {"down", "boot", "watch"}
        PROVE  TornInv'
    BY <1>4
  <1>5. ASSUME StartsAgain \/ ReadAddress
        PROVE  TornInv'
    BY <1>4, <1>5 DEF StartsAgain, ReadAddress
  <1>6. ASSUME BootFails \/ ConstructorRaises \/ AlarmFires \/ DetectChanges \/ LoopFails
        PROVE  TornInv'
    BY <1>4, <1>6 DEF BootFails, ConstructorRaises, AlarmFires, DetectChanges, LoopFails, EndProcess
  \* The first read: what it brings is what a read brings.
  <1>7. CASE WatchProperties
    <2>1. PICK v \in Values \cup {NoValue} : Reads(v) /\ watched' = v
      BY <1>7 DEF WatchProperties, CachesStr
    <2>2. Reads(watched)' /\ stage' = "choose"
      BY <1>7, <2>1 DEF WatchProperties, Reads, outsideVars
    <2> QED
      BY <2>2
  \* The second read: it brings the same, unless something has changed.
  <1>8. CASE ChooseAllocator
    <2>1. /\ stage = "choose" /\ stage' = "list"
          /\ Reads(chosen') /\ UNCHANGED <<watched, between>>
      BY <1>8 DEF ChooseAllocator
    <2>2. between \/ chosen' = watched
      BY <2>1, ReadsOnce
    <2> QED
      BY <2>1, <2>2
  <1>9. ASSUME ListRaises \/ ListsContainers \/ FinishInit
        PROVE  TornInv'
    <2>1. /\ Serving /\ stage' # "choose"
          /\ UNCHANGED <<watched, chosen, between>>
      BY <1>9 DEF ListRaises, ListsContainers, FinishInit
    <2> QED
      BY <2>1
  <1>10. CASE UNCHANGED vars
    BY <1>2, <1>10 DEF vars
  <1> QED
    BY <1>1, <1>3, <1>5, <1>6, <1>7, <1>8, <1>9, <1>10 DEF Next, Boot, InitThread, Loop

\* Whatever changes and fails, and however often the agent starts: the managers
\* are built with another value than the one that is watched only if the property
\* or the service changed between the two reads.
THEOREM TornOnlyBetweenReads == Spec => []TornHasACause
  <1>1. TornInv => TornHasACause
    BY DEF TornInv
  <1> QED
    BY <1>1, TornInvInit, TornInvNext, TypeCorrect, PTL DEF Spec

=============================================================================
