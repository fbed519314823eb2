--------------------------- MODULE Telemetry_proofs ---------------------------
(***************************************************************************)
(* Proofs about EventLog: type correctness, that every message is in one   *)
(* place, and that the collector stores a message twice only if it has     *)
(* refused it.  And about UsagePrediction: type correctness, that usage is *)
(* whole or empty, that a request has the newest samples, and that what is *)
(* published is the sum over the tasks of the answer.                      *)
(***************************************************************************)
EXTENDS EventLog, UsagePrediction, FiniteSetTheorems, WellFoundedInduction, TLAPS

-----------------------------------------------------------------------------
(* Types of the event log *)

\* A new event log has the types.
LEMMA InitType == LogInit => LogTypeOK
  <1> SUFFICES ASSUME LogInit PROVE LogTypeOK
    OBVIOUS
  <1>1. enabled \in BOOLEAN /\ stuck \in BOOLEAN
    BY Zenon DEF LogInit
  <1> QED
    BY <1>1, RefusalsAreBounded DEF LogInit, LogTypeOK

\* What the collector stores of a message is counted, of the others it is kept.
LEMMA CollectsType ==
    ASSUME LogTypeOK, sending # NoMessage, NEW stored \in BOOLEAN, Collects(stored)
    PROVE  /\ collected' \in [Messages -> Nat]
           /\ \A m \in Messages \ {sending} : collected'[m] = collected[m]
           /\ collected'[sending] \in {collected[sending], collected[sending] + 1}
  BY DEF LogTypeOK, Collects

\* A request of the thread ends, one way or the other.
LEMMA SendType ==
    ASSUME LogTypeOK, Send
    PROVE  /\ sending # NoMessage /\ ~stuck /\ sending' = NoMessage
           /\ UNCHANGED <<enabled, stuck, reported>>
           /\ collected' \in [Messages -> Nat]
           /\ \A m \in Messages \ {sending} : collected'[m] = collected[m]
           /\ collected'[sending] \in {collected[sending], collected[sending] + 1}
  <1>1. CASE Accepted
    <2>1. TRUE \in BOOLEAN /\ sending # NoMessage /\ Collects(TRUE)
      BY <1>1 DEF Accepted
    <2>2. /\ collected' \in [Messages -> Nat]
          /\ \A m \in Messages \ {sending} : collected'[m] = collected[m]
          /\ collected'[sending] \in {collected[sending], collected[sending] + 1}
      BY <2>1, CollectsType
    <2> QED
      BY <1>1, <2>2 DEF Accepted
  <1>2. CASE Refused
    BY <1>2, CollectsType DEF Refused
  <1>3. CASE Raises
    BY <1>3, CollectsType DEF Raises
  <1> QED
    BY <1>1, <1>2, <1>3 DEF Send

\* Every step of the callers, the thread and the collector keeps the types.
LEMMA NextType == LogTypeOK /\ [LogNext]_logVars => LogTypeOK'
  <1> SUFFICES ASSUME LogTypeOK, [LogNext]_logVars PROVE LogTypeOK'
    OBVIOUS
  <1>1. ASSUME NEW m \in Messages, ReportEvent(m)
        PROVE  LogTypeOK'
    BY <1>1 DEF ReportEvent, LogTypeOK
  <1>2. CASE Take
    BY <1>2 DEF Take, LogTypeOK
  <1>3. CASE Send
    <2>1. sending \in Messages
      BY <1>3, SendType DEF LogTypeOK
    <2>4. /\ enabled' \in BOOLEAN /\ stuck' \in BOOLEAN /\ sending' = NoMessage
          /\ collected' \in [Messages -> Nat] /\ reported' = reported
      BY <1>3, SendType DEF LogTypeOK
    <2>2. CASE Accepted \/ Raises
      <3>1. succeeded \in Nat /\ failed \in Nat
        BY DEF LogTypeOK
      <3>2. /\ succeeded' \in {succeeded, succeeded + 1} /\ failed' \in {failed, failed + 1}
            /\ UNCHANGED <<q, retried, answered>>
        BY <2>2 DEF Accepted, Raises
      <3> QED
        BY <2>4, <3>1, <3>2 DEF LogTypeOK
    <2>3. CASE Refused
      <3>1. retried' \in 0 .. MaxRefusals
        BY <2>3, RefusalsAreBounded DEF Refused, LogTypeOK
      <3>2. q' \in Seq(Messages) /\ answered' \in SUBSET Messages
        BY <2>1, <2>3 DEF Refused, LogTypeOK
      <3>3. succeeded' = succeeded /\ failed' = failed
        BY <2>3 DEF Refused
      <3> QED
        BY <2>4, <3>1, <3>2, <3>3 DEF LogTypeOK
    <2> QED
      BY <1>3, <2>2, <2>3 DEF Send
  <1>4. CASE Hangs
    <2>1. collected' \in [Messages -> Nat]
      BY <1>4, CollectsType DEF Hangs
    <2>2. stuck' \in BOOLEAN
      BY <1>4, Zenon DEF Hangs
    <2> QED
      BY <1>4, <2>1, <2>2 DEF Hangs, LogTypeOK
  <1>5. CASE UNCHANGED logVars
    BY <1>5 DEF logVars, LogTypeOK
  <1> QED
    BY <1>1, <1>2, <1>3, <1>4, <1>5 DEF LogNext

\* The event log keeps its types.
THEOREM LogTypeCorrect == LogSpec => []LogTypeOK
  BY InitType, NextType, PTL DEF LogSpec

-----------------------------------------------------------------------------
(* Every message is in one place *)

\* Without an address nothing is ever sent.
Placed == succeeded + failed + InHand

PlacesInv ==
    /\ enabled => Placed = Cardinality(reported)
    /\ ~enabled => Placed <= Cardinality(reported) /\ succeeded = 0 /\ sending = NoMessage

\* Nothing is reported and nothing is in any place at first.
LEMMA PlacesInit == LogInit => PlacesInv
  BY FS_EmptySet DEF LogInit, PlacesInv, Placed, InHand

\* A message that is reported for the first time makes one more.
LEMMA ReportedGrows ==
    ASSUME LogTypeOK, NEW m \in Messages \ reported
    PROVE  /\ Cardinality(reported) \in Nat
           /\ Cardinality(reported \cup {m}) = Cardinality(reported) + 1
  <1>1. IsFiniteSet(reported)
    BY MessagesAreFinite, FS_Subset DEF LogTypeOK
  <1> QED
    BY <1>1, FS_CardinalityType, FS_AddElement

\* What a step puts in one place it takes from another.
LEMMA PlacesNext == LogTypeOK /\ PlacesInv /\ [LogNext]_logVars => PlacesInv'
  <1> SUFFICES ASSUME LogTypeOK, PlacesInv, [LogNext]_logVars PROVE PlacesInv'
    OBVIOUS
  <1>1. /\ q \in Seq(Messages) /\ sending \in Messages \cup {NoMessage}
        /\ succeeded \in Nat /\ failed \in Nat /\ Cardinality(reported) \in Nat
    BY MessagesAreFinite, FS_Subset, FS_CardinalityType DEF LogTypeOK
  <1>7. InHand \in Nat /\ Placed \in Nat
    <2>1. Len(q) \in Nat
      BY <1>1
    <2>2. InHand = Len(q) \/ InHand = Len(q) + 1
      BY <2>1 DEF InHand
    <2> QED
      BY <1>1, <2>1, <2>2 DEF Placed
  <1>2. enabled' <=> enabled
    <2>1. enabled' = enabled
      BY DEF LogNext, ReportEvent, Take, Send, Accepted, Refused, Raises, Hangs, logVars
    <2> QED
      BY <2>1
  <1>3. ASSUME NEW m \in Messages, ReportEvent(m)
        PROVE  PlacesInv'
    <2>1. /\ Cardinality(reported') = Cardinality(reported) + 1
          /\ UNCHANGED <<sending, succeeded>>
      BY <1>3, ReportedGrows DEF ReportEvent
    <2>2. Len(q') = Len(q) + 1 /\ Len(q) \in Nat
      BY <1>1, <1>3 DEF ReportEvent
    <2>3. Placed' = Placed + 1
      <3>1. InHand' = InHand + 1
        BY <1>3, <2>2 DEF ReportEvent, InHand
      <3> QED
        BY <1>1, <1>3, <1>7, <3>1 DEF ReportEvent, Placed
    <2> QED
      BY <1>1, <1>2, <1>7, <2>1, <2>3 DEF PlacesInv
  <1>4. CASE Take
    <2>1. Len(q') = Len(q) - 1 /\ Len(q) \in Nat /\ sending = NoMessage /\ Head(q) # NoMessage
      BY <1>1, <1>4, NoMessageIsNone DEF Take
    <2>2. UNCHANGED <<reported, succeeded, failed>>
      BY <1>4 DEF Take
    <2>3. CASE enabled
      <3>1. Placed' = Placed
        BY <1>1, <1>4, <2>1, <2>2, <2>3 DEF Take, Placed, InHand
      <3> QED
        BY <1>2, <2>2, <2>3, <3>1 DEF PlacesInv
    <2>4. CASE ~enabled
      <3>1. Placed' = Placed - 1 /\ sending' = NoMessage
        BY <1>1, <1>4, <2>1, <2>2, <2>4 DEF Take, Placed, InHand
      <3> QED
        BY <1>1, <1>2, <1>7, <2>2, <2>4, <3>1 DEF PlacesInv
    <2> QED
      BY <2>3, <2>4
  <1>5. CASE Send
    <2>1. sending # NoMessage /\ sending' = NoMessage /\ reported' = reported
      BY <1>5, SendType
    <2>2. Placed' = Placed
      <3>1. CASE Accepted
        BY <1>1, <2>1, <3>1 DEF Accepted, Placed, InHand
      <3>2. CASE Refused
        <4>1. sending \in Messages
          BY <1>1, <2>1
        <4>2. Len(q') = Len(q) + 1
          BY <1>1, <3>2, <4>1 DEF Refused
        <4> QED
          BY <1>1, <2>1, <3>2, <4>2 DEF Refused, Placed, InHand
      <3>3. CASE Raises
        BY <1>1, <2>1, <3>3 DEF Raises, Placed, InHand
      <3> QED
        BY <1>5, <3>1, <3>2, <3>3 DEF Send
    <2>3. enabled
      BY <2>1 DEF PlacesInv
    <2> QED
      BY <1>2, <2>1, <2>2, <2>3 DEF PlacesInv
  <1>6. CASE Hangs \/ UNCHANGED logVars
    BY <1>2, <1>6 DEF Hangs, logVars, PlacesInv, Placed, InHand
  <1> QED
    BY <1>3, <1>4, <1>5, <1>6 DEF LogNext

\* Every message that was reported is sent, failed or waiting, once; for any
\* number of messages and refusals.
THEOREM NoMessageIsLost == LogSpec => []MessagesAreAccountedFor
  <1>1. PlacesInv => MessagesAreAccountedFor
    <2>1. CASE enabled
      BY <2>1 DEF PlacesInv, Placed, MessagesAreAccountedFor
    <2>2. CASE ~enabled
      BY <2>2 DEF PlacesInv, Placed, MessagesAreAccountedFor
    <2> QED
      BY <2>1, <2>2
  <1> QED
    BY <1>1, PlacesInit, PlacesNext, LogTypeCorrect, PTL DEF LogSpec

-----------------------------------------------------------------------------
(* A message is stored twice only if it was refused *)

\* A message that was never refused is in one place, and the collector has it
\* only once the thread is through with it, or hangs in its request.
InQueue(m) == \E i \in DOMAIN q : q[i] = m
OnceInQueue(m) == \A i, j \in DOMAIN q : q[i] = m /\ q[j] = m => i = j

Once(m) ==
    /\ m \notin reported => collected[m] = 0
    /\ InQueue(m) => m \in reported /\ sending # m /\ collected[m] = 0
    /\ OnceInQueue(m)
    /\ sending = m => m \in reported /\ (~stuck => collected[m] = 0)
    /\ collected[m] <= 1

OnceInv == \A m \in Messages : m \notin answered => Once(m)

\* No message is anywhere at first.
LEMMA OnceInit == LogInit => OnceInv
  BY NoMessageIsNone DEF LogInit, OnceInv, Once, InQueue, OnceInQueue

\* What putting a message at the back of the queue and taking the first one off
\* does to the places of the messages.
LEMMA AppendIsOnce ==
    ASSUME q \in Seq(Messages), NEW m \in Messages, NEW n \in Messages,
           q' = Append(q, n)
    PROVE  /\ InQueue(m)' <=> InQueue(m) \/ n = m
           /\ OnceInQueue(m) /\ (n = m => ~InQueue(m)) => OnceInQueue(m)'
  <1>1. /\ DOMAIN q = 1 .. Len(q) /\ DOMAIN q' = 1 .. Len(q) + 1 /\ Len(q) \in Nat
        /\ \A i \in DOMAIN q : q'[i] = q[i]
        /\ q'[Len(q) + 1] = n
    OBVIOUS
  <1>2. \A i \in DOMAIN q' : i \in DOMAIN q \/ i = Len(q) + 1
    BY <1>1
  <1>3. \A i \in DOMAIN q : i \in DOMAIN q'
    BY <1>1
  <1>4. Len(q) + 1 \in DOMAIN q'
    BY <1>1
  <1>5. InQueue(m)' <=> InQueue(m) \/ n = m
    BY <1>1, <1>2, <1>3, <1>4 DEF InQueue
  <1>6. OnceInQueue(m) /\ (n = m => ~InQueue(m)) => OnceInQueue(m)'
    BY <1>1, <1>2 DEF InQueue, OnceInQueue
  <1> QED
    BY <1>5, <1>6

\* The message that is taken is no longer waiting, if it waited once.
LEMMA TailIsOnce ==
    ASSUME q \in Seq(Messages), q # <<>>, NEW m \in Messages, q' = Tail(q)
    PROVE  /\ InQueue(m) <=> InQueue(m)' \/ Head(q) = m
           /\ OnceInQueue(m) => OnceInQueue(m)' /\ (Head(q) = m => ~InQueue(m)')
  <1>1. /\ DOMAIN q = 1 .. Len(q) /\ DOMAIN q' = 1 .. Len(q) - 1 /\ Len(q) \in Nat \ {0}
        /\ \A i \in DOMAIN q' : i + 1 \in DOMAIN q /\ q'[i] = q[i + 1]
        /\ Head(q) = q[1]
    OBVIOUS
  <1>2. \A i \in DOMAIN q : i = 1 \/ (i - 1 \in DOMAIN q' /\ q[i] = q'[i - 1])
    BY <1>1
  <1>3. InQueue(m) <=> InQueue(m)' \/ Head(q) = m
    <2>1. 1 \in DOMAIN q
      BY <1>1
    <2> QED
      BY <1>1, <1>2, <2>1 DEF InQueue
  <1>4. OnceInQueue(m) => OnceInQueue(m)'
    BY <1>1 DEF OnceInQueue
  <1>5. OnceInQueue(m) => (Head(q) = m => ~InQueue(m)')
    BY <1>1 DEF InQueue, OnceInQueue
  <1> QED
    BY <1>3, <1>4, <1>5

\* Unless the collector refuses it, a message stays in at most one place, where no
\* step can make two of it.
LEMMA OnceNext == LogTypeOK /\ OnceInv /\ [LogNext]_logVars => OnceInv'
  <1> SUFFICES ASSUME LogTypeOK, OnceInv, [LogNext]_logVars,
                      NEW m \in Messages, m \notin answered'
               PROVE  Once(m)'
    BY DEF OnceInv
  <1>1. answered \subseteq answered'
    BY DEF LogNext, ReportEvent, Take, Send, Accepted, Refused, Raises, Hangs, logVars
  <1>2. /\ q \in Seq(Messages) /\ collected[m] \in Nat /\ m # NoMessage
        /\ Once(m)
    BY <1>1, NoMessageIsNone DEF LogTypeOK, OnceInv
  <1>3. ASSUME NEW n \in Messages, ReportEvent(n)
        PROVE  Once(m)'
    <2>1. /\ n \notin reported /\ reported' = reported \cup {n} /\ q' = Append(q, n)
          /\ UNCHANGED <<sending, collected>>
      BY <1>3 DEF ReportEvent
    <2>2. stuck' <=> stuck
      BY <1>3, Zenon DEF ReportEvent
    <2> QED
      BY <1>2, <2>1, <2>2, AppendIsOnce DEF Once
  <1>4. CASE Take
    <2>1. /\ q # <<>> /\ q' = Tail(q) /\ sending = NoMessage
          /\ sending' \in {Head(q), NoMessage}
          /\ UNCHANGED <<reported, collected>>
      BY <1>4 DEF Take
    <2>2. stuck' <=> stuck
      BY <1>4, Zenon DEF Take
    <2> QED
      BY <1>2, <2>1, <2>2, TailIsOnce DEF Once
  <1>5. CASE Send
    <2>1. /\ sending \in Messages /\ sending' = NoMessage
          /\ reported' = reported /\ ~stuck
          /\ \A n \in Messages \ {sending} : collected'[n] = collected[n]
          /\ collected'[sending] \in {collected[sending], collected[sending] + 1}
      BY <1>5, SendType DEF LogTypeOK
    <2>2. q' = q \/ (q' = Append(q, sending) /\ sending # m)
      BY <1>5 DEF Send, Accepted, Refused, Raises
    <2>3. (InQueue(m)' <=> InQueue(m)) /\ OnceInQueue(m)'
      <3>1. CASE q' = q
        BY <1>2, <3>1 DEF Once, InQueue, OnceInQueue
      <3>2. CASE q' = Append(q, sending) /\ sending # m
        BY <1>2, <2>1, <3>2, AppendIsOnce DEF Once
      <3> QED
        BY <2>2, <3>1, <3>2
    <2>4. CASE sending = m
      BY <1>2, <2>1, <2>3, <2>4 DEF Once
    <2>5. CASE sending # m
      BY <1>2, <2>1, <2>3, <2>5 DEF Once
    <2> QED
      BY <2>4, <2>5
  \* The request that hangs may have been stored: nothing else is sent after it.
  <1>6. CASE Hangs
    <2>1. /\ sending \in Messages /\ UNCHANGED <<q, sending, reported>>
          /\ \A n \in Messages \ {sending} : collected'[n] = collected[n]
          /\ collected'[sending] \in {collected[sending], collected[sending] + 1}
      BY <1>6, CollectsType DEF Hangs, LogTypeOK
    <2>2. ~stuck /\ stuck'
      BY <1>6, Zenon DEF Hangs
    <2>3. (InQueue(m)' <=> InQueue(m)) /\ (OnceInQueue(m)' <=> OnceInQueue(m))
      BY <2>1 DEF InQueue, OnceInQueue
    <2>4. CASE sending = m
      BY <1>2, <2>1, <2>2, <2>3, <2>4 DEF Once
    <2>5. CASE sending # m
      BY <1>2, <2>1, <2>2, <2>3, <2>5 DEF Once
    <2> QED
      BY <2>4, <2>5
  <1>7. CASE UNCHANGED logVars
    <2>1. UNCHANGED <<q, sending, reported, collected>>
      BY <1>7 DEF logVars
    <2>2. stuck' <=> stuck
      BY <1>7, Zenon DEF logVars
    <2>3. (InQueue(m)' <=> InQueue(m)) /\ (OnceInQueue(m)' <=> OnceInQueue(m))
      BY <2>1 DEF InQueue, OnceInQueue
    <2> QED
      BY <1>2, <2>1, <2>2, <2>3 DEF Once
  <1> QED
    BY <1>3, <1>4, <1>5, <1>6, <1>7 DEF LogNext

\* The collector stores a message more than once only if it has refused it: a
\* message whose sending raises is not sent again.
THEOREM StoredTwiceOnlyIfRefused == LogSpec => []DuplicatesWereRefused
  <1>1. LogTypeOK /\ OnceInv => DuplicatesWereRefused
    BY DEF LogTypeOK, OnceInv, Once, DuplicatesWereRefused
  <1> QED
    BY <1>1, OnceInit, OnceNext, LogTypeCorrect, PTL DEF LogSpec

-----------------------------------------------------------------------------
(* The usage of a request *)

\* While resources are asked for no query has raised, and a list of answers is one
\* answer, some series, for each resource asked for so far.
QueriesInv ==
    /\ answers \in Seq(Answers)
    /\ usageFailures \in Nat
    /\ stage = "querying" => usageFailures = 0
    /\ UsageIsWholeOrEmpty

\* Nothing is asked for at first.
LEMMA QueriesInit == UsageInit => QueriesInv
  BY DEF UsageInit, QueriesInv, UsageIsWholeOrEmpty

\* An answer is a list of series, each of a task.
LEMMA AnswerType ==
    ASSUME NEW a \in Answers
    PROVE  /\ DOMAIN a = {} => a = <<>>
           /\ a = <<>> => DOMAIN a = {}
  <1>1. PICK m \in 0 .. MaxSeries : a \in [1 .. m -> [task : Workloads, values : Series]]
    BY DEF Answers, BoundedSeq, SeqOf
  <1> QED
    BY <1>1

\* What is made of the answers has every task of every one of them.
LEMMA BuildsAll ==
    ASSUME QueriesInv, BuildUsage
    PROVE  \A i \in DOMAIN answers : \A k \in DOMAIN answers[i] :
              /\ Resources[i] \in DOMAIN usage'
              /\ answers[i][k].task \in DOMAIN usage'[Resources[i]]
  <1> DEFINE named == {i \in DOMAIN answers : answers[i] # <<>>}
             Of(r) == CHOOSE i \in named : Resources[i] = r
             Dict(r) == ToDict(answers[Of(r)])
  <1>1. usage' = [r \in {Resources[i] : i \in named} |-> [w \in DOMAIN Dict(r) |-> Pad(Dict(r)[w])]]
    BY Zenon DEF BuildUsage
  <1>2. answers \in Seq(Answers) /\ DOMAIN answers = 1 .. Len(Resources)
    BY DEF BuildUsage, QueriesInv
  <1>3. ASSUME NEW i \in DOMAIN answers, NEW k \in DOMAIN answers[i]
        PROVE  /\ Resources[i] \in DOMAIN usage'
               /\ answers[i][k].task \in DOMAIN usage'[Resources[i]]
    <2>1. i \in named
      <3>1. answers[i] \in Answers /\ DOMAIN answers[i] # {}
        BY <1>2
      <3> QED
        BY <3>1, AnswerType
    <2>2. Of(Resources[i]) = i
      <3>1. \A j \in named : Resources[j] = Resources[i] => j = i
        BY <1>2, ResourcesDiffer
      <3> QED
        BY <2>1, <3>1
    <2>3. DOMAIN Dict(Resources[i]) = {answers[i][n].task : n \in DOMAIN answers[i]}
      BY <2>2 DEF ToDict
    <2> HIDE DEF named, Dict
    <2>4. Resources[i] \in {Resources[j] : j \in named}
      BY <2>1
    <2>5. DOMAIN usage'[Resources[i]] = DOMAIN Dict(Resources[i])
      BY <1>1, <2>4
    <2> QED
      BY <1>1, <2>3, <2>4, <2>5
  <1> QED
    BY <1>3

\* Every step keeps the invariant.
LEMMA QueriesNext == QueriesInv /\ [UsageNext]_usageVars => QueriesInv'
  <1> SUFFICES ASSUME QueriesInv, [UsageNext]_usageVars PROVE QueriesInv'
    OBVIOUS
  <1> USE DEF QueriesInv
  <1>1. CASE QueryAnswered
    BY <1>1 DEF QueryAnswered, UsageIsWholeOrEmpty
  <1>2. CASE BuildUsage
    <2>1. /\ UNCHANGED <<answers, usageFailures>> /\ usageFailures = 0
          /\ stage' = "built"
      BY <1>2 DEF BuildUsage
    <2> QED
      BY <1>2, <2>1, BuildsAll DEF UsageIsWholeOrEmpty
  <1>3. CASE QueryRaises
    BY <1>3 DEF QueryRaises, UsageIsWholeOrEmpty
  <1>4. CASE SendRequest
    BY <1>4 DEF SendRequest, UsageIsWholeOrEmpty
  <1>5. CASE Predicted
    BY <1>5 DEF Predicted, UsageIsWholeOrEmpty
  <1>6. CASE UNCHANGED usageVars
    BY <1>6 DEF usageVars, UsageIsWholeOrEmpty
  <1> QED
    BY <1>1, <1>2, <1>3, <1>4, <1>5, <1>6 DEF UsageNext

\* For any resources, workloads and answers: the usage of a request has all that was
\* answered, or nothing, and then a failure was counted
\* (workload_monitor_manager.py:24).
THEOREM UsageIsNeverInParts == UsageSpec => []UsageIsWholeOrEmpty
  <1>1. QueriesInv => UsageIsWholeOrEmpty
    BY DEF QueriesInv
  <1> QED
    BY <1>1, QueriesInit, QueriesNext, PTL DEF UsageSpec

-----------------------------------------------------------------------------
(* Induction *)

\* Induction on a set of natural numbers.
LEMMA Induction ==
    ASSUME NEW N \in Nat, NEW T, 0 \in T, \A n \in 1 .. N : n - 1 \in T => n \in T
    PROVE  \A n \in 0 .. N : n \in T
  <1> DEFINE F == {n \in 0 .. N : n \notin T}
  <1>1. SUFFICES ASSUME F # {} PROVE FALSE
    OBVIOUS
  <1>2. F \in SUBSET Nat
    OBVIOUS
  <1>3. PICK x \in F : \A y \in F : ~ (<<y, x>> \in OpToRel(<, Nat))
    BY <1>1, <1>2, NatLessThanWellFounded, WFMin
  <1>4. \A y \in F : ~ (y < x)
    BY <1>2, <1>3 DEF OpToRel
  <1>5. x \in 1 .. N /\ x - 1 \in 0 .. N /\ x - 1 < x
    <2>1. x \in 0 .. N /\ x # 0
      BY <1>3
    <2> QED
      BY <2>1
  <1> QED
    BY <1>3, <1>4, <1>5

-----------------------------------------------------------------------------
(* Padding *)

\* The last of the first n values, as many as a request has.
Newest(values, n) ==
    IF n < UsageLength THEN [j \in 1 .. n |-> values[j]]
    ELSE [j \in 1 .. UsageLength |-> values[n - UsageLength + j]]

\* Putting one more value in the deque keeps the newest ones in it.
LEMMA NewestGrows ==
    ASSUME NEW values, NEW n \in Nat \ {0}
    PROVE  Newest(values, n) =
              IF Len(Newest(values, n - 1)) = UsageLength
              THEN Append(Tail(Newest(values, n - 1)), values[n])
              ELSE Append(Newest(values, n - 1), values[n])
  <1> DEFINE d == Newest(values, n - 1)
  <1>1. UsageLength \in Nat \ {0}
    BY UsageAssumption
  <1>2. CASE n - 1 < UsageLength
    <2>1. d = [j \in 1 .. n - 1 |-> values[j]]
      BY <1>2 DEF Newest
    <2>2. d \in Seq({values[j] : j \in 1 .. n}) /\ Len(d) = n - 1
      BY <2>1
    <2>3. Append(d, values[n]) = [j \in 1 .. n |-> values[j]]
      <3>1. DOMAIN Append(d, values[n]) = 1 .. n
        BY <2>2
      <3>2. \A j \in 1 .. n : Append(d, values[n])[j] = values[j]
        BY <2>1, <2>2
      <3>3. Append(d, values[n]) = [j \in 1 .. n |-> Append(d, values[n])[j]]
        BY <2>2, <3>1
      <3> QED
        BY <3>2, <3>3
    <2>4. Newest(values, n) = [j \in 1 .. n |-> values[j]]
      <3>1. CASE n < UsageLength
        BY <3>1 DEF Newest
      <3>2. CASE n = UsageLength
        BY <3>2, <1>1 DEF Newest
      <3> QED
        BY <1>1, <1>2, <3>1, <3>2
    <2>5. Len(d) # UsageLength
      BY <1>2, <2>2, <1>1
    <2> QED
      BY <2>3, <2>4, <2>5
  <1>3. CASE n - 1 >= UsageLength
    <2>1. d = [j \in 1 .. UsageLength |-> values[n - 1 - UsageLength + j]]
      BY <1>1, <1>3 DEF Newest
    <2>2. d \in Seq({values[j] : j \in 1 .. n}) /\ Len(d) = UsageLength
      <3>1. \A j \in 1 .. UsageLength : n - 1 - UsageLength + j \in 1 .. n
        BY <1>1, <1>3
      <3> QED
        BY <1>1, <2>1, <3>1
    <2>3. Append(Tail(d), values[n]) = [j \in 1 .. UsageLength |-> values[n - UsageLength + j]]
      <3> DEFINE t == Tail(d)
                 a == Append(t, values[n])
      <3>1. t \in Seq({values[j] : j \in 1 .. n}) /\ Len(t) = UsageLength - 1
            /\ \A j \in 1 .. UsageLength - 1 : t[j] = d[j + 1]
        BY <1>1, <2>2
      <3>2. a \in Seq({values[j] : j \in 1 .. n}) /\ Len(a) = UsageLength
            /\ a[UsageLength] = values[n] /\ \A j \in 1 .. UsageLength - 1 : a[j] = t[j]
        BY <1>1, <3>1
      <3> HIDE DEF a, t
      <3>3. \A j \in 1 .. UsageLength : a[j] = values[n - UsageLength + j]
        <4> TAKE j \in 1 .. UsageLength
        <4>1. CASE j = UsageLength
          <5>1. n - UsageLength + j = n
            BY <4>1, <1>1
          <5> QED
            BY <3>2, <4>1, <5>1
        <4>2. CASE j # UsageLength
          <5>1. j \in 1 .. UsageLength - 1 /\ j + 1 \in 1 .. UsageLength
                /\ n - 1 - UsageLength + (j + 1) = n - UsageLength + j
            BY <1>1, <4>2
          <5>2. d[j + 1] = values[n - UsageLength + j]
            BY <2>1, <5>1
          <5>3. a[j] = t[j] /\ t[j] = d[j + 1]
            BY <3>1, <3>2, <5>1
          <5> QED
            BY <5>2, <5>3
        <4> QED
          BY <4>1, <4>2
      <3>4. a = [j \in 1 .. UsageLength |-> a[j]]
        BY <1>1, <3>2
      <3> QED
        BY <3>3, <3>4 DEF a, t
    <2>4. Newest(values, n) = [j \in 1 .. UsageLength |-> values[n - UsageLength + j]]
      BY <1>1, <1>3 DEF Newest
    <2> QED
      BY <2>2, <2>3, <2>4
  <1> QED
    BY <1>1, <1>2, <1>3

\* What the deque holds in the end are the newest values, behind the padding.
LEMMA PadIs ==
    ASSUME NEW values, Len(values) \in Nat
    PROVE  Pad(values) = [i \in 1 .. UsageLength - Len(values) |-> NaN]
                            \o Newest(values, Len(values))
  <1> DEFINE N == Len(values)
             Put(d, v) == IF Len(d) = UsageLength THEN Append(Tail(d), v) ELSE Append(d, v)
             IsDeque(f) == f = [n \in 0 .. N |-> IF n = 0 THEN <<>> ELSE Put(f[n - 1], values[n])]
             deque == CHOOSE f : IsDeque(f)
             g == [n \in 0 .. N |-> Newest(values, n)]
  <1>1. UsageLength \in Nat \ {0} /\ N \in Nat
    BY UsageAssumption
  <1>2. \A n \in 1 .. N : Newest(values, n) = Put(Newest(values, n - 1), values[n])
    BY NewestGrows
  <1>3. Newest(values, 0) = <<>>
    BY <1>1 DEF Newest
  <1>4. Pad(values) = [i \in 1 .. UsageLength - N |-> NaN] \o deque[N]
    BY DEF Pad
  <1> HIDE DEF Put, N
  <1>5. IsDeque(g)
    <2>1. \A n \in 0 .. N : g[n] = IF n = 0 THEN <<>> ELSE Put(g[n - 1], values[n])
      BY <1>1, <1>2, <1>3
    <2> QED
      BY <2>1
  <1>6. IsDeque(deque)
    BY <1>5
  <1>7. \A n \in 0 .. N : deque[n] = IF n = 0 THEN <<>> ELSE Put(deque[n - 1], values[n])
    BY <1>6
  <1> HIDE DEF deque
  <1> DEFINE T == {n \in 0 .. N : deque[n] = Newest(values, n)}
  <1>8. 0 \in T
    BY <1>1, <1>3, <1>7
  <1>9. \A n \in 1 .. N : n - 1 \in T => n \in T
    BY <1>1, <1>2, <1>7
  <1>10. \A n \in 0 .. N : n \in T
    <2> HIDE DEF T
    <2> QED
      BY <1>1, <1>8, <1>9, Induction
  <1>11. deque[N] = Newest(values, N)
    BY <1>1, <1>10
  <1> QED
    BY <1>4, <1>11 DEF N

\* A function on the numbers up to n is a sequence of n elements.
LEMMA FunctionIsSeq ==
    ASSUME NEW V, NEW n \in Nat, NEW f \in [1 .. n -> V]
    PROVE  f \in Seq(V) /\ Len(f) = n /\ DOMAIN f = 1 .. n
  OBVIOUS

\* Where the elements of two sequences are when one is put behind the other.
LEMMA Concatenated ==
    ASSUME NEW V, NEW p \in Seq(V), NEW z \in Seq(V)
    PROVE  /\ p \o z \in Seq(V) /\ Len(p \o z) = Len(p) + Len(z)
           /\ \A j \in 1 .. Len(p) : (p \o z)[j] = p[j]
           /\ \A j \in 1 .. Len(z) : (p \o z)[Len(p) + j] = z[j]
  OBVIOUS

\* A padded series has the length of a request, and in its last places the newest
\* values.
LEMMA Padded ==
    ASSUME NEW V, NEW s \in Seq(V)
    PROVE  LET k == IF Len(s) < UsageLength THEN Len(s) ELSE UsageLength
           IN  /\ Pad(s) \in Seq(V \cup {NaN}) /\ Len(Pad(s)) = UsageLength
               /\ \A j \in 1 .. UsageLength - k : Pad(s)[j] = NaN
               /\ \A j \in 0 .. k - 1 : /\ UsageLength - j \in 1 .. UsageLength
                                      /\ Len(s) - j \in DOMAIN s
                                      /\ Pad(s)[UsageLength - j] = s[Len(s) - j]
  <1>1. UsageLength \in Nat \ {0} /\ Len(s) \in Nat /\ DOMAIN s = 1 .. Len(s)
    BY UsageAssumption
  <1>2. PICK N \in Nat : N = Len(s)
    BY <1>1
  <1>3. PICK U \in Nat \ {0} : U = UsageLength
    BY <1>1
  <1>4. PICK k \in Nat : k = (IF N < U THEN N ELSE U) /\ k <= U /\ k <= N
    <2>1. CASE N < U
      BY <2>1
    <2>2. CASE ~ (N < U)
      BY <2>2
    <2> QED
      BY <2>1, <2>2
  <1>5. PICK p : p = [i \in 1 .. U - N |-> NaN]
    OBVIOUS
  <1>6. PICK z : z = Newest(s, N)
    OBVIOUS
  <1>7. Pad(s) = p \o z
    BY <1>1, <1>2, <1>3, <1>5, <1>6, PadIs
  <1>8. \A j \in 1 .. k : N - k + j \in 1 .. N
    BY <1>4
  <1>9. z = [j \in 1 .. k |-> s[N - k + j]]
    <2>1. CASE N < U
      <3>1. k = N /\ \A j \in 1 .. N : N - N + j = j
        BY <1>4, <2>1
      <3>2. z = [j \in 1 .. N |-> s[j]]
        BY <1>3, <1>6, <2>1 DEF Newest
      <3> QED
        BY <3>1, <3>2
    <2>2. CASE ~ (N < U)
      <3>1. k = U
        BY <1>4, <2>2
      <3> QED
        BY <1>3, <1>6, <2>2, <3>1 DEF Newest
    <2> QED
      BY <2>1, <2>2
  <1>10. z \in Seq(V) /\ Len(z) = k /\ \A j \in 1 .. k : z[j] = s[N - k + j]
    <2>1. \A j \in 1 .. k : z[j] = s[N - k + j] /\ z[j] \in V
      BY <1>1, <1>2, <1>8, <1>9
    <2>2. z \in [1 .. k -> V]
      BY <1>9, <2>1
    <2> QED
      BY <2>1, <2>2, FunctionIsSeq
  <1>11. p \in Seq({NaN}) /\ Len(p) = U - k /\ \A j \in 1 .. U - k : p[j] = NaN
    <2>1. 1 .. U - N = 1 .. U - k /\ U - k \in Nat
      <3>1. CASE N < U
        BY <1>4, <3>1
      <3>2. CASE ~ (N < U)
        <4>1. k = U
          BY <1>4, <3>2
        <4>2. 1 .. U - N = {} /\ 1 .. U - k = {}
          BY <4>1, <3>2
        <4> QED
          BY <4>1, <4>2
      <3> QED
        BY <3>1, <3>2
    <2>2. p = [i \in 1 .. U - k |-> NaN]
      BY <1>5, <2>1
    <2>3. \A j \in 1 .. U - k : p[j] \in {NaN}
      BY <2>2
    <2>4. p \in [1 .. U - k -> {NaN}]
      BY <2>2, <2>3
    <2> QED
      BY <2>1, <2>3, <2>4, FunctionIsSeq
  <1>12. /\ p \o z \in Seq(V \cup {NaN}) /\ Len(p \o z) = U
         /\ \A j \in 1 .. U - k : (p \o z)[j] = p[j]
         /\ \A j \in 1 .. k : (p \o z)[U - k + j] = z[j]
    <2>1. p \in Seq(V \cup {NaN}) /\ z \in Seq(V \cup {NaN})
      BY <1>10, <1>11
    <2>2. /\ p \o z \in Seq(V \cup {NaN}) /\ Len(p \o z) = Len(p) + Len(z)
          /\ \A j \in 1 .. Len(p) : (p \o z)[j] = p[j]
          /\ \A j \in 1 .. Len(z) : (p \o z)[Len(p) + j] = z[j]
      BY <2>1, Concatenated
    <2>3. Len(p) = U - k /\ Len(z) = k /\ (U - k) + k = U
      BY <1>10, <1>11
    <2> QED
      BY <2>2, <2>3
  <1>13. ASSUME NEW j \in 0 .. k - 1
         PROVE  U - j \in 1 .. U /\ N - j \in 1 .. N /\ (p \o z)[U - j] = s[N - j]
    <2>1. /\ k - j \in 1 .. k
          /\ U - k + (k - j) = U - j
          /\ N - k + (k - j) = N - j
          /\ U - j \in 1 .. U /\ N - j \in 1 .. N
      BY <1>4
    <2>2. (p \o z)[U - k + (k - j)] = z[k - j]
      BY <1>12, <2>1
    <2>3. z[k - j] = s[N - k + (k - j)]
      BY <1>10, <2>1
    <2> QED
      BY <2>1, <2>2, <2>3
  <1>14. \A j \in 1 .. U - k : (p \o z)[j] = NaN
    BY <1>11, <1>12
  <1> QED
    BY <1>1, <1>2, <1>3, <1>4, <1>7, <1>12, <1>13, <1>14

-----------------------------------------------------------------------------
(* What is in a request *)

\* A set of numbers up to n that is not empty has a largest one.
LEMMA Largest ==
    ASSUME NEW n \in Nat, NEW S \in SUBSET (1 .. n), S # {}
    PROVE  \E x \in S : \A y \in S : y <= x
  <1> DEFINE T == {i \in 0 .. n : (\A y \in S : y > i) \/ \E x \in S : \A y \in S : y <= i => y <= x}
  <1>1. 0 \in T
    OBVIOUS
  <1>2. ASSUME NEW i \in 1 .. n, i - 1 \in T
        PROVE  i \in T
    <2>1. CASE i \in S
      BY <2>1
    <2>2. CASE i \notin S
      <3>1. \A y \in S : y # i /\ y \in Nat
        BY <2>2
      <3>2. \A y \in S : (y > i <=> y > i - 1) /\ (y <= i <=> y <= i - 1)
        BY <3>1
      <3> QED
        BY <1>2, <3>2
    <2> QED
      BY <2>1, <2>2
  <1>3. \A i \in 0 .. n : i \in T
    <2> HIDE DEF T
    <2> QED
      BY <1>1, <1>2, Induction
  <1>4. n \in T
    <2> HIDE DEF T
    <2> QED
      BY <1>3
  <1>5. \A y \in S : y <= n /\ ~ (y > n)
    OBVIOUS
  <1> QED
    BY <1>4, <1>5

\* A series has samples, each of a minute.
LEMMA SeriesType ==
    ASSUME NEW s \in Series
    PROVE  s \in Seq(1 .. MaxMinutes) /\ Len(s) \in Nat \ {0} /\ DOMAIN s = 1 .. Len(s)
  <1>1. PICK m \in 0 .. MaxMinutes : s \in [1 .. m -> 1 .. MaxMinutes]
    BY DEF Series, BoundedSeq, SeqOf
  <1>2. s # <<>>
    BY DEF Series
  <1>3. m \in Nat
    BY UsageAssumption
  <1>4. s \in Seq(1 .. MaxMinutes) /\ Len(s) = m /\ DOMAIN s = 1 .. m
    BY <1>1, <1>3, FunctionIsSeq
  <1> QED
    BY <1>2, <1>3, <1>4

\* An answer is a list of series, each of a workload.
LEMMA AnswerIsSeq ==
    ASSUME NEW a \in Answers
    PROVE  /\ Len(a) \in Nat /\ DOMAIN a = 1 .. Len(a)
           /\ \A k \in DOMAIN a : a[k].task \in Workloads /\ a[k].values \in Series
  <1>1. PICK m \in 0 .. MaxSeries : a \in [1 .. m -> [task : Workloads, values : Series]]
    BY DEF Answers, BoundedSeq, SeqOf
  <1>2. m \in Nat
    BY UsageAssumption
  <1>3. a \in Seq([task : Workloads, values : Series]) /\ Len(a) = m /\ DOMAIN a = 1 .. m
    BY <1>1, <1>2, FunctionIsSeq
  <1> QED
    BY <1>1, <1>2, <1>3

\* What a task has in the dictionary is one of its series.
LEMMA DictHasSeries ==
    ASSUME NEW a \in Answers, NEW w \in DOMAIN ToDict(a)
    PROVE  \E k \in DOMAIN a : a[k].task = w /\ ToDict(a)[w] = a[k].values
  <1> DEFINE Of == {k \in DOMAIN a : a[k].task = w}
  <1>1. w \in {a[k].task : k \in DOMAIN a}
    BY DEF ToDict
  <1>2. Of \in SUBSET (1 .. Len(a)) /\ Of # {} /\ Len(a) \in Nat
    BY <1>1, AnswerIsSeq
  <1>3. \A y \in Of : y \in Nat
    BY <1>2
  <1>4. ToDict(a)[w] = a[Max(Of)].values
    BY <1>1 DEF ToDict
  <1>5. Max(Of) \in Of
    <2> HIDE DEF Of
    <2>1. PICK x \in Of : \A y \in Of : y <= x
      BY <1>2, Largest
    <2>2. \A y \in Of : x >= y
      BY <1>3, <2>1
    <2> QED
      BY <2>2 DEF Max
  <1> QED
    BY <1>4, <1>5

\* Each series of the usage is one that was answered, padded.
OfTheAnswers(u) ==
    \A r \in DOMAIN u : \E i \in DOMAIN answers :
        /\ Resources[i] = r
        /\ \A w \in DOMAIN u[r] : \E k \in DOMAIN answers[i] :
              answers[i][k].task = w /\ u[r][w] = Pad(answers[i][k].values)

\* What is made of the answers is of the answers.
LEMMA BuildsOfTheAnswers ==
    ASSUME answers \in Seq(Answers), BuildUsage
    PROVE  OfTheAnswers(usage')
  <1> DEFINE named == {i \in DOMAIN answers : answers[i] # <<>>}
             Of(r) == CHOOSE i \in named : Resources[i] = r
             Dict(r) == ToDict(answers[Of(r)])
  <1>1. usage' = [r \in {Resources[i] : i \in named} |-> [w \in DOMAIN Dict(r) |-> Pad(Dict(r)[w])]]
    BY Zenon DEF BuildUsage
  <1>2. ASSUME NEW r \in DOMAIN usage'
        PROVE  \E i \in DOMAIN answers :
                  /\ Resources[i] = r
                  /\ \A w \in DOMAIN usage'[r] : \E k \in DOMAIN answers[i] :
                        answers[i][k].task = w /\ usage'[r][w] = Pad(answers[i][k].values)
    <2>1. r \in {Resources[i] : i \in named}
      BY <1>1
    <2>2. Of(r) \in named /\ Resources[Of(r)] = r
      BY <2>1
    <2>3. answers[Of(r)] \in Answers
      BY <2>2
    <2>4. Of(r) \in DOMAIN answers
      BY <2>2
    <2> HIDE DEF named, Of
    <2>5. usage'[r] = [x \in DOMAIN Dict(r) |-> Pad(Dict(r)[x])]
      BY <1>1, <2>1
    <2>6. ASSUME NEW w \in DOMAIN usage'[r]
          PROVE  \E k \in DOMAIN answers[Of(r)] :
                    /\ answers[Of(r)][k].task = w
                    /\ usage'[r][w] = Pad(answers[Of(r)][k].values)
      <3>1. w \in DOMAIN ToDict(answers[Of(r)]) /\ usage'[r][w] = Pad(ToDict(answers[Of(r)])[w])
        BY <2>5
      <3> QED
        BY <2>3, <3>1, DictHasSeries
    <2> QED
      BY <2>2, <2>4, <2>6
  <1> QED
    BY <1>2 DEF OfTheAnswers

\* There is usage only between the queries and the request, and it is of the
\* answers.
SamplesInv ==
    /\ stage \in {"querying", "built", "sent", "done"}
    /\ answers \in Seq(Answers) /\ Len(answers) <= Len(Resources)
    /\ usageFailures \in {0, 1}
    /\ stage = "querying" => usageFailures = 0
    /\ stage # "built" => usage = << >>
    /\ OfTheAnswers(usage)
    /\ raw \in RawPredictions

\* Nothing is asked for at first.
LEMMA SamplesInit == UsageInit => SamplesInv
  <1> SUFFICES ASSUME UsageInit PROVE SamplesInv
    OBVIOUS
  <1>1. raw \in RawPredictions
    <2>1. raw = <<>> /\ 0 \in 0 .. MaxTasks
      BY UsageAssumption DEF UsageInit
    <2>2. raw \in [1 .. 0 -> [task : Tasks, of : TaskPredictions]]
      BY <2>1
    <2> QED
      BY <2>1, <2>2 DEF RawPredictions, BoundedSeq, SeqOf
  <1>2. OfTheAnswers(usage)
    <2>1. DOMAIN usage = {}
      BY DEF UsageInit
    <2> QED
      BY <2>1 DEF OfTheAnswers
  <1>3. Len(<<>>) <= Len(Resources)
    BY UsageAssumption
  <1> QED
    BY <1>1, <1>2, <1>3 DEF UsageInit, SamplesInv

\* Every step keeps the invariant.
LEMMA SamplesNext == SamplesInv /\ [UsageNext]_usageVars => SamplesInv'
  <1> SUFFICES ASSUME SamplesInv, [UsageNext]_usageVars PROVE SamplesInv'
    OBVIOUS
  <1> USE DEF SamplesInv
  <1>1. usage' = << >> => OfTheAnswers(usage)'
    BY DEF OfTheAnswers
  <1>2. CASE QueryAnswered
    <2>1. PICK a \in Answers : answers' = Append(answers, a)
      BY <1>2 DEF QueryAnswered
    <2>2. Len(answers) \in Nat /\ Len(Resources) \in Nat /\ Len(answers) < Len(Resources)
      BY <1>2, UsageAssumption DEF QueryAnswered
    <2>3. answers' \in Seq(Answers) /\ Len(answers') <= Len(Resources)
      BY <2>1, <2>2
    <2> QED
      BY <1>1, <1>2, <2>3 DEF QueryAnswered
  <1>3. CASE BuildUsage
    <2>1. OfTheAnswers(usage') /\ answers' = answers
      BY <1>3, BuildsOfTheAnswers DEF BuildUsage
    <2>2. OfTheAnswers(usage)'
      BY <2>1 DEF OfTheAnswers
    <2> QED
      BY <1>3, <2>2 DEF BuildUsage
  <1>4. CASE QueryRaises
    BY <1>1, <1>4 DEF QueryRaises
  <1>5. CASE SendRequest
    BY <1>1, <1>5, UsageAssumption DEF SendRequest
  <1>6. CASE Predicted
    BY <1>1, <1>6 DEF Predicted
  <1>7. CASE UNCHANGED usageVars
    BY <1>7 DEF usageVars, OfTheAnswers
  <1> QED
    BY <1>2, <1>3, <1>4, <1>5, <1>6, <1>7 DEF UsageNext

\* Type correctness: what is sent for a workload and a resource are UsageLength
\* minutes or NaN, however long the series was.
THEOREM UsageTypeCorrect == UsageSpec => []UsageTypeOK
  <1>1. ASSUME SamplesInv
        PROVE  UsageTypeOK
    <2> USE <1>1 DEF SamplesInv
    <2>1. \A i \in DOMAIN answers : i \in DOMAIN Resources
      BY UsageAssumption
    <2>2. ASSUME NEW r \in DOMAIN usage
          PROVE  r \in ToSet(Resources)
      BY <2>1 DEF OfTheAnswers, ToSet
    <2>3. ASSUME NEW r \in DOMAIN usage, NEW w \in DOMAIN usage[r]
          PROVE  /\ w \in Workloads
                 /\ usage[r][w] \in [1 .. UsageLength -> (1 .. MaxMinutes) \cup {NaN}]
      <3>1. PICK i \in DOMAIN answers : \E k \in DOMAIN answers[i] :
                answers[i][k].task = w /\ usage[r][w] = Pad(answers[i][k].values)
        BY DEF OfTheAnswers
      <3>2. PICK k \in DOMAIN answers[i] :
                answers[i][k].task = w /\ usage[r][w] = Pad(answers[i][k].values)
        BY <3>1
      <3>3. answers[i][k].task \in Workloads /\ answers[i][k].values \in Seq(1 .. MaxMinutes)
        <4>1. answers[i] \in Answers
          OBVIOUS
        <4>2. answers[i][k].task \in Workloads /\ answers[i][k].values \in Series
          BY <4>1, AnswerIsSeq
        <4> QED
          BY <4>2, SeriesType
      <3>4. PICK p : p = Pad(answers[i][k].values)
        OBVIOUS
      <3>5. p \in Seq((1 .. MaxMinutes) \cup {NaN}) /\ Len(p) = UsageLength
        BY <3>3, <3>4, Padded
      <3> QED
        BY <3>2, <3>3, <3>4, <3>5
    <2> QED
      BY <2>2, <2>3 DEF UsageTypeOK
  <1> QED
    BY <1>1, SamplesInit, SamplesNext, PTL DEF UsageSpec

\* For any resources, workloads and answers, of which each series is of any length:
\* a series of a request is the newest part of one that was answered, and only what
\* that one lacks is padding (resource_usage_prediction.py:54-58, utils.py of
\* monitor: get_pcp_usage).
THEOREM RequestsHaveTheNewest == UsageSpec => []RequestHasTheNewestSamples
  <1>1. ASSUME SamplesInv, stage = "built",
               NEW w \in Workloads, NEW r \in DOMAIN PastUsage(usage, w)
        PROVE  \E i \in DOMAIN answers : \E k \in DOMAIN answers[i] :
                    LET s == answers[i][k].values
                        n == {j \in 1 .. UsageLength : PastUsage(usage, w)[r][j] # NaN}
                    IN  /\ Resources[i] = r /\ answers[i][k].task = w
                        /\ Cardinality(n) = IF Len(s) < UsageLength THEN Len(s) ELSE UsageLength
                        /\ \A j \in 0 .. Cardinality(n) - 1 :
                              PastUsage(usage, w)[r][UsageLength - j] = s[Len(s) - j]
    <2>1. r \in DOMAIN usage /\ w \in DOMAIN usage[r] /\ PastUsage(usage, w)[r] = usage[r][w]
      BY <1>1 DEF PastUsage
    <2>2. PICK i \in DOMAIN answers :
              /\ Resources[i] = r
              /\ \E k \in DOMAIN answers[i] :
                    answers[i][k].task = w /\ usage[r][w] = Pad(answers[i][k].values)
      BY <1>1, <2>1 DEF SamplesInv, OfTheAnswers
    <2>3. PICK k \in DOMAIN answers[i] :
              answers[i][k].task = w /\ usage[r][w] = Pad(answers[i][k].values)
      BY <2>2
    <2>4. PICK s : s = answers[i][k].values
      OBVIOUS
    <2>5. s \in Seq(1 .. MaxMinutes) /\ DOMAIN s = 1 .. Len(s) /\ Len(s) \in Nat
      <3>1. answers[i] \in Answers
        BY <1>1 DEF SamplesInv
      <3>2. answers[i][k].values \in Series
        BY <3>1, AnswerIsSeq
      <3> QED
        BY <2>4, <3>2, SeriesType
    <2>6. PICK p : p = Pad(s)
      OBVIOUS
    <2>7. PICK U \in Nat \ {0} : U = UsageLength
      BY UsageAssumption
    <2>8. PICK m \in Nat : m = (IF Len(s) < U THEN Len(s) ELSE U) /\ m <= U
      <3>1. PICK l \in Nat : l = Len(s)
        BY <2>5
      <3>2. PICK m \in Nat : m = (IF l < U THEN l ELSE U) /\ m <= U
        <4>1. CASE l < U
          BY <4>1
        <4>2. CASE ~ (l < U)
          BY <4>2
        <4> QED
          BY <4>1, <4>2
      <3> QED
        BY <3>1, <3>2
    <2>9. /\ \A j \in 1 .. U - m : p[j] = NaN
          /\ \A j \in 0 .. m - 1 : Len(s) - j \in DOMAIN s /\ p[U - j] = s[Len(s) - j]
      BY <2>5, <2>6, <2>7, <2>8, Padded
    <2>10. \A j \in U - m + 1 .. U : p[j] # NaN
      <3> TAKE j \in U - m + 1 .. U
      <3>1. PICK x \in 0 .. m - 1 : x = U - j /\ U - x = j
        OBVIOUS
      <3>2. p[U - x] = s[Len(s) - x] /\ Len(s) - x \in DOMAIN s
        BY <2>9, <3>1
      <3>3. p[j] \in 1 .. MaxMinutes
        <4>1. PICK y : y = Len(s) - x
          OBVIOUS
        <4>2. y \in DOMAIN s /\ p[j] = s[y]
          BY <3>1, <3>2, <4>1
        <4>3. s[y] \in 1 .. MaxMinutes
          <5>1. PICK V : V = 1 .. MaxMinutes
            OBVIOUS
          <5>2. s \in Seq(V) /\ y \in 1 .. Len(s)
            BY <2>5, <4>2, <5>1
          <5>3. s[y] \in V
            BY <5>2
          <5> QED
            BY <5>1, <5>3
        <4> QED
          BY <4>2, <4>3
      <3>4. p[j] \in Nat
        BY <3>3
      <3> QED
        BY <3>4, UsageAssumption
    <2>11. PICK n : n = {j \in 1 .. UsageLength : PastUsage(usage, w)[r][j] # NaN}
      OBVIOUS
    <2>12. n = U - m + 1 .. U
      <3>1. n = {j \in 1 .. U : p[j] # NaN}
        BY <2>1, <2>3, <2>4, <2>6, <2>7, <2>11
      <3>2. ASSUME NEW j \in 1 .. U
            PROVE  p[j] # NaN <=> j \in U - m + 1 .. U
        <4>1. j \in 1 .. U - m \/ j \in U - m + 1 .. U
          BY <2>8
        <4>2. j \in 1 .. U - m => j \notin U - m + 1 .. U
          BY <2>8
        <4> QED
          BY <2>9, <2>10, <4>1, <4>2
      <3>3. U - m + 1 .. U \subseteq 1 .. U
        <4>1. U - m \in Nat
          BY <2>8
        <4> QED
          BY <4>1
      <3> QED
        BY <3>1, <3>2, <3>3
    <2>13. Cardinality(n) = m
      <3>1. Cardinality(U - m + 1 .. U) = IF U - m + 1 > U THEN 0 ELSE U - (U - m + 1) + 1
        <4>1. U - m + 1 \in Int /\ U \in Int
          OBVIOUS
        <4> QED
          BY <4>1, FS_Interval
      <3>2. CASE m = 0
        BY <2>12, <3>1, <3>2
      <3>3. CASE m # 0
        <4>1. ~ (U - m + 1 > U) /\ U - (U - m + 1) + 1 = m
          BY <3>3
        <4> QED
          BY <2>12, <3>1, <4>1
      <3> QED
        BY <3>2, <3>3
    <2>14. \A j \in 0 .. m - 1 : PastUsage(usage, w)[r][UsageLength - j] = s[Len(s) - j]
      BY <2>1, <2>3, <2>4, <2>6, <2>7, <2>9
    <2>15. m = IF Len(s) < UsageLength THEN Len(s) ELSE UsageLength
      BY <2>7, <2>8
    <2> QED
      BY <2>2, <2>3, <2>4, <2>11, <2>13, <2>14, <2>15
  <1>2. SamplesInv => RequestHasTheNewestSamples
    BY <1>1 DEF RequestHasTheNewestSamples
  <1> QED
    BY <1>2, SamplesInit, SamplesNext, PTL DEF UsageSpec

-----------------------------------------------------------------------------
(* Sums *)

\* What a function adds to the sum at a number.
Share(a, m) == IF m \in DOMAIN a THEN a[m] ELSE 0

\* The sum up to n is reached in steps of one number.
LEMMA SumSteps ==
    ASSUME NEW a, NEW n \in Nat
    PROVE  \E f : /\ SumUpTo(a, n) = f[n]
                  /\ f[0] = 0
                  /\ \A m \in 1 .. n : f[m] = f[m - 1] + Share(a, m)
  <1> DEFINE IsSum(f) == f = [m \in 0 .. n |-> IF m = 0 THEN 0
                                ELSE f[m - 1] + (IF m \in DOMAIN a THEN a[m] ELSE 0)]
             sum == CHOOSE f : IsSum(f)
             Is(i, f) == f = [m \in 0 .. i |-> IF m = 0 THEN 0 ELSE f[m - 1] + Share(a, m)]
             T == {i \in 0 .. n : \E f : Is(i, f)}
  <1>1. SumUpTo(a, n) = sum[n]
    BY DEF SumUpTo
  <1>2. 0 \in T
    <2>1. Is(0, [m \in 0 .. 0 |-> 0])
      OBVIOUS
    <2> HIDE DEF Is
    <2> QED
      BY <2>1
  <1>3. ASSUME NEW i \in 1 .. n, i - 1 \in T
        PROVE  i \in T
    <2>1. PICK f : Is(i - 1, f)
      BY <1>3
    <2> DEFINE g == [m \in 0 .. i |-> IF m = i THEN f[i - 1] + Share(a, i) ELSE f[m]]
    <2>2. ASSUME NEW m \in 0 .. i
          PROVE  g[m] = IF m = 0 THEN 0 ELSE g[m - 1] + Share(a, m)
      <3>1. CASE m = i
        BY <3>1
      <3>2. CASE m # i
        <4>1. m \in 0 .. i - 1 /\ m # 0 => m - 1 \in 0 .. i /\ m - 1 # i
          BY <3>2
        <4>2. f[m] = IF m = 0 THEN 0 ELSE f[m - 1] + Share(a, m)
          BY <2>1, <4>1, <3>2
        <4> QED
          BY <3>2, <4>1, <4>2
      <3> QED
        BY <3>1, <3>2
    <2>3. Is(i, g)
      BY <2>2
    <2> HIDE DEF Is, g
    <2> QED
      BY <2>3
  <1>4. \A i \in 0 .. n : i \in T
    <2> HIDE DEF T
    <2> QED
      BY <1>2, <1>3, Induction
  <1>5. \E f : Is(n, f)
    BY <1>4
  <1>6. \E f : IsSum(f)
    BY <1>5 DEF Share
  <1>7. IsSum(sum)
    BY <1>6
  <1> HIDE DEF sum
  <1>8. sum[0] = 0 /\ \A m \in 1 .. n : sum[m] = sum[m - 1] + Share(a, m)
    BY <1>7 DEF Share
  <1> QED
    BY <1>1, <1>8

\* Without numbers the sum is zero.
LEMMA SumOfNone ==
    ASSUME NEW a, NEW n \in Nat, DOMAIN a = {}
    PROVE  SumUpTo(a, n) = 0
  <1>1. PICK f : /\ SumUpTo(a, n) = f[n] /\ f[0] = 0
                 /\ \A m \in 1 .. n : f[m] = f[m - 1] + Share(a, m)
    BY SumSteps
  <1> DEFINE T == {m \in 0 .. n : f[m] = 0}
  <1>2. 0 \in T /\ \A m \in 1 .. n : m - 1 \in T => m \in T
    BY <1>1 DEF Share
  <1>3. n \in T
    <2> HIDE DEF T
    <2>1. \A m \in 0 .. n : m \in T
      BY <1>2, Induction
    <2> QED
      BY <2>1
  <1> QED
    BY <1>1, <1>3

\* One more number adds its value.
LEMMA SumOfOneMore ==
    ASSUME NEW a, NEW b, NEW n \in Nat, NEW x \in 1 .. n,
           x \notin DOMAIN a, DOMAIN b = DOMAIN a \cup {x},
           \A y \in DOMAIN b : b[y] \in Int,
           \A y \in DOMAIN a : a[y] = b[y]
    PROVE  SumUpTo(b, n) = SumUpTo(a, n) + b[x]
  <1>1. PICK f : /\ SumUpTo(a, n) = f[n] /\ f[0] = 0
                 /\ \A m \in 1 .. n : f[m] = f[m - 1] + Share(a, m)
    BY SumSteps
  <1>2. PICK g : /\ SumUpTo(b, n) = g[n] /\ g[0] = 0
                 /\ \A m \in 1 .. n : g[m] = g[m - 1] + Share(b, m)
    BY SumSteps
  <1> DEFINE T == {m \in 0 .. n : f[m] \in Int /\ g[m] = f[m] + (IF m < x THEN 0 ELSE b[x])}
  <1>3. 0 \in T
    BY <1>1, <1>2
  <1>4. ASSUME NEW m \in 1 .. n, m - 1 \in T
        PROVE  m \in T
    <2>1. b[x] \in Int
      OBVIOUS
    <2>2. Share(a, m) \in Int /\ Share(b, m) \in Int
      BY DEF Share
    <2>3. /\ f[m - 1] \in Int /\ f[m] = f[m - 1] + Share(a, m)
          /\ g[m - 1] = f[m - 1] + (IF m - 1 < x THEN 0 ELSE b[x])
          /\ g[m] = g[m - 1] + Share(b, m)
      BY <1>1, <1>2, <1>4
    <2>4. CASE m = x
      <3>1. Share(a, m) = 0 /\ Share(b, m) = b[x] /\ m - 1 < x /\ ~ (m < x)
        BY <2>4 DEF Share
      <3> QED
        BY <2>1, <2>3, <3>1
    <2>5. CASE m # x
      <3>1. Share(b, m) = Share(a, m)
        BY <2>5 DEF Share
      <3>2. m - 1 < x <=> m < x
        BY <2>5
      <3> QED
        BY <2>1, <2>2, <2>3, <3>1, <3>2
    <2> QED
      BY <2>4, <2>5
  <1>5. n \in T
    <2> HIDE DEF T
    <2>1. \A m \in 0 .. n : m \in T
      BY <1>3, <1>4, Induction
    <2> QED
      BY <2>1
  <1> QED
    BY <1>1, <1>2, <1>5

-----------------------------------------------------------------------------
(* What a prediction is made of *)

\* The last entry of the task of an entry.
LastOf(entries, i) ==
    CHOOSE j \in DOMAIN entries :
       /\ entries[j].task = entries[i].task
       /\ \A k \in j + 1 .. Len(entries) : entries[k].task # entries[i].task

\* An answer of the service is a list of entries.
LEMMA EntriesType ==
    ASSUME NEW entries \in RawPredictions
    PROVE  /\ Len(entries) \in Nat /\ DOMAIN entries = 1 .. Len(entries)
           /\ entries = <<>> <=> Len(entries) = 0
           /\ \A i \in DOMAIN entries : entries[i].of \in TaskPredictions
  <1>1. PICK m \in 0 .. MaxTasks : entries \in [1 .. m -> [task : Tasks, of : TaskPredictions]]
    BY DEF RawPredictions, BoundedSeq, SeqOf
  <1>2. m \in Nat
    BY UsageAssumption
  <1>3. /\ entries \in Seq([task : Tasks, of : TaskPredictions])
        /\ Len(entries) = m /\ DOMAIN entries = 1 .. m
    BY <1>1, <1>2, FunctionIsSeq
  <1> QED
    BY <1>1, <1>2, <1>3

\* A task that has an entry has a last one.
LEMMA LastIsThere ==
    ASSUME NEW entries \in RawPredictions, NEW i \in DOMAIN entries
    PROVE  /\ LastOf(entries, i) \in DOMAIN entries
           /\ entries[LastOf(entries, i)].task = entries[i].task
           /\ \A k \in LastOf(entries, i) + 1 .. Len(entries) :
                 entries[k].task # entries[i].task
           /\ ValueOf(entries, i) = entries[LastOf(entries, i)].of
  <1> DEFINE S == {j \in DOMAIN entries : entries[j].task = entries[i].task}
  <1>1. Len(entries) \in Nat /\ DOMAIN entries = 1 .. Len(entries)
    BY EntriesType
  <1>2. S \in SUBSET (1 .. Len(entries)) /\ S # {}
    BY <1>1
  <1>3. PICK x \in S : \A y \in S : y <= x
    <2> HIDE DEF S
    <2> QED
      BY <1>1, <1>2, Largest
  <1>4. \A k \in x + 1 .. Len(entries) : entries[k].task # entries[i].task
    <2> TAKE k \in x + 1 .. Len(entries)
    <2>1. x \in 1 .. Len(entries) /\ k \in DOMAIN entries /\ ~ (k <= x)
      BY <1>1, <1>3
    <2> QED
      BY <1>3, <2>1
  <1>5. \E j \in DOMAIN entries :
           /\ entries[j].task = entries[i].task
           /\ \A k \in j + 1 .. Len(entries) : entries[k].task # entries[i].task
    BY <1>3, <1>4
  <1>6. ValueOf(entries, i) = entries[LastOf(entries, i)].of
    BY DEF ValueOf, LastOf
  <1> QED
    BY <1>5, <1>6 DEF LastOf

\* A task that has an entry has a first one.
LEMMA FirstIsThere ==
    ASSUME NEW entries \in RawPredictions, NEW i \in DOMAIN entries
    PROVE  \E f \in DOMAIN entries : entries[f].task = entries[i].task /\ IsFirst(entries, f)
  <1> DEFINE Has(n) == \E j \in 1 .. n : entries[j].task = entries[i].task
             Found == \E f \in DOMAIN entries : entries[f].task = entries[i].task /\ IsFirst(entries, f)
             T == {n \in 0 .. Len(entries) : Has(n) => Found}
  <1>1. Len(entries) \in Nat /\ DOMAIN entries = 1 .. Len(entries)
    BY EntriesType
  <1>2. 0 \in T
    BY <1>1
  <1>3. ASSUME NEW n \in 1 .. Len(entries), n - 1 \in T
        PROVE  n \in T
    <2>1. CASE Has(n - 1)
      BY <1>3, <2>1
    <2>2. CASE ~ Has(n - 1) /\ Has(n)
      <3>1. PICK j \in 1 .. n : entries[j].task = entries[i].task
        BY <2>2
      <3>2. j = n
        <4>1. j \notin 1 .. n - 1
          BY <2>2, <3>1
        <4> QED
          BY <4>1
      <3>3. IsFirst(entries, n)
        BY <2>2, <3>1, <3>2 DEF IsFirst
      <3> QED
        BY <1>1, <3>1, <3>2, <3>3
    <2> QED
      BY <2>1, <2>2
  <1>4. Len(entries) \in T
    <2> HIDE DEF T
    <2>1. \A n \in 0 .. Len(entries) : n \in T
      BY <1>1, <1>2, <1>3, Induction
    <2> QED
      BY <1>1, <2>1
  <1> QED
    BY <1>1, <1>4

\* The predictions for the agent are summed up entry by entry.
LEMMA CondenseSteps ==
    ASSUME NEW entries, NEW n \in Nat \ {0}, DOMAIN entries = 1 .. n, Len(entries) = n,
           entries # <<>>
    PROVE  \E f : /\ Condense(entries) = f[n]
                  /\ f[1] = ValueOf(entries, 1)
                  /\ \A m \in 2 .. n :
                        f[m] = IF IsFirst(entries, m) THEN Add(f[m - 1], ValueOf(entries, m))
                               ELSE f[m - 1]
  <1> DEFINE Step(m, p) == IF IsFirst(entries, m) THEN Add(p, ValueOf(entries, m)) ELSE p
             IsTotal(f) == f = [m \in DOMAIN entries |->
                                  IF m = 1 THEN ValueOf(entries, 1)
                                  ELSE IF IsFirst(entries, m) THEN Add(f[m - 1], ValueOf(entries, m))
                                  ELSE f[m - 1]]
             total == CHOOSE f : IsTotal(f)
             Is(i, f) == f = [m \in 1 .. i |-> IF m = 1 THEN ValueOf(entries, 1) ELSE Step(m, f[m - 1])]
             T == {i \in 0 .. n : \E f : Is(i, f)}
  <1>1. Condense(entries) = total[n]
    BY DEF Condense
  <1>2. \A f : Is(n, f) <=> IsTotal(f)
    OBVIOUS
  <1> HIDE DEF Step
  <1>3. 0 \in T
    <2>1. Is(0, [m \in 1 .. 0 |-> 0])
      OBVIOUS
    <2> HIDE DEF Is
    <2> QED
      BY <2>1
  <1>4. ASSUME NEW i \in 1 .. n, i - 1 \in T
        PROVE  i \in T
    <2>1. PICK f : Is(i - 1, f)
      BY <1>4
    <2> DEFINE g == [m \in 1 .. i |-> IF m = i THEN (IF i = 1 THEN ValueOf(entries, 1)
                                                     ELSE Step(i, f[i - 1]))
                                      ELSE f[m]]
    <2>2. ASSUME NEW m \in 1 .. i
          PROVE  g[m] = IF m = 1 THEN ValueOf(entries, 1) ELSE Step(m, g[m - 1])
      <3>1. CASE m = i
        <4>1. m # 1 => m - 1 \in 1 .. i /\ m - 1 # i
          BY <3>1
        <4> QED
          BY <3>1, <4>1
      <3>2. CASE m # i
        <4>1. m \in 1 .. i - 1 /\ (m # 1 => m - 1 \in 1 .. i /\ m - 1 # i)
          BY <3>2
        <4>2. f[m] = IF m = 1 THEN ValueOf(entries, 1) ELSE Step(m, f[m - 1])
          BY <2>1, <4>1
        <4> QED
          BY <3>2, <4>1, <4>2
      <3> QED
        BY <3>1, <3>2
    <2>3. Is(i, g)
      BY <2>2
    <2> HIDE DEF Is, g
    <2> QED
      BY <2>3
  <1>5. \E f : Is(n, f)
    <2>1. \A i \in 0 .. n : i \in T
      <3> HIDE DEF T
      <3> QED
        BY <1>3, <1>4, Induction
    <2> QED
      BY <2>1
  <1>6. IsTotal(total)
    <2> HIDE DEF Is, IsTotal
    <2> QED
      BY <1>2, <1>5
  <1>7. Is(n, total)
    BY <1>2, <1>6
  <1> HIDE DEF total, IsTotal
  <1>8. total[1] = ValueOf(entries, 1) /\ \A m \in 2 .. n : total[m] = Step(m, total[m - 1])
    BY <1>7
  <1> QED
    BY <1>1, <1>8 DEF Step

-----------------------------------------------------------------------------
(* The sum over the tasks *)

\* The samples of a task's prediction are whole numbers.
LEMMA TaskPredictionType ==
    ASSUME NEW p \in TaskPredictions, NEW r \in DOMAIN p, NEW z \in DOMAIN p[r]
    PROVE  /\ p[r][z] \in Seq(Int)
           /\ Len(p[r][z]) \in Nat /\ DOMAIN p[r][z] = 1 .. Len(p[r][z])
           /\ \A k \in DOMAIN p[r][z] : p[r][z][k] \in Int
  <1>1. PICK R \in SUBSET PredictedResources :
            p \in [R -> UNION {[Q -> Windows] : Q \in SUBSET Quantiles}]
    BY DEF TaskPredictions
  <1>2. PICK Q \in SUBSET Quantiles : p[r] \in [Q -> Windows]
    BY <1>1
  <1>3. p[r][z] \in Seq(Int)
    BY <1>2, WindowsAreNumbers
  <1> QED
    BY <1>3

\* Whether a prediction is in each window the sum of what the entries S have there.
IsSumOver(v, entries, S) ==
    \A r \in DOMAIN v : \A z \in DOMAIN v[r] :
        /\ v[r][z] \in Seq(Int)
        /\ \A k \in DOMAIN v[r][z] :
              /\ \A i \in S : /\ r \in DOMAIN entries[i].of
                              /\ z \in DOMAIN entries[i].of[r]
                              /\ k \in DOMAIN entries[i].of[r][z]
              /\ v[r][z][k] = SumUpTo([i \in S |-> entries[i].of[r][z][k]], Len(entries))

\* The first task's prediction is the sum over it.
LEMMA SumOverOne ==
    ASSUME NEW entries \in RawPredictions, NEW x \in DOMAIN entries
    PROVE  IsSumOver(entries[x].of, entries, {x})
  <1> DEFINE p == entries[x].of
             N == Len(entries)
  <1>1. p \in TaskPredictions /\ N \in Nat /\ x \in 1 .. N
    BY EntriesType
  <1>2. ASSUME NEW r \in DOMAIN p, NEW z \in DOMAIN p[r], NEW k \in DOMAIN p[r][z]
        PROVE  p[r][z][k] = SumUpTo([i \in {x} |-> entries[i].of[r][z][k]], N)
    <2>1. PICK a : a = [i \in {} |-> 0]
      OBVIOUS
    <2>2. PICK b : b = [i \in {x} |-> entries[i].of[r][z][k]]
      OBVIOUS
    <2>3. DOMAIN a = {} /\ DOMAIN b = {x} /\ b[x] = p[r][z][k]
      BY <2>1, <2>2
    <2>4. p[r][z][k] \in Int
      BY <1>1, TaskPredictionType
    <2> HIDE DEF p, N
    <2>5. SumUpTo(b, N) = SumUpTo(a, N) + b[x]
      BY <1>1, <2>3, <2>4, SumOfOneMore
    <2>6. SumUpTo(a, N) = 0
      BY <1>1, <2>3, SumOfNone
    <2> QED
      BY <2>2, <2>3, <2>4, <2>5, <2>6
  <1>3. \A r \in DOMAIN p : \A z \in DOMAIN p[r] : p[r][z] \in Seq(Int)
    BY <1>1, TaskPredictionType
  <1> QED
    BY <1>2, <1>3 DEF IsSumOver

\* What another task's prediction is added to becomes the sum over one more, unless
\* it raises.
LEMMA AddSums ==
    ASSUME NEW entries \in RawPredictions, NEW S \in SUBSET DOMAIN entries,
           NEW x \in DOMAIN entries, x \notin S, NEW v, IsSumOver(v, entries, S),
           Add(v, entries[x].of) # NoPrediction
    PROVE  v # NoPrediction /\ IsSumOver(Add(v, entries[x].of), entries, S \cup {x})
  <1> DEFINE p == entries[x].of
             N == Len(entries)
             s == Add(v, p)
  <1>1. p \in TaskPredictions /\ N \in Nat /\ x \in 1 .. N
    BY EntriesType
  <1>2. v # NoPrediction /\ Covers(p, v)
    BY DEF Add
  <1>3. s = [r \in DOMAIN v |-> [z \in DOMAIN v[r] |-> [i \in DOMAIN v[r][z] |->
                v[r][z][i] + p[r][z][i]]]]
    BY <1>2 DEF Add
  <1> HIDE DEF s
  <1>4. ASSUME NEW r \in DOMAIN s, NEW z \in DOMAIN s[r]
        PROVE  /\ s[r][z] \in Seq(Int)
               /\ \A k \in DOMAIN s[r][z] :
                     /\ \A i \in S \cup {x} : /\ r \in DOMAIN entries[i].of
                                              /\ z \in DOMAIN entries[i].of[r]
                                              /\ k \in DOMAIN entries[i].of[r][z]
                     /\ s[r][z][k] = SumUpTo([i \in S \cup {x} |-> entries[i].of[r][z][k]], N)
    <2>1. r \in DOMAIN v /\ z \in DOMAIN v[r]
      BY <1>3
    <2>2. PICK w : w = v[r][z]
      OBVIOUS
    <2>3. s[r][z] = [i \in DOMAIN w |-> w[i] + p[r][z][i]]
      BY <1>3, <2>1, <2>2
    <2>4. w \in Seq(Int) /\ Len(w) \in Nat /\ DOMAIN w = 1 .. Len(w)
      <3>1. w \in Seq(Int)
        BY <2>1, <2>2 DEF IsSumOver
      <3> QED
        BY <3>1
    <2>5. ASSUME NEW k \in DOMAIN w
          PROVE  /\ r \in DOMAIN p /\ z \in DOMAIN p[r] /\ k \in DOMAIN p[r][z]
                 /\ p[r][z][k] \in Int /\ w[k] \in Int
      <3>1. w # <<>>
        BY <2>4
      <3>2. r \in DOMAIN p /\ z \in DOMAIN p[r] /\ Len(p[r][z]) >= Len(w)
        BY <1>2, <2>1, <2>2, <3>1 DEF Covers
      <3>3. Len(p[r][z]) \in Nat /\ DOMAIN p[r][z] = 1 .. Len(p[r][z])
        BY <1>1, <3>2, TaskPredictionType
      <3>4. k \in DOMAIN p[r][z]
        BY <2>4, <3>2, <3>3
      <3>5. p[r][z][k] \in Int
        BY <1>1, <3>2, <3>4, TaskPredictionType
      <3>6. w[k] \in Int
        BY <2>4
      <3> QED
        BY <3>2, <3>4, <3>5, <3>6
    <2>6. s[r][z] \in Seq(Int)
      <3>1. s[r][z] \in [1 .. Len(w) -> Int]
        BY <2>3, <2>4, <2>5
      <3> QED
        BY <2>4, <3>1, FunctionIsSeq
    <2>7. ASSUME NEW k \in DOMAIN s[r][z]
          PROVE  /\ \A i \in S \cup {x} : /\ r \in DOMAIN entries[i].of
                                          /\ z \in DOMAIN entries[i].of[r]
                                          /\ k \in DOMAIN entries[i].of[r][z]
                 /\ s[r][z][k] = SumUpTo([i \in S \cup {x} |-> entries[i].of[r][z][k]], N)
      <3>1. k \in DOMAIN w /\ s[r][z][k] = w[k] + p[r][z][k]
        BY <2>3
      <3>2. /\ \A i \in S : /\ r \in DOMAIN entries[i].of
                            /\ z \in DOMAIN entries[i].of[r]
                            /\ k \in DOMAIN entries[i].of[r][z]
            /\ w[k] = SumUpTo([i \in S |-> entries[i].of[r][z][k]], N)
        BY <2>1, <2>2, <3>1 DEF IsSumOver
      <3>3. \A i \in S \cup {x} : /\ r \in DOMAIN entries[i].of
                                  /\ z \in DOMAIN entries[i].of[r]
                                  /\ k \in DOMAIN entries[i].of[r][z]
        BY <2>5, <3>1, <3>2
      <3>4. \A i \in S \cup {x} : entries[i].of[r][z][k] \in Int
        <4>1. \A i \in S \cup {x} : entries[i].of \in TaskPredictions
          BY EntriesType
        <4> QED
          BY <3>3, <4>1, TaskPredictionType
      <3>5. PICK a : a = [i \in S |-> entries[i].of[r][z][k]]
        OBVIOUS
      <3>6. PICK b : b = [i \in S \cup {x} |-> entries[i].of[r][z][k]]
        OBVIOUS
      <3>7. /\ DOMAIN a = S /\ DOMAIN b = DOMAIN a \cup {x} /\ x \notin DOMAIN a
            /\ \A y \in DOMAIN b : b[y] \in Int
            /\ \A y \in DOMAIN a : a[y] = b[y]
            /\ b[x] = p[r][z][k]
        BY <3>4, <3>5, <3>6
      <3> HIDE DEF N, p
      <3>8. SumUpTo(b, N) = SumUpTo(a, N) + b[x]
        BY <1>1, <3>7, SumOfOneMore
      <3> QED
        BY <3>1, <3>2, <3>3, <3>5, <3>6, <3>7, <3>8
    <2> QED
      BY <2>6, <2>7
  <1>5. IsSumOver(s, entries, S \cup {x})
    BY <1>4 DEF IsSumOver
  <1> QED
    BY <1>2, <1>5 DEF s

\* The entries that are in the sum when the first n have been looked at.
Summed(entries, n) == {LastOf(entries, i) : i \in {i \in 1 .. n : IsFirst(entries, i)}}

\* In the end these are the last entries of all tasks.
LEMMA SummedAreCounted ==
    ASSUME NEW entries \in RawPredictions
    PROVE  Summed(entries, Len(entries)) =
              {i \in DOMAIN entries : \A j \in i + 1 .. Len(entries) : entries[j].task # entries[i].task}
  <1> DEFINE N == Len(entries)
             C == {i \in DOMAIN entries : \A j \in i + 1 .. N : entries[j].task # entries[i].task}
  <1>1. N \in Nat /\ DOMAIN entries = 1 .. N
    BY EntriesType
  <1>2. ASSUME NEW i \in 1 .. N
        PROVE  LastOf(entries, i) \in C
    <2>1. i \in DOMAIN entries
      BY <1>1
    <2> QED
      BY <2>1, LastIsThere
  <1>3. ASSUME NEW c \in C
        PROVE  c \in Summed(entries, N)
    <2>1. PICK f \in DOMAIN entries : entries[f].task = entries[c].task /\ IsFirst(entries, f)
      BY FirstIsThere
    <2>2. PICK l : l = LastOf(entries, f)
      OBVIOUS
    <2>3. /\ l \in 1 .. N /\ c \in 1 .. N /\ entries[l].task = entries[c].task
          /\ \A k \in l + 1 .. N : entries[k].task # entries[c].task
          /\ \A k \in c + 1 .. N : entries[k].task # entries[c].task
      BY <1>1, <2>1, <2>2, LastIsThere
    <2>4. ~ (l < c) /\ ~ (c < l)
      <3>1. l < c => c \in l + 1 .. N
        BY <1>1, <2>3
      <3>2. c < l => l \in c + 1 .. N
        BY <1>1, <2>3
      <3> QED
        BY <2>3, <3>1, <3>2
    <2>5. l = c
      BY <2>3, <2>4
    <2> QED
      BY <1>1, <2>1, <2>2, <2>5 DEF Summed
  <1> QED
    BY <1>2, <1>3 DEF Summed

\* What is condensed of an answer is the sum over all of its tasks, each with its
\* last entry, if nothing has raised.
LEMMA CondenseSums ==
    ASSUME NEW entries \in RawPredictions, Condense(entries) # NoPrediction
    PROVE  IsSumOver(Condense(entries), entries,
              {i \in DOMAIN entries : \A j \in i + 1 .. Len(entries) : entries[j].task # entries[i].task})
  <1> DEFINE N == Len(entries)
  <1>1. N \in Nat /\ DOMAIN entries = 1 .. N /\ (entries = <<>> <=> N = 0)
    BY EntriesType
  <1>2. CASE entries = <<>>
    <2>1. Condense(entries) = << >> /\ DOMAIN Condense(entries) = {}
      BY <1>2 DEF Condense
    <2> QED
      BY <2>1 DEF IsSumOver
  <1>3. CASE entries # <<>>
    <2>1. N \in Nat \ {0}
      BY <1>1, <1>3
    <2>2. PICK f : /\ Condense(entries) = f[N]
                   /\ f[1] = ValueOf(entries, 1)
                   /\ \A m \in 2 .. N :
                         f[m] = IF IsFirst(entries, m) THEN Add(f[m - 1], ValueOf(entries, m))
                                ELSE f[m - 1]
      BY <1>1, <1>3, <2>1, CondenseSteps
    <2> DEFINE T == {n \in 0 .. N : n # 0 /\ f[n] # NoPrediction
                                       => IsSumOver(f[n], entries, Summed(entries, n))}
    <2>3. 0 \in T
      BY <1>1
    <2>4. ASSUME NEW n \in 1 .. N, n - 1 \in T
          PROVE  n \in T
      <3>1. SUFFICES ASSUME f[n] # NoPrediction
                     PROVE  IsSumOver(f[n], entries, Summed(entries, n))
        OBVIOUS
      <3> DEFINE l == LastOf(entries, n)
      <3>2. l \in DOMAIN entries /\ ValueOf(entries, n) = entries[l].of
            /\ entries[l].task = entries[n].task
        BY <1>1, LastIsThere
      <3> HIDE DEF l
      <3>3. CASE n = 1
        <4>1. IsFirst(entries, 1)
          BY DEF IsFirst
        <4>2. Summed(entries, n) = {l}
          BY <3>3, <4>1 DEF Summed, l
        <4>3. f[n] = entries[l].of
          BY <2>2, <3>2, <3>3
        <4> QED
          BY <3>2, <4>2, <4>3, SumOverOne
      <3>4. CASE n # 1 /\ IsFirst(entries, n)
        <4>1. n - 1 \in 1 .. N /\ n \in 2 .. N /\ 1 .. n = (1 .. n - 1) \cup {n}
          BY <3>4
        <4>2. Summed(entries, n) = Summed(entries, n - 1) \cup {l}
          BY <3>4, <4>1 DEF Summed, l
        <4>3. Summed(entries, n - 1) \subseteq DOMAIN entries
          BY <1>1, <4>1, LastIsThere DEF Summed
        <4>4. l \notin Summed(entries, n - 1)
          <5>1. ASSUME NEW i \in 1 .. n - 1, l = LastOf(entries, i)
                PROVE  FALSE
            <6>1. i \in DOMAIN entries
              BY <1>1
            <6>2. entries[i].task = entries[n].task
              BY <3>2, <5>1, <6>1, LastIsThere
            <6> QED
              BY <3>4, <6>2 DEF IsFirst
          <5> QED
            BY <5>1 DEF Summed
        <4>5. f[n] = Add(f[n - 1], entries[l].of)
          BY <2>2, <3>2, <3>4, <4>1
        <4>6. f[n - 1] # NoPrediction
          BY <3>1, <4>5 DEF Add
        <4>7. IsSumOver(f[n - 1], entries, Summed(entries, n - 1))
          BY <2>4, <4>1, <4>6
        <4>8. PICK S : S = Summed(entries, n - 1)
          OBVIOUS
        <4>9. PICK v : v = f[n - 1]
          OBVIOUS
        <4>10. /\ S \in SUBSET DOMAIN entries /\ l \notin S
               /\ IsSumOver(v, entries, S) /\ Add(v, entries[l].of) # NoPrediction
          BY <3>1, <4>3, <4>4, <4>5, <4>7, <4>8, <4>9
        <4>11. IsSumOver(Add(v, entries[l].of), entries, S \cup {l})
          BY <3>2, <4>10, AddSums
        <4> QED
          BY <4>2, <4>5, <4>8, <4>9, <4>11
      <3>5. CASE n # 1 /\ ~ IsFirst(entries, n)
        <4>1. n - 1 \in 1 .. N /\ n \in 2 .. N /\ 1 .. n = (1 .. n - 1) \cup {n}
          BY <3>5
        <4>2. Summed(entries, n) = Summed(entries, n - 1)
          BY <3>5, <4>1 DEF Summed
        <4>3. f[n] = f[n - 1]
          BY <2>2, <3>5, <4>1
        <4> QED
          BY <2>4, <3>1, <4>1, <4>2, <4>3
      <3> QED
        BY <3>3, <3>4, <3>5
    <2>5. N \in T
      <3> HIDE DEF T
      <3>1. \A n \in 0 .. N : n \in T
        BY <1>1, <2>3, <2>4, Induction
      <3> QED
        BY <1>1, <3>1
    <2> QED
      BY <2>1, <2>2, <2>5, SummedAreCounted
  <1> QED
    BY <1>2, <1>3

\* The prediction that is published is condensed of the answer.
PublishedInv ==
    stage = "done" => raw \in RawPredictions /\ prediction = Condense(raw)

\* For any answers of the service, with any number of entries: a prediction that is
\* published has in each of its windows, which are those of the first task, the sum
\* over the task ids of the answer, each with its last entry
\* (resource_usage_prediction.py:160-175, 288-297).
THEOREM PredictionsAreSums == UsageSpec => []PredictionIsTheSumOfTheTasks
  <1>1. UsageInit => PublishedInv
    BY DEF UsageInit, PublishedInv
  <1>2. PublishedInv /\ [UsageNext]_usageVars => PublishedInv'
    <2> SUFFICES ASSUME PublishedInv, [UsageNext]_usageVars PROVE PublishedInv'
      OBVIOUS
    <2>1. CASE UsageNext /\ ~ Predicted
      BY <2>1 DEF UsageNext, QueryAnswered, BuildUsage, QueryRaises, SendRequest, PublishedInv
    <2>2. CASE Predicted
      BY <2>2 DEF Predicted, PublishedInv
    <2>3. CASE UNCHANGED usageVars
      BY <2>3 DEF usageVars, PublishedInv
    <2> QED
      BY <2>1, <2>2, <2>3
  <1>3. PublishedInv => PredictionIsTheSumOfTheTasks
    <2> SUFFICES ASSUME PublishedInv, stage = "done", prediction # NoPrediction
                 PROVE  PredictionIsTheSumOfTheTasks
      BY DEF PredictionIsTheSumOfTheTasks
    <2>1. IsSumOver(prediction, raw, Counted)
      BY CondenseSums DEF PublishedInv, Counted
    <2> QED
      BY <2>1 DEF IsSumOver, PredictionIsTheSumOfTheTasks
  <1> QED
    BY <1>1, <1>2, <1>3, PTL DEF UsageSpec

=============================================================================
