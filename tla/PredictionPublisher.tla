-------------------------- MODULE PredictionPublisher --------------------------
(***************************************************************************)
(* ResourceUsagePredictionHandler and KubernetesPredictedUsagePublisher:   *)
(* every event gets a thread of its own.  Those of "predict usage" events  *)
(* publish, one at a time, what a remote service predicts for the pods in  *)
(* the cache, as an object of the cluster; and the thread that reports     *)
(* metrics hands over the counts and sets them to zero.                    *)
(***************************************************************************)
EXTENDS PodWatch, FiniteSets

CONSTANTS
    Threads,      \* bound: the events that are handled, a thread for each
    MaxHangs,     \* bound: requests of a publication that are never answered
    NoThread

ASSUME NoThreadIsNone == NoThread \notin Threads
ASSUME ThreadsAreFinite == IsFiniteSet(Threads)

VARIABLES
    thread,       \* where each thread is
    publishLock,  \* the thread that holds __publish_lock, or NoThread
    snapshot,     \* of each thread: the running pods it has read, and the age of this
    object,       \* the snapshot that is published, of age 0 when there is none
    age,          \* how many snapshots there have been
    counts,       \* __publish_success_count and __publish_failure_count
    registry,     \* what they add up to where they were reported
    reporting,    \* whether the reporting thread holds __metric_lock
    hangs

publishVars == <<thread, publishLock, snapshot, object, age, counts, registry, reporting, hangs>>
vars == <<podVars, publishVars>>

Counters == {"success", "failure"}
Steps == {"new", "wait", "check", "read", "predict", "hung", "node", "patch",
          "create", "succeed", "fail", "published", "failed", "ignored"}
Snapshots == [pods : SUBSET Pods, age : Nat]

PublishTypeOK ==
    /\ thread \in [Threads -> Steps]
    /\ publishLock \in Threads \cup {NoThread}
    /\ snapshot \in [Threads -> Snapshots]
    /\ object \in Snapshots
    /\ age \in Nat
    /\ counts \in [Counters -> Nat]
    /\ registry \in [Counters -> Nat]
    /\ reporting \in BOOLEAN
    /\ hangs \in Nat

NoSnapshot == [pods |-> {}, age |-> 0]
NoCounts == [k \in Counters |-> 0]

Init ==
    /\ PodInit
    /\ thread = [t \in Threads |-> "new"]
    /\ publishLock = NoThread
    /\ snapshot = [t \in Threads |-> NoSnapshot]
    /\ object = NoSnapshot
    /\ age = 0
    /\ counts = NoCounts
    /\ registry = NoCounts
    /\ reporting = FALSE
    /\ hangs = 0

-----------------------------------------------------------------------------
(* handle and _handle *)

Goes(t, from, to) == thread[t] = from /\ thread' = [thread EXCEPT ![t] = to]

\* Every event gets its thread, which looks at the kind of event first.
Handle(t) ==
    /\ Goes(t, "new", "wait") \/ Goes(t, "new", "ignored")
    /\ UNCHANGED <<publishLock, snapshot, object, age, counts, registry, reporting, hangs>>

\* Mutant: the lock is not taken.
TakeNoLock(t) ==
    /\ Goes(t, "wait", "check")
    /\ UNCHANGED <<publishLock, snapshot, object, age, counts, registry, reporting, hangs>>

TakeLock(t) ==
    /\ publishLock = NoThread
    /\ Goes(t, "wait", "check")
    /\ publishLock' = t
    /\ UNCHANGED <<snapshot, object, age, counts, registry, reporting, hangs>>

\* Mutant: an exception leaves the lock taken.
LeaveLocked(t, outcome) ==
    /\ thread' = [thread EXCEPT ![t] = outcome]
    /\ publishLock' = IF outcome = "fail" THEN publishLock ELSE NoThread
    /\ UNCHANGED <<age, registry, reporting, hangs>>

\* publish returns or raises, and the lock is released.
Leave(t, outcome) ==
    /\ thread' = [thread EXCEPT ![t] = outcome]
    /\ publishLock' = NoThread
    /\ UNCHANGED <<age, registry, reporting, hangs>>

\* Mutant: the counts are not protected from the thread that reports them.
CountUnlocked(t, outcome, counter, end) ==
    /\ Goes(t, outcome, end)
    /\ counts' = [counts EXCEPT ![counter] = @ + 1]
    /\ UNCHANGED <<publishLock, snapshot, object, age, registry, reporting, hangs>>

Count(t, outcome, counter, end) ==
    /\ ~reporting
    /\ Goes(t, outcome, end)
    /\ counts' = [counts EXCEPT ![counter] = @ + 1]
    /\ UNCHANGED <<publishLock, snapshot, object, age, registry, reporting, hangs>>

-----------------------------------------------------------------------------
(* publish, of the thread that holds the lock *)

IsRunning(p) == cache[p] \in {"running", "odd"}

TakeSnapshot(t, pods) ==
    /\ age' = age + 1
    /\ snapshot' = [snapshot EXCEPT ![t] = [pods |-> pods, age |-> age']]

\* Without pods in the cache nothing is asked of the prediction service.
CheckPods(t) ==
    /\ \/ Goes(t, "check", "read") /\ (\E p \in Pods : cache[p] # "none")
          /\ UNCHANGED <<snapshot, age>>
       \/ Goes(t, "check", "node") /\ (\A p \in Pods : cache[p] = "none")
          /\ TakeSnapshot(t, {})
    /\ UNCHANGED <<publishLock, object, counts, registry, reporting, hangs>>

\* The requested resources of the pods in the cache can be parsed.
ResourcesAreParsed == \A p \in Pods : cache[p] # "odd"

\* The pods are read again, and only the running ones are kept.  When one of them
\* cannot be parsed, there is no prediction for any.
ReadPods(t) ==
    \/ /\ Goes(t, "read", "predict")
       /\ ResourcesAreParsed
       /\ TakeSnapshot(t, {p \in Pods : IsRunning(p)})
       /\ UNCHANGED <<publishLock, object, counts, registry, reporting, hangs>>
    \/ /\ thread[t] = "read"
       /\ ~ResourcesAreParsed
       /\ Leave(t, "fail")
       /\ UNCHANGED <<snapshot, object, counts>>

\* External: a service takes a request and never answers it.  None has a timeout:
\* the thread waits for ever, with the lock.
RequestHangs(t, step) ==
    /\ hangs < MaxHangs
    /\ hangs' = hangs + 1
    /\ Goes(t, step, "hung")
    /\ UNCHANGED <<publishLock, age, registry, reporting>>

\* The usage of the pods is asked for, then the address of the prediction service,
\* then what it predicts.  It answers; or there is no usable answer, which raises.
Predict(t) ==
    \/ /\ Goes(t, "predict", "node")
       /\ UNCHANGED <<publishLock, snapshot, object, age, counts, registry, reporting, hangs>>
    \/ /\ thread[t] = "predict"
       /\ Leave(t, "fail") \/ RequestHangs(t, "predict")
       /\ UNCHANGED <<snapshot, object, counts>>

\* get_node reads the node from the cluster, for the name of the object.
GetNode(t) ==
    \/ /\ Goes(t, "node", "patch")
       /\ UNCHANGED <<publishLock, snapshot, object, age, counts, registry, reporting, hangs>>
    \/ /\ thread[t] = "node"
       /\ Leave(t, "fail") \/ RequestHangs(t, "node")
       /\ UNCHANGED <<snapshot, object, counts>>

\* The object is changed; or there is an error or no answer, in which case it may
\* be changed too.  An error of the API is logged and taken for success.
Patch(t) ==
    \/ /\ object.age = 0
       /\ Goes(t, "patch", "create")
       /\ UNCHANGED <<publishLock, snapshot, object, age, counts, registry, reporting, hangs>>
    \/ /\ thread[t] = "patch"
       /\ \/ object.age # 0 /\ object' = snapshot[t]
          \/ UNCHANGED object
       /\ Leave(t, "succeed") \/ Leave(t, "fail") \/ RequestHangs(t, "patch")
       /\ UNCHANGED <<snapshot, counts>>

\* There was no object.  Any error raises.
Create(t) ==
    /\ thread[t] = "create"
    /\ \/ object' = snapshot[t] /\ Leave(t, "succeed")
       \/ /\ object' \in {object, snapshot[t]}
          /\ Leave(t, "fail") \/ RequestHangs(t, "create")
    /\ UNCHANGED <<snapshot, counts>>

-----------------------------------------------------------------------------
(* report_metrics *)

\* The counts are handed over ...
ReportCounts ==
    /\ ~reporting
    /\ reporting' = TRUE
    /\ registry' = [k \in Counters |-> registry[k] + counts[k]]
    /\ UNCHANGED <<thread, publishLock, snapshot, object, age, counts, hangs>>

\* ... and set to zero.
ResetCounts ==
    /\ reporting
    /\ reporting' = FALSE
    /\ counts' = NoCounts
    /\ UNCHANGED <<thread, publishLock, snapshot, object, age, registry, hangs>>

-----------------------------------------------------------------------------
Publish(t) ==
    \/ TakeLock(t)
    \/ CheckPods(t)
    \/ ReadPods(t)
    \/ Predict(t)
    \/ GetNode(t)
    \/ Patch(t)
    \/ Create(t)

CountOutcome(t) ==
    \/ Count(t, "succeed", "success", "published")
    \/ Count(t, "fail", "failure", "failed")

Report == ReportCounts \/ ResetCounts

Next ==
    \/ (Cluster \/ PodManager) /\ UNCHANGED publishVars
    \/ /\ \E t \in Threads : Handle(t) \/ Publish(t) \/ CountOutcome(t)
       /\ UNCHANGED podVars
    \/ Report /\ UNCHANGED podVars

\* Threads run; the metric lock, which is taken once a minute, is got in the end.
Fairness ==
    /\ PodFairness
    /\ \A t \in Threads : WF_vars(Publish(t) /\ UNCHANGED podVars)
    /\ WF_vars(ResetCounts /\ UNCHANGED podVars)
    /\ \A t \in Threads : SF_vars(CountOutcome(t) /\ UNCHANGED podVars)

Spec == Init /\ [][Next]_vars
FairSpec == Spec /\ Fairness

-----------------------------------------------------------------------------
(* Properties *)

TypeOK == PodTypeOK /\ PublishTypeOK

\* A later publication is of later pods: threads that overlap never put an older
\* state of the machine back.
PublishedNeverGoesBack == [][object'.age >= object.age]_vars

In(step) == Cardinality({t \in Threads : thread[t] \in step})
Counted(k) == registry[k] + counts[k]

\* Every publication that has ended is counted once, as a success or a failure,
\* however it meets the report of the counts.
EveryPublicationIsCounted ==
    ~reporting =>
        /\ Counted("success") = In({"published"})
        /\ Counted("failure") = In({"failed"})

\* Every event that asks for a publication gets to its end, whatever others fail
\* with.  The exception: a request of one of them is never answered, by the service
\* of the usage, of the properties or of the predictions or by the API server of
\* the cluster (get_node, patch, create), and it keeps the lock.
PublicationsEnd ==
    \A t \in Threads :
        (thread[t] = "wait")
            ~> (thread[t] \in {"published", "failed"} \/ In({"hung"}) > 0)

=============================================================================
