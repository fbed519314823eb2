------------------------------- MODULE PodWatch -------------------------------
(***************************************************************************)
(* PodManager: a cache of the pods of this machine, kept by a thread that  *)
(* watches the cluster.  When the watch fails a new one is started, which  *)
(* announces the pods that exist as added, and says nothing of those that  *)
(* are gone; the cache is kept.  The cluster is external: a pod is created *)
(* and deleted once, and its name is not used again.                       *)
(***************************************************************************)
EXTENDS Naturals, Sequences, SequencesExt

CONSTANTS
    Pods,         \* pods of this machine
    MaxFailures   \* bound: times a watch fails

\* A machine has finitely many pods.
ASSUME PodsAreFinite == IsFiniteSet(Pods)

VARIABLES
    cluster,      \* life of each pod
    watch,        \* "down", or what the watch selects: "node" or "nothing"
    feed,         \* events of the watch that have not been handled
    cache,        \* PodManager.__pod_cache, "none" for a pod that is not in it
    failures,     \* watches that have failed
    lost          \* pods whose deletion no watch has announced

podVars == <<cluster, watch, feed, cache, failures, lost>>

\* "odd": running, with requested resources that cannot be parsed.
Objects == {"pending", "running", "odd"}
Lives == Objects \cup {"none", "gone"}
PodEvents ==
    [type : {"ADDED", "MODIFIED", "DELETED", "ERROR"}, name : Pods, object : Objects]

PodTypeOK ==
    /\ cluster \in [Pods -> Lives]
    /\ watch \in {"down", "node", "nothing"}
    /\ feed \in Seq(PodEvents)
    /\ cache \in [Pods -> Objects \cup {"none"}]
    /\ failures \in Nat
    /\ lost \in SUBSET Pods

PodInit ==
    /\ cluster \in [Pods -> {"none", "running"}]
    /\ watch = "down"
    /\ feed = <<>>
    /\ cache = [p \in Pods |-> "none"]
    /\ failures = 0
    /\ lost = {}

Exists(p) == cluster[p] \in Objects

-----------------------------------------------------------------------------
(* The cluster *)

Event(type, p, object) == [type |-> type, name |-> p, object |-> object]

Announce(event) == feed' = IF watch = "node" THEN Append(feed, event) ELSE feed

PodChanges(p, from, to, type) ==
    /\ cluster[p] = from
    /\ cluster' = [cluster EXCEPT ![p] = to]
    /\ Announce(Event(type, p, IF to = "gone" THEN from ELSE to))
    /\ lost' = IF to = "gone" /\ watch # "node" THEN lost \cup {p} ELSE lost
    /\ UNCHANGED <<watch, cache, failures>>

PodCreated(p) == PodChanges(p, "none", "pending", "ADDED")
PodStarts(p) == \E to \in {"running", "odd"} : PodChanges(p, "pending", to, "MODIFIED")
PodDeleted(p) == \E from \in Objects : PodChanges(p, from, "gone", "DELETED")

\* An event of a type the manager does not know.  Bound: one at a time.
OddEvent(p) ==
    /\ watch = "node"
    /\ feed = <<>>
    /\ Exists(p)
    /\ Announce(Event("ERROR", p, cluster[p]))
    /\ UNCHANGED <<cluster, watch, cache, failures, lost>>

-----------------------------------------------------------------------------
(* PodManager *)

\* Mutant: a new watch only announces what is new.
WatchResumes ==
    /\ watch = "down"
    /\ watch' = "node"
    /\ feed' = <<>>
    /\ UNCHANGED <<cluster, cache, failures, lost>>

\* A new watch announces what exists, in any order.  When the property service
\* does not know the instance id at this moment, the watch selects the pods of a
\* node named "None".
WatchStarts ==
    /\ watch = "down"
    /\ \/ /\ watch' = "node"
          /\ \E order \in SetToSeqs({p \in Pods : Exists(p)}) :
               feed' = [i \in DOMAIN order |-> Event("ADDED", order[i], cluster[order[i]])]
       \/ watch' = "nothing" /\ feed' = <<>>
    /\ UNCHANGED <<cluster, cache, failures, lost>>

\* Reading an event raises.  What was not handled yet is gone.
WatchFails ==
    /\ watch # "down"
    /\ failures < MaxFailures
    /\ failures' = failures + 1
    /\ watch' = "down"
    /\ feed' = <<>>
    /\ lost' = lost \cup {feed[i].name : i \in {j \in DOMAIN feed : feed[j].type = "DELETED"}}
    /\ UNCHANGED <<cluster, cache>>

\* Mutant: a pod that is modified is only stored if it is new.
HandleEventOnce ==
    /\ feed # <<>>
    /\ LET e == Head(feed) IN
         cache' = CASE e.type \in {"ADDED", "MODIFIED"} /\ cache[e.name] = "none" ->
                         [cache EXCEPT ![e.name] = e.object]
                    [] e.type = "DELETED" -> [cache EXCEPT ![e.name] = "none"]
                    [] OTHER -> cache
    /\ feed' = Tail(feed)
    /\ UNCHANGED <<cluster, watch, failures, lost>>

\* Mutant: a deleted pod stays in the cache, marked as such.
HandleEventMarking ==
    /\ feed # <<>>
    /\ LET e == Head(feed)
           object == IF e.type = "DELETED" THEN "gone" ELSE e.object
       IN  cache' = IF e.type = "ERROR" THEN cache ELSE [cache EXCEPT ![e.name] = object]
    /\ feed' = Tail(feed)
    /\ UNCHANGED <<cluster, watch, failures, lost>>

\* An event of a type that is not known is ignored.
HandleEvent ==
    /\ feed # <<>>
    /\ LET e == Head(feed) IN
         \/ e.type \in {"ADDED", "MODIFIED"} /\ cache' = [cache EXCEPT ![e.name] = e.object]
         \/ e.type = "DELETED" /\ cache' = [cache EXCEPT ![e.name] = "none"]
         \/ e.type \notin {"ADDED", "MODIFIED", "DELETED"} /\ UNCHANGED cache
    /\ feed' = Tail(feed)
    /\ UNCHANGED <<cluster, watch, failures, lost>>

Cluster ==
    \E p \in Pods : PodCreated(p) \/ PodStarts(p) \/ PodDeleted(p) \/ OddEvent(p)

PodManager == WatchStarts \/ WatchFails \/ HandleEvent

\* The watching thread starts watches and handles what they announce.
PodFairness == WF_podVars(WatchStarts) /\ WF_podVars(HandleEvent)

-----------------------------------------------------------------------------
(* Properties *)

Awaited(p) == \E i \in DOMAIN feed : feed[i].name = p

\* While the machine is watched, the cache is right about every pod of which
\* nothing is on the way, except for pods whose deletion fell between two
\* watches: they are there for good if they were there before.
CacheIsCurrent ==
    watch = "node" =>
        \A p \in Pods :
            Awaited(p) \/ p \in lost \/ cache[p] = (IF Exists(p) THEN cluster[p] ELSE "none")

\* Every pod of the machine gets into the cache, across watches that fail, unless
\* the watch selects nothing.
PodsBecomeKnown ==
    \A p \in Pods :
        Exists(p) ~> (cache[p] # "none" \/ ~Exists(p) \/ watch = "nothing")

=============================================================================
