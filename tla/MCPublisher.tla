------------------------------ MODULE MCPublisher ------------------------------
(* A small instance of PredictionPublisher for TLC. *)
EXTENDS PredictionPublisher

CONSTANTS p1, p2, e1, e2

\* Bound: the second pod has come and gone before the first event is handled; if
\* its deletion was lost, it is one that was running and is left in the cache.
OneIsOver ==
    /\ cluster[p2] = "gone"
    /\ ~Awaited(p2)
    /\ p2 \in lost => IsRunning(p2)

MCNext ==
    /\ Next
    /\ thread' # [t \in Threads |-> "new"] => OneIsOver

MCSpec == Init /\ [][MCNext]_vars /\ Fairness

=============================================================================
