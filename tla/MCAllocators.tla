----------------------------- MODULE MCAllocators -----------------------------
(***************************************************************************)
(* Small instances of Allocators, and of RemoteIndexing for all the shapes *)
(* of CPU up to a bound.  The two share nothing but the numbering of       *)
(* threads: "part" says which one a behaviour is of, so that their states  *)
(* are added and not multiplied.                                           *)
(***************************************************************************)
EXTENDS Allocators, RemoteIndexing, TLC

CONSTANTS c1, c2, c3, MaxPackages, MaxCores, MaxThreads

Machine(size, counts, primary, secondary) ==
    [shape |-> size, counts |-> counts, primary |-> primary, secondary |-> secondary]

OneTwoThree == c1 :> 1 @@ c2 :> 2 @@ c3 :> 3
NoneTwoThree == c1 :> 0 @@ c2 :> 2 @@ c3 :> 3
ThreeThreeFour == c1 :> 3 @@ c2 :> 3 @@ c3 :> 4

\* The allocators of production, on 2 threads; the naive one alone, on 3 of
\* which 5 are asked, none of them by one workload; the greedy one on one
\* package of two cores, of 4 threads of which 6 are asked, and on two such
\* packages, of 8 threads of which 10 are.
SmallMachines ==
    {Machine(Shape(1, 2, 1), OneTwoThree, "remote", "naive"),
     Machine(Shape(1, 3, 1), NoneTwoThree, "naive", "naive"),
     Machine(Shape(1, 2, 2), OneTwoThree, "greedy", "naive"),
     Machine(Shape(2, 2, 2), ThreeThreeFour, "greedy", "noop")}

\* Bound: the shapes.
SmallShapes ==
    {Shape(p, c, t) : p \in 1 .. MaxPackages, c \in 1 .. MaxCores, t \in 1 .. MaxThreads}

VARIABLE part

MCInit ==
    /\ Init
    /\ IndexingInit
    /\ \/ part = "allocators" /\ shape = Shape(1, 1, 1)
       \/ part = "indexing" /\ machine = CHOOSE m \in Machines : TRUE

AllocatorsStep == part = "allocators" /\ Next /\ UNCHANGED <<part, indexingVars>>

IndexingStep == part = "indexing" /\ IndexingNext /\ UNCHANGED <<part, vars>>

MCNext == AllocatorsStep \/ IndexingStep

MCSpec == MCInit /\ [][MCNext]_<<part, vars, indexingVars>>

=============================================================================
