---------------------------- MODULE EventDelivery ----------------------------
(***************************************************************************)
(* What the event manager promises about container events: the events that *)
(* docker announces are given to the container batch handler once each, in *)
(* batches that are consecutive pieces of the stream.  Within a batch the  *)
(* order of starts and dies is lost.  When the stream of events is closed  *)
(* only the end of what was announced may never be given.                  *)
(***************************************************************************)
EXTENDS Naturals, Sequences, Selection

CONSTANT Containers

VARIABLES
    pending,      \* events announced and not yet given to the handler
    given,        \* the batch the handler has been given, or NoBatch
    open          \* whether the stream of events is open

vars == <<pending, given, open>>

ContainerEvents == [action : {"start", "die"}, name : Containers]

Names(events, action) ==
    LET chosen == Select(events, [action : {action}, name : Containers])
    IN  [i \in DOMAIN chosen |-> chosen[i].name]

\* __get_container_batch_event: the starts and the dies, each in order.
BatchOf(events) ==
    [action |-> "container_batch",
     starts |-> Names(events, "start"), dies |-> Names(events, "die")]

NoBatch == BatchOf(<<>>)

Init ==
    /\ pending = <<>>
    /\ given = NoBatch
    /\ open = TRUE

Announce(e) ==
    /\ open
    /\ pending' = Append(pending, e)
    /\ UNCHANGED <<given, open>>

Give ==
    /\ given = NoBatch
    /\ \E k \in 1 .. Len(pending) :
         /\ given' = BatchOf(SubSeq(pending, 1, k))
         /\ pending' = SubSeq(pending, k + 1, Len(pending))
    /\ UNCHANGED open

Finish ==
    /\ given # NoBatch
    /\ given' = NoBatch
    /\ UNCHANGED <<pending, open>>

\* An end of what is pending may never be given.
Lose == \E k \in 0 .. Len(pending) : pending' = SubSeq(pending, 1, k)

Close ==
    /\ open' = FALSE
    /\ Lose
    /\ UNCHANGED given

Drop ==
    /\ ~open
    /\ Lose
    /\ UNCHANGED <<given, open>>

Next ==
    \/ \E e \in ContainerEvents : Announce(e)
    \/ Give
    \/ Finish
    \/ Close
    \/ Drop

Spec == Init /\ [][Next]_vars
\* The handler is given what is pending, and comes to an end with it.
Fairness == WF_vars(Give) /\ WF_vars(Finish)

=============================================================================
