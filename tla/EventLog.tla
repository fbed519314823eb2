-------------------------------- MODULE EventLog --------------------------------
(***************************************************************************)
(* KeystoneEventLogManager: messages about allocations are put on a queue, *)
(* from which one thread sends them to a collector over HTTP.  A message   *)
(* that is answered with another status than 200 goes to the back of the   *)
(* queue; one whose sending raises is given up.                            *)
(***************************************************************************)
EXTENDS Naturals, Sequences, SequencesExt, FiniteSets

CONSTANTS
    Messages,     \* bound: the messages that are reported, each once
    MaxRefusals,  \* bound: answers with another status than 200
    NoMessage

ASSUME NoMessageIsNone == NoMessage \notin Messages
ASSUME MessagesAreFinite == IsFiniteSet(Messages)
ASSUME RefusalsAreBounded == MaxRefusals \in Nat

VARIABLES
    enabled,      \* whether the address could be read when the manager was made
    reported,     \* messages that report_event has been called with
    q,            \* __q
    sending,      \* the message the thread has taken off the queue
    stuck,        \* the request for it is never answered: it has no timeout
    succeeded, retried, failed,   \* the counters of the manager
    collected,    \* what the collector has stored of each message (external)
    answered      \* messages whose sending was answered with another status

logVars == <<enabled, reported, q, sending, stuck, succeeded, retried, failed, collected, answered>>

LogTypeOK ==
    /\ enabled \in BOOLEAN
    /\ reported \in SUBSET Messages
    /\ q \in Seq(Messages)
    /\ sending \in Messages \cup {NoMessage}
    /\ stuck \in BOOLEAN
    /\ succeeded \in Nat /\ retried \in 0 .. MaxRefusals /\ failed \in Nat
    /\ collected \in [Messages -> Nat]
    /\ answered \in SUBSET Messages

LogInit ==
    /\ enabled \in BOOLEAN
    /\ reported = {}
    /\ q = <<>>
    /\ sending = NoMessage
    /\ stuck = FALSE
    /\ succeeded = 0 /\ retried = 0 /\ failed = 0
    /\ collected = [m \in Messages |-> 0]
    /\ answered = {}

-----------------------------------------------------------------------------
\* An allocation is reported.  Nothing raises: what cannot be sent is found out
\* when it is sent, and the queue has no limit.
ReportEvent(m) ==
    /\ m \notin reported
    /\ reported' = reported \cup {m}
    /\ q' = Append(q, m)
    /\ UNCHANGED <<enabled, sending, stuck, succeeded, retried, failed, collected, answered>>

\* A message is taken off the queue, and dropped when there is no address.
Take ==
    /\ sending = NoMessage
    /\ q # <<>>
    /\ sending' = IF enabled THEN Head(q) ELSE NoMessage
    /\ q' = Tail(q)
    /\ UNCHANGED <<enabled, stuck, reported, succeeded, retried, failed, collected, answered>>

\* External: the collector may have stored the message, whatever it answers.
Collects(stored) ==
    collected' = IF stored THEN [collected EXCEPT ![sending] = @ + 1] ELSE collected

Accepted ==
    /\ sending # NoMessage /\ ~stuck
    /\ Collects(TRUE)
    /\ succeeded' = succeeded + 1
    /\ sending' = NoMessage
    /\ UNCHANGED <<enabled, stuck, reported, q, retried, failed, answered>>


RefusedForGood ==
    /\ sending # NoMessage /\ ~stuck
    /\ retried < MaxRefusals
    /\ \E stored \in BOOLEAN : Collects(stored)
    /\ retried' = retried + 1
    /\ answered' = answered \cup {sending}
    /\ sending' = NoMessage
    /\ UNCHANGED <<enabled, stuck, reported, q, succeeded, failed>>

\* The answer is another status: the message goes to the back of the queue.
Refused ==
    /\ sending # NoMessage /\ ~stuck
    /\ retried < MaxRefusals
    /\ \E stored \in BOOLEAN : Collects(stored)
    /\ retried' = retried + 1
    /\ q' = Append(q, sending)
    /\ answered' = answered \cup {sending}
    /\ sending' = NoMessage
    /\ UNCHANGED <<enabled, stuck, reported, succeeded, failed>>

\* Mutant: a message whose sending raises is sent again.
RaisesAndRetries ==
    /\ sending # NoMessage /\ ~stuck
    /\ \E stored \in BOOLEAN : Collects(stored)
    /\ Len(q) < Cardinality(Messages)
    /\ collected[sending] < 2
    /\ q' = Append(q, sending)
    /\ sending' = NoMessage
    /\ UNCHANGED <<enabled, stuck, reported, succeeded, retried, failed, answered>>

\* The connection fails, before or after the message was stored.
Raises ==
    /\ sending # NoMessage /\ ~stuck
    /\ \E stored \in BOOLEAN : Collects(stored)
    /\ failed' = failed + 1
    /\ sending' = NoMessage
    /\ UNCHANGED <<enabled, stuck, reported, q, succeeded, retried, answered>>

\* External: the collector accepts the connection and never answers.
Hangs ==
    /\ sending # NoMessage /\ ~stuck
    /\ stuck' = TRUE
    /\ \E stored \in BOOLEAN : Collects(stored)
    /\ UNCHANGED <<enabled, reported, q, sending, succeeded, retried, failed, answered>>

Send == Accepted \/ Refused \/ Raises

LogNext == (\E m \in Messages : ReportEvent(m)) \/ Take \/ Send \/ Hangs

\* The thread runs; a request is answered, fails, or hangs for ever.
LogFairness == WF_logVars(Take) /\ WF_logVars(Send \/ Hangs)

LogSpec == LogInit /\ [][LogNext]_logVars

-----------------------------------------------------------------------------
(* Properties *)

InHand == Len(q) + (IF sending = NoMessage THEN 0 ELSE 1)

\* Every message is in one place: counted as sent or failed, once, or waiting.
\* Without an address what leaves the queue is counted nowhere.
MessagesAreAccountedFor ==
    LET placed == succeeded + failed + InHand
    IN  IF enabled THEN placed = Cardinality(reported)
        ELSE placed <= Cardinality(reported) /\ succeeded = 0

\* The collector stores a message twice only if it has refused it once.
DuplicatesWereRefused == \A m \in Messages : collected[m] > 1 => m \in answered


=============================================================================
