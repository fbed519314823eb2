------------------------------ MODULE MCTelemetry ------------------------------
(***************************************************************************)
(* Small instances of EventLog and of UsagePrediction.  The two share      *)
(* nothing: "part" says which one a behaviour is of, so that their states  *)
(* are added and not multiplied.                                           *)
(***************************************************************************)
EXTENDS EventLog, UsagePrediction

CONSTANTS m1, m2, m3, w1, w2

MCResources == <<"cpu_usage", "mem_usage">>

\* Bound: one window, or two; the values tell the tasks' shares apart.
MCWindows == {<<1>>, <<2, 3>>}

VARIABLE part

vars == <<part, logVars, usageVars>>

Init ==
    /\ part \in {"log", "usage"}
    /\ LogInit
    /\ UsageInit

LogStep == part = "log" /\ LogNext /\ UNCHANGED <<part, usageVars>>

UsageStep == part = "usage" /\ UsageNext /\ UNCHANGED <<part, logVars>>

Next == LogStep \/ UsageStep

Spec == Init /\ [][Next]_vars /\ LogFairness

=============================================================================
