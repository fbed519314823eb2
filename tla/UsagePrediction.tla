---------------------------- MODULE UsagePrediction ----------------------------
(***************************************************************************)
(* What the prediction of an agent's usage is made of: one query per       *)
(* resource for what the workloads have used, whose samples are padded to  *)
(* one length and sent to the prediction service; and the service's answer *)
(* per task, condensed to one prediction for the agent.                    *)
(***************************************************************************)
EXTENDS Integers, Sequences, SequencesExt, FiniteSets

CONSTANTS
    Resources,    \* the resources in the order they are asked for
    Workloads,
    UsageLength,  \* samples of a series in a request (60 in the code)
    MaxMinutes,   \* bound: a series has samples of the minutes 1 .. MaxMinutes
    MaxSeries,    \* bound: series in the answer to a query
    NaN,          \* what a series that is too short is padded with
    PredictedResources,   \* RESOURCE_KEYS
    Quantiles,
    Windows,      \* bound: the lists of predictions per window
    Tasks,        \* task ids of an answer; the unnamed one among them
    MaxTasks,     \* bound: entries in the answer of the service
    NoPrediction

ASSUME ResourcesDiffer ==
    \A i, j \in 1 .. Len(Resources) : Resources[i] = Resources[j] => i = j

ASSUME UsageAssumption ==
    /\ UsageLength \in Nat \ {0}
    /\ NaN \notin Nat
    /\ MaxMinutes \in Nat /\ MaxSeries \in Nat /\ MaxTasks \in Nat
    /\ MaxMinutes > UsageLength  \* a query covers more minutes than are kept
    /\ Resources \in Seq(ToSet(Resources))

\* The samples of a prediction are summed; the model's are whole numbers.
ASSUME WindowsAreNumbers == Windows \subseteq Seq(Int)

VARIABLES
    stage,        \* where the call for a prediction is
    answers,      \* the answers to the queries so far, one per resource
    usage,        \* GlobalResourceUsage
    usageFailures,
    raw,          \* "predictions" of the service's answer
    prediction    \* CondensedResourceUsagePrediction

usageVars == <<stage, answers, usage, usageFailures, raw, prediction>>

UsageInit ==
    /\ stage = "querying"
    /\ answers = <<>>
    /\ usage = << >>
    /\ usageFailures = 0
    /\ raw = <<>>
    /\ prediction = NoPrediction

-----------------------------------------------------------------------------
(* Usage *)

\* The samples of one task in the order of time, by the minute they are of.
Series ==
    {s \in BoundedSeq(1 .. MaxMinutes, MaxMinutes) :
        s # <<>> /\ \A i, j \in DOMAIN s : i < j => s[i] < s[j]}

\* External: an answer has some series, also two of a task; or the status is
\* not 200, or the answer has none: then there is none.
Answers == BoundedSeq([task : Workloads, values : Series], MaxSeries)

\* The query of a resource is answered; the last series of a task counts.
QueryAnswered ==
    /\ stage = "querying"
    /\ Len(answers) < Len(Resources)
    /\ \E a \in Answers : answers' = Append(answers, a)
    /\ UNCHANGED <<stage, usage, usageFailures, raw, prediction>>

ToDict(answer) ==
    LET Of(w) == {k \in DOMAIN answer : answer[k].task = w}
    IN  [w \in {answer[k].task : k \in DOMAIN answer} |-> answer[Max(Of(w))].values]

\* Mutant: the oldest samples are kept.
PadOldest(values) ==
    IF Len(values) > UsageLength THEN SubSeq(values, 1, UsageLength)
    ELSE [i \in 1 .. UsageLength - Len(values) |-> NaN] \o values

\* A deque of UsageLength elements: when it is full, each that is put in at the
\* back pushes out the one in front.  It is not full when there is something to
\* put in front.
Pad(values) ==
    LET deque[n \in 0 .. Len(values)] ==
            IF n = 0 THEN <<>>
            ELSE IF Len(deque[n - 1]) = UsageLength THEN Append(Tail(deque[n - 1]), values[n])
            ELSE Append(deque[n - 1], values[n])
    IN  [i \in 1 .. UsageLength - Len(values) |-> NaN] \o deque[Len(values)]

\* All queries are done: a resource without a series is not in the usage.
BuildUsage ==
    /\ stage = "querying"
    /\ Len(answers) = Len(Resources)
    /\ LET named == {i \in DOMAIN answers : answers[i] # <<>>}
       IN  usage' = [r \in {Resources[i] : i \in named} |->
                        LET d == ToDict(answers[CHOOSE i \in named : Resources[i] = r])
                        IN  [w \in DOMAIN d |-> Pad(d[w])]]
    /\ stage' = "built"
    /\ UNCHANGED <<answers, usageFailures, raw, prediction>>

\* Mutant: what the earlier queries have brought is kept when one raises.
QueryRaisesKeeping ==
    /\ stage = "querying"
    /\ Len(answers) < Len(Resources)
    /\ answers' = answers \o [i \in 1 .. Len(Resources) - Len(answers) |-> <<>>]
    /\ usageFailures' = usageFailures + 1
    /\ UNCHANGED <<stage, usage, raw, prediction>>

\* A query raises: it takes what the earlier ones have brought with it.
QueryRaises ==
    /\ stage = "querying"
    /\ Len(answers) < Len(Resources)
    /\ usage' = << >>
    /\ usageFailures' = usageFailures + 1
    /\ stage' = "built"
    /\ UNCHANGED <<answers, raw, prediction>>

\* The request of a workload: what the usage has of it, by resource.
PastUsage(u, w) == [r \in {r \in DOMAIN u : w \in DOMAIN u[r]} |-> u[r][w]]

\* The request is sent; the usage it was made from is gone.
SendRequest ==
    /\ stage = "built"
    /\ stage' = "sent"
    /\ answers' = <<>>
    /\ usage' = << >>
    /\ UNCHANGED <<usageFailures, raw, prediction>>

-----------------------------------------------------------------------------
(* Prediction *)

\* External: per resource the quantiles that are predicted, none for "None".
TaskPredictions ==
    UNION {[R -> UNION {[Q -> Windows] : Q \in SUBSET Quantiles}] :
              R \in SUBSET PredictedResources}

RawPredictions == BoundedSeq([task : Tasks, of : TaskPredictions], MaxTasks)

\* The dictionary of predictions: a task has the place of its first entry and the
\* value of its last.
IsFirst(entries, i) == \A j \in 1 .. i - 1 : entries[j].task # entries[i].task

ValueOf(entries, i) ==
    LET last == CHOOSE j \in DOMAIN entries :
                   /\ entries[j].task = entries[i].task
                   /\ \A k \in j + 1 .. Len(entries) : entries[k].task # entries[i].task
    IN  entries[last].of

\* Whether "other" has a value wherever "out" has one.
Covers(other, out) ==
    /\ DOMAIN out \subseteq DOMAIN other
    /\ \A r \in DOMAIN out :
          \A q \in DOMAIN out[r] :
             out[r][q] # <<>> => q \in DOMAIN other[r] /\ Len(other[r][q]) >= Len(out[r][q])

\* Mutant: what the other lacks counts as zero.
AddCovered(out, other) ==
    IF out = NoPrediction THEN NoPrediction
    ELSE [r \in DOMAIN out |-> [q \in DOMAIN out[r] |-> [i \in DOMAIN out[r][q] |->
             out[r][q][i] + IF Covers(other, out) THEN other[r][q][i] ELSE 0]]]

\* ResourceUsagePrediction.add: over the shape of the one that is added to; it
\* raises when the other lacks a part of it.
Add(out, other) ==
    IF out = NoPrediction \/ ~Covers(other, out) THEN NoPrediction
    ELSE [r \in DOMAIN out |-> [q \in DOMAIN out[r] |-> [i \in DOMAIN out[r][q] |->
             out[r][q][i] + other[r][q][i]]]]

\* The first task's prediction, to which the others' are added.
Condense(entries) ==
    LET total[n \in DOMAIN entries] ==
            IF n = 1 THEN ValueOf(entries, 1)
            ELSE IF IsFirst(entries, n) THEN Add(total[n - 1], ValueOf(entries, n))
            ELSE total[n - 1]
    IN  IF entries = <<>> THEN << >> ELSE total[Len(entries)]

\* The service answers; when condensing raises, nothing is published.
Predicted ==
    /\ stage = "sent"
    /\ \E entries \in RawPredictions :
          /\ raw' = entries
          /\ prediction' = Condense(entries)
    /\ stage' = "done"
    /\ UNCHANGED <<answers, usage, usageFailures>>

UsageNext == QueryAnswered \/ BuildUsage \/ QueryRaises \/ SendRequest \/ Predicted

UsageSpec == UsageInit /\ [][UsageNext]_usageVars

-----------------------------------------------------------------------------
(* Properties *)

UsageTypeOK ==
    /\ stage \in {"querying", "built", "sent", "done"}
    /\ answers \in Seq(Answers) /\ Len(answers) <= Len(Resources)
    /\ DOMAIN usage \subseteq ToSet(Resources)
    /\ \A r \in DOMAIN usage : \A w \in DOMAIN usage[r] :
          w \in Workloads /\ usage[r][w] \in [1 .. UsageLength -> (1 .. MaxMinutes) \cup {NaN}]
    /\ usageFailures \in {0, 1}
    /\ raw \in RawPredictions

\* A series of a request is the newest part of one answered series: its last
\* sample is that one's last, its samples are in order of time with none left
\* out between them, and only what the series does not have is padding.
RequestHasTheNewestSamples ==
    stage = "built" =>
        \A w \in Workloads : LET past == PastUsage(usage, w) IN
            \A r \in DOMAIN past :
                \E i \in DOMAIN answers : \E k \in DOMAIN answers[i] :
                    LET s == answers[i][k].values
                        n == {j \in 1 .. UsageLength : past[r][j] # NaN}
                    IN  /\ Resources[i] = r /\ answers[i][k].task = w
                        /\ Cardinality(n) = IF Len(s) < UsageLength THEN Len(s) ELSE UsageLength
                        /\ \A j \in 0 .. Cardinality(n) - 1 :
                              past[r][UsageLength - j] = s[Len(s) - j]

\* Usage is of all resources that were answered, or of none: a resource is
\* missing although it was answered only after a failure, which is counted.
UsageIsWholeOrEmpty ==
    stage = "built" =>
        /\ usageFailures > 0 => usage = << >>
        /\ usageFailures = 0 =>
              \A i \in DOMAIN answers : \A k \in DOMAIN answers[i] :
                  /\ Resources[i] \in DOMAIN usage
                  /\ answers[i][k].task \in DOMAIN usage[Resources[i]]

Counted == {i \in DOMAIN raw : \A j \in i + 1 .. Len(raw) : raw[j].task # raw[i].task}

\* The sum of the values of a function at the numbers up to n.
SumUpTo(a, n) ==
    LET sum[m \in 0 .. n] ==
            IF m = 0 THEN 0 ELSE sum[m - 1] + (IF m \in DOMAIN a THEN a[m] ELSE 0)
    IN  sum[n]

\* A prediction that is published has the shape of the first task's, and in each
\* of its windows the sum over the task ids of the answer, each once: none counts
\* as zero there.  It does not speak of what another task has beyond that shape,
\* nor of entries without a task id, which share one: the last of them counts.
PredictionIsTheSumOfTheTasks ==
    stage = "done" /\ prediction # NoPrediction =>
        \A r \in DOMAIN prediction : \A q \in DOMAIN prediction[r] :
            \A k \in DOMAIN prediction[r][q] :
                /\ \A i \in Counted : /\ r \in DOMAIN raw[i].of
                                      /\ q \in DOMAIN raw[i].of[r]
                                      /\ k \in DOMAIN raw[i].of[r][q]
                /\ prediction[r][q][k]
                     = SumUpTo([i \in Counted |-> raw[i].of[r][q][k]], Len(raw))

=============================================================================
