\* Three messages, two refusals; two resources that are asked for and two that are
\* predicted, two workloads, three tasks.
CONSTANTS
    m1 = m1
    m2 = m2
    m3 = m3
    NoMessage = NoMessage
    Messages = {m1, m2, m3}
    MaxRefusals = 2
    w1 = w1
    w2 = w2
    NaN = NaN
    Workloads = {w1, w2}
    Resources <- MCResources
    UsageLength = 2
    MaxMinutes = 3
    MaxSeries = 2
    PredictedResources = {"cpu", "memMB"}
    Quantiles = {"p95"}
    Windows <- MCWindows
    Tasks = {"t1", "t2", "UNKNOWN_TASK_ID"}
    MaxTasks = 3
    NoPrediction = NoPrediction
SPECIFICATION Spec
INVARIANTS
    MessagesAreAccountedFor
    DuplicatesWereRefused
    RequestHasTheNewestSamples
    UsageIsWholeOrEmpty
    PredictionIsTheSumOfTheTasks

    
\* The messages are bounded, and a prediction is made once.
CHECK_DEADLOCK FALSE
