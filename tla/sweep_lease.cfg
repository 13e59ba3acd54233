SPECIFICATION QueueSpec
CONSTANTS
    t1 = t1
    k1 = k1
    w1 = w1
    w2 = w2
    NoKey = NoKey
    Tasks <- OneTask
    Keys <- OneKey
    Workers <- TwoWorkers
    MaxAttempts = 1
    Concurrency = 1
    MaxRestarts = 0
PROPERTY SweepSparesLeasedRows
\* The tasks may have ended and every process have stopped.
CHECK_DEADLOCK FALSE
