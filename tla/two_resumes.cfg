SPECIFICATION ExecSpec
CONSTANTS
    x1 = x1
    c1 = c1
    c2 = c2
    NoKey = NoKey
    NoExec = NoExec
    Executions <- OneExecution
    MaxTasks = 2
    Coordinators <- TwoCoordinators
    TaskAttempts = 2
    MaxGeneration = 4
    MaxMishaps = 1
PROPERTY CancelledIsTerminal
\* The execution may have ended, with no run left.
CHECK_DEADLOCK FALSE
