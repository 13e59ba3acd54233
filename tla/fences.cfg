SPECIFICATION FairFencesSpec
CONSTANTS
    j1 = j1
    j2 = j2
    b1 = b1
    b2 = b2
    x1 = x1
    c1 = c1
    c2 = c2
    NoKey = NoKey
    NoExec = NoExec
    Executions <- OneExecution
    MaxTasks = 2
    Coordinators <- TwoCoordinators
    TaskAttempts = 2
    MaxGeneration = 4
    MaxMishaps = 1
    Jobs <- TwoJobs
    Builders <- TwoBuilders
    MaxRebuilds = 1
    MaxFaults = 2
INVARIANTS
    ReadyIsSearchable
    OneCurrentBuilder
    MeteredIffSucceeded
PROPERTIES
    ChunksMoveForward
    DeletedStaysQuiet
    EveryIndexSettles
    OutcomeIsFinal
    EveryExecutionEnds
\* The execution may have ended and every index be settled, with no rebuild
\* and no fault left.
CHECK_DEADLOCK FALSE
