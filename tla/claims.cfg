SPECIFICATION ClaimsSpec
CONSTANTS
    u1 = u1
    a = a
    b = b
    c1 = c1
    c2 = c2
    v1 = v1
    v2 = v2
    k1 = k1
    k2 = k2
    key = key
    w1 = w1
    NoKey = NoKey
    NoCommand = NoCommand
    NoKeeper = NoKeeper
    Tasks <- TwoTasks
    Keys <- OneKey
    Workers <- OneWorker
    MaxAttempts = 2
    Concurrency = 2
    MaxRestarts = 1
    Uploads <- OneUpload
    Commands <- TwoCommands
    Callers <- TwoCallers
    Verifiers <- TwoVerifiers
    Keepers <- TwoKeepers
    BatchLimit = 1
    MaxVerifyAttempts = 2
    MaxFaults = 3
SYMMETRY Alike
INVARIANTS
    OneMultipart
    BoundCommandRuns
    SubmittedOnce
    ReclaimedLeavesNothing
    ReferencedIsKept
    FenceIsExclusive
    OpenRowIsReachable
PROPERTIES
    EndedStaysEnded
    EventsKeepOutbox
    OnlyNewestRunSucceeds
    KeepsLifecycle
\* The session may be reclaimed, both tasks have ended and the process have
\* stopped, with no request left to make.
CHECK_DEADLOCK FALSE
