SPECIFICATION FairLeasesSpec
CONSTANTS
    t1 = t1
    k1 = k1
    w1 = w1
    w2 = w2
    NoKey = NoKey
    u1 = u1
    a = a
    c1 = c1
    v1 = v1
    g1 = g1
    NoCommand = NoCommand
    NoKeeper = NoKeeper
    p1 = p1
    p2 = p2
    Loops <- TwoLoops
    MaxVersions = 2
    MaxParseAttempts = 2
    MaxStops = 2
INVARIANTS
    VersionFollowsTask
    OneHolder
PROPERTIES
    OutcomesStay
    EveryTaskEnds
    EverySessionEnds
    EveryParseEnds
\* The task, the session and the parses may all have ended.
CHECK_DEADLOCK FALSE
