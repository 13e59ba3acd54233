SPECIFICATION FairLocalWikiSpec
CONSTANTS
    c1 = c1
    Chats <- OneChat
    MaxVersions = 1
    MaxBuilds = 3
    MaxStops = 1
INVARIANTS
    SourcesAreRetained
    NoForks
PROPERTIES
    EndedBuildsStay
    EveryBuildEnds
\* Every task may have ended and every version be gone.
CHECK_DEADLOCK FALSE
