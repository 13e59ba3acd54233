SPECIFICATION FairBillingSpec
CONSTANTS
    u1 = u1
    u2 = u2
    d1 = d1
    d2 = d2
    Work <- TwoUploads
    Keyed <- KeyedWork
    Refused <- RefusedWork
    Unknown <- UnknownWork
    Reserved <- Estimate
    Pages <- ActualPages
    Deliverers <- TwoDeliverers
    Limit = 3
    BatchLimit = 2
    MaxAttempts = 2
    MaxFaults = 1
    MaxPeriods = 1
INVARIANTS
    ChargedAsBooked
    NoUsageIsLost
    HeldFits
PROPERTIES
    EveryUsageIsBooked
    UsageKeepsOutbox
\* Every event may be delivered or abandoned.
CHECK_DEADLOCK FALSE
