SPECIFICATION BillingSpec
CONSTANTS
    u1 = u1
    u2 = u2
    d1 = d1
    d2 = d2
    Work <- OneUpload
    Keyed <- KeyedWork
    Refused = {}
    Unknown <- UnknownWork
    Reserved <- Estimate
    Pages <- ActualPages
    Deliverers <- OneDeliverer
    Limit = 3
    BatchLimit = 1
    MaxAttempts = 2
    MaxFaults = 0
    MaxPeriods = 0
INVARIANT DeliveredIsBooked
\* Every event may be delivered or abandoned.
CHECK_DEADLOCK FALSE
