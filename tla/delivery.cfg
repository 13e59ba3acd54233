SPECIFICATION FairSpec
CONSTANTS
    e1 = e1
    e2 = e2
    d1 = d1
    d2 = d2
    Events <- TwoEvents
    Deliverers <- TwoDeliverers
    BatchLimit = 1
    MaxFaults = 2
PROPERTIES
    SettledRowsStay
    KeepsOutbox
    EverySubmissionSettles
