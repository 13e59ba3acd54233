SPECIFICATION Spec
CONSTANTS
    e1 = e1
    e2 = e2
    d1 = d1
    d2 = d2
    Events <- OneEvent
    Deliverers <- OneDeliverer
    BatchLimit = 1
    MaxFaults = 1
PROPERTY FailureRollsBackMarker
