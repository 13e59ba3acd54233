SPECIFICATION Spec
CONSTANTS
    j1 = j1
    b1 = b1
    r1 = r1
    r2 = r2
    c1 = c1
    Jobs <- OneJob
    Builders <- OneBuilder
    Requests <- TwoRequests
    Reconcilers <- OneReconciler
    MaxRebuilds = 0
    MaxFaults = 0
    MaxRetries = 0
INVARIANT BilledOnce
\* The job may have ended and its index be settled, with nothing left to do.
CHECK_DEADLOCK FALSE
