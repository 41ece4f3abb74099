SPECIFICATION Spec
CONSTANTS
    d1 = d1
    d2 = d2
    r1 = r1
    r2 = r2
    Delivery = {d1, d2}
    Retrier = {r1, r2}
    MaxRetries = 3
    MaxLost = 1
INVARIANTS
    TypeOK
PROPERTIES
    TakenStays
    RetryingSettles
\* every delivery is settled in the end, or lost with its task
CHECK_DEADLOCK FALSE
