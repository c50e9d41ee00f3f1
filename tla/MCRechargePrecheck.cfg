\* A finding: a retry charges an order the recovery loop has just settled.
CONSTANTS
    o1 = o1  w1 = w1  w2 = w2  r1 = r1
    a1 = a1  a2 = a2  Nobody = Nobody
    Orders <- OneOrder
    Workers <- TwoWorkers
    Recoverers <- OneLoop
    Attempts <- TwoAttempts
    LockMayLapse = FALSE
    SlowRequests = FALSE
SPECIFICATION Spec
INVARIANTS SettledChargesOnce
