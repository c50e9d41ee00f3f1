\* A finding: a timed-out refund gives its key back.
CONSTANTS
    o1 = o1  k1 = k1  k2 = k2  w1 = w1  w2 = w2  r1 = r1
    a1 = a1  a2 = a2  a3 = a3  Nobody = Nobody
    Orders <- OneOrder
    Amount <- AmountTwo
    Keys <- OneKey
    Workers <- OneWorker
    Recoverers <- OneLoop
    Attempts <- TwoAttempts
    SlowRequests = FALSE
SPECIFICATION Spec
INVARIANTS KeyReturnedOnce
