\* Every interleaving: locks may lapse and requests outlast 300 s. Liveness, so no
\* symmetry.
CONSTANTS
    o1 = o1  w1 = w1  w2 = w2  r1 = r1  a1 = a1  a2 = a2  Nobody = Nobody
    Orders <- OneOrder
    Workers <- TwoWorkers
    Recoverers <- OneLoop
    Attempts <- TwoAttempts
    LockMayLapse = TRUE
    SlowRequests = TRUE
SPECIFICATION FairSpec
INVARIANTS CreditedOnce ChargeIsOnRecord
PROPERTIES DecisionsStand ImplementsIdeal AttemptsConclude
