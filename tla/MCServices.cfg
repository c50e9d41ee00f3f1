CONSTANTS
    Part = {"refunds", "orders", "windows", "breaker", "process"}
    o1 = o1  k1 = k1  k2 = k2  k3 = k3  w1 = w1  w2 = w2  v1 = v1  a1 = a1  a2 = a2
    c1 = c1  c2 = c2  c3 = c3  t1 = t1  t2 = t2
    Nobody = Nobody  Unasked = Unasked
    Orders <- OneOrder
    Amount <- AmountTwo
    Keys <- TwoKeys
    Workers <- TwoWorkers
    Recoverers <- OneLoop
    Attempts <- TwoAttempts
    SlowRequests = TRUE
    Calls <- ThreeCalls
    IdemKeys <- OneKey
    Ticks = 3
    Limit = 4
    Capacity = 3
    Rate = 2
    Asks = 4
    Callers <- ThreeCalls
    FailThreshold = 2
    CallTimeout = 2
    RecoverTimeout = 3
    SideTasks <- TwoTasks
SPECIFICATION ServicesSpec
SYMMETRY Symmetric
\* Requests come once, and a process ends.
CHECK_DEADLOCK FALSE
INVARIANTS RefundBooks KeyNamesOneOrder   PoolsGoLast
