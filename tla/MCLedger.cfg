\* Two charges of one user in two settlement loops; two instances and two
\* overlapping transactions; four guarded calls. Liveness, so no symmetry.
CONSTANTS
    u1 = u1  c1 = c1  c2 = c2  c3 = c3  c4 = c4  s1 = s1  s2 = s2  w1 = w1  w2 = w2
    Part = {"charging", "capture", "breaker"}
    Unlocked = Unlocked  NoWorker = NoWorker  Nobody = Nobody
    Users <- OneUser
    Charges <- TwoCharges
    UserOf <- OwnerOfTwo
    Cost <- CostTwo
    Openings <- DebtOrThree
    Settlers <- TwoLoops
    MaxFails = 2
    MaxTopUps = 1
    MaxTx = 2
    MaxId = 2
    Workers <- TwoWorkers
    BatchSize = 2
    MayRotate = FALSE
    Calls <- FourCalls
    FailThreshold = 3
SPECIFICATION LedgerFairSpec
INVARIANTS LedgerIsSound JournalIsExact BreakerIsSound
PROPERTIES ImplementsIdeal DeferredIsDecided NoEventIsLost ProbesDecide Recovers
