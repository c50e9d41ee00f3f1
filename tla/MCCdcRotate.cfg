\* A finding: a batch runs over the end of a journal file.
CONSTANTS
    w1 = w1  w2 = w2  NoWorker = NoWorker
    MaxTx = 1
    MaxId = 2
    Workers <- OneWorker
    BatchSize = 2
    MayRotate = TRUE
SPECIFICATION CdcSpec
INVARIANTS AdvancedIsSynced
