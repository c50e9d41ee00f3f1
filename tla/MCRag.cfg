SPECIFICATION RagSpec
CONSTANTS
    None = None  old = old  new = new  drop = drop  add = add  expel = expel  tune = tune
    probe = probe  raise = raise  w1 = w1  w2 = w2  inc = inc  user = user  top = top
    wallet = wallet
    Chunks <- MCChunks
    ArticleOf <- MCArticleOf
    Stored = {old}
    Sets = {drop, add}
    ChangeOf <- MCChangeOf
    MaxItems = 50
    Targets = {user, top}
    Defaults <- MCDefaults
    GateCases = 20
    Requests = {drop, add, expel, tune, probe, raise}
    RequestOf <- MCRequestOf
    Incidents = {inc}
    Workers = {w1, w2}
    Allowed = {"apply_knowledge_change", "set_user_active", "adjust_rerank_top", "probe_health",
               "propose_wallet_adjustment"}
    Cooled = {"set_user_active"}
    AutoL1 = FALSE
    Reports <- MCReports
    MaxActions = 2
    MaxCrashes = 1
    MaxLapses = 1
    p1 = p1  p2 = p2
    LastTrace = 3
    Fact <- MCFact
    Unwritable = {1}
    Processes = {p1, p2}
    VersionOf <- MCVersionOf
    BatchLimit = 1
    PoisonAfter = 2
    Planned = {"RC-1"}
    Persistent = {1, 3}
    MaxIncidents = 3
    MaxOutages = 1
    Part = {"actions", "monitor"}
INVARIANTS ApprovedBeforeApplied StoreIsSound IncidentsAreSound
PROPERTIES WorkDrains NewVerdictIsVisible BacklogDrains
CHECK_DEADLOCK FALSE
