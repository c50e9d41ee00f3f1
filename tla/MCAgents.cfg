SPECIFICATION PartsSpec
CONSTANTS
    Part = {"tasks", "run", "search", "guard", "sessions", "codes", "identity"}
    q1 = q1  q2 = q2  NoRequest = NoRequest
    Requests <- TwoTasks
    SlotLimit <- OneSlot
    MaxUses = 2
    MaxFaults = 1
    MaxSteps = 3
    MaxMessages = 3
    Prompts <- PromptsMC
    MaxCalls = 2
    MaxPieces = 1
    RunScenes <- RunScenesMC
    Nobody = Nobody
    Articles <- ArticlesMC
    Chapter <- ChapterMC
    Group <- GroupMC
    Embedded = {1, 2, 3, 4}
    RecallLimit = 2
    TopK = 2
    NeighborTop = 1
    NeighborGuard = 2
    ChapterK = 1
    LegTop = 2
    CeLevels = {0, 9}
    SearchScenes <- SearchScenesMC
    Unloaded = Unloaded
    Words <- WordsMC
    Window = 4
    Strong <- StrongMC
    Weak <- WeakMC
    Overlap = 2
    Streams <- StreamsMC
    None = None
    p1 = p1  p2 = p2  f1 = f1  f2 = f2
    Procs = {p1, p2}
    Passwords = {"first", "second"}
    FirstPassword = "first"
    FailLimit = 2
    MaxRequests = 4
    MaxTime = 1
    Phones = {f1, f2}
    HourLimit = 2
    DayLimit = 1
    AttemptLimit = 2
    MaxCodes = 3
    GithubName = "gh"
    PhoneName = "ph"
    Files = {f1, f2}
SYMMETRY Symmetric
INVARIANTS AdmissionHolds QuestionsAreFair  ToolsFollowCalls SearchIsSound  SessionsHold  FilesFollowAccount
PROPERTIES EndedStaysEnded
CHECK_DEADLOCK FALSE
