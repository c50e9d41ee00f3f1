SPECIFICATION ChatSpec
CONSTANTS
    r1 = r1  r2 = r2  p1 = p1  m1 = m1  m2 = m2  None = None  Nil = Nil
    Part = {"chat", "memory", "travel", "trace"}
    a = a  b = b  c = c  t1 = t1  f1 = f1  f2 = f2  Nowhere = Nowhere  Untraced = Untraced
    Requests = {r1, r2}
    Questions <- QuestionsMC
    SlotLimit = 2
    DailyLimit = 1
    TrialQuestions = 2
    MaxSteps = 2
    MaxFaults = 1
    Turns = {1, 2, 3}
    Elsewhere = {4}
    AskedFirst = {2}
    Processes = {p1}
    Maintainers = {m1, m2}
    HistoryLimit = 1
    SummaryWindow = 9
    Scenes <- ScenesMC
    Places = {a, b, c}
    Listed = {a, b}
    Messengers = {1, 2}
    Sayings <- SayingsMC
    MaxMessages = 3
    Asked = {t1}
    Finders = {f1, f2}
    MaxSearches = 1
SYMMETRY Symmetric
INVARIANTS OneAnswer ChargesMatchText    RowsTellRequest
CHECK_DEADLOCK FALSE
