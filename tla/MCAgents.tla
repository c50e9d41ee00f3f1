------------------------------ MODULE MCAgents ------------------------------
(* The life of tasks, the run of one, a search of the civil code, the guards  *)
(* of what a model streams, and the accounts: sessions, codes and the change  *)
(* of the name. A run takes of a search only whether it found something, and  *)
(* of its task what AgentRun says itself; no two of the others have state in  *)
(* common: each behaviour is about one of the seven.                          *)
EXTENDS TaskLifecycle, AgentRun, Retrieval, StreamGuards, Sessions, SmsCode, Identity, TLC

CONSTANTS q1, q2, p1, p2, f1, f2, Part
VARIABLE part

TwoTasks == {q1, q2}
OneSlot == [k \in Scopes |-> IF k = "user" THEN 1 ELSE 2]

\* Sound for safety: no definition distinguishes the two tasks.
Symmetric == Permutations(TwoTasks)

PromptsMC == {<<Says("system"), Says("user")>>,
              <<Says("system"), Says("old"), Says("user"), Says("asst"), Says("user")>>}

G(c, w, n) == [civil |-> c, cacheable |-> w, mishaps |-> n]

\* Each persona with and without the answer cache; faults where the state is smaller.
RunScenesMC == {G(c, w, IF w THEN 1 ELSE 2) : c \in BOOLEAN, w \in BOOLEAN}

ArticlesMC == 1..5
ChapterMC == [a \in 1..5 |-> IF a <= 3 THEN "one" ELSE "two"]
GroupMC == [a \in 1..5 |-> IF a = 2 THEN "vip" ELSE IF a = 4 THEN "staff" ELSE "public"]

Whole == [limit |-> 3, whole |-> TRUE, rrf |-> 0, leg |-> 0]
ByLeg == [limit |-> 3, whole |-> FALSE, rrf |-> 1, leg |-> 1]
Plain == [admin |-> FALSE, groups |-> {}, named |-> {}, rewrite |-> FALSE, neighbors |-> FALSE, chapter |-> FALSE,
          band |-> FALSE, changes |-> FALSE, window |-> ByLeg]

\* Every expansion in a base that changes; expansions and a named article; an
\* administrator with two of them and the band; a rewritten question.
Admin == [Plain EXCEPT !.admin = TRUE, !.named = {4, 5}, !.band = TRUE]
SearchScenesMC ==
    {[Plain EXCEPT !.groups = {"vip"}, !.neighbors = TRUE, !.chapter = TRUE, !.changes = TRUE, !.window = Whole],
     [Plain EXCEPT !.neighbors = TRUE, !.chapter = TRUE, !.named = {3}],
     Admin,
     [Plain EXCEPT !.groups = {"vip"}, !.rewrite = TRUE, !.named = {3}]}

WordsMC == {<<"a", "b", "a">>, <<"b", "b">>}
\* One that fits the overlap, and one that is longer.
StrongMC == {<<"a", "b", "b">>, <<"b", "b", "b", "b">>}
WeakMC == StrongMC \cup {<<"a", "a">>}

\* What a model may say: every text up to that length.
Texts(alphabet, n) == UNION {[1..k -> alphabet] : k \in 1..n}
StreamsMC ==
    {[guard |-> "answer", text |-> t] : t \in Texts({"a", "b", "z", "w", "s"}, 5)} \cup
    {[guard |-> "reasoning", text |-> t] : t \in Texts({"a", "b", "n"}, 6)}

PartsInit ==
    /\ part \in Part
    /\ TaskInit
    /\ RunInit /\ (part # "run" => run.scene = G(FALSE, FALSE, 2))
    /\ SearchInit /\ (part # "search" => Scene = Admin /\ valid = Articles /\ index = Articles)
    /\ IF part = "guard" THEN GuardInit
       ELSE /\ stream = [guard |-> "answer", text |-> <<"a">>]
            /\ read = 0 /\ shown = <<>> /\ pending = <<>> /\ carry = <<>> /\ verdict = "no"
    /\ SessionsInit /\ SmsInit /\ IdentityInit

PartsNext ==
    /\ UNCHANGED part
    /\ \/ /\ part = "tasks" /\ TaskNext
          /\ UNCHANGED <<runVars, searchVars, guardVars, sessionVars, smsVars, identityVars>>
       \/ /\ part = "run" /\ RunNext
          /\ UNCHANGED <<taskVars, searchVars, guardVars, sessionVars, smsVars, identityVars>>
       \/ /\ part = "search" /\ SearchNext
          /\ UNCHANGED <<taskVars, runVars, guardVars, sessionVars, smsVars, identityVars>>
       \/ /\ part = "guard" /\ GuardNext
          /\ UNCHANGED <<taskVars, runVars, searchVars, sessionVars, smsVars, identityVars>>
       \/ /\ part = "sessions" /\ SessionsNext
          /\ UNCHANGED <<taskVars, runVars, searchVars, guardVars, smsVars, identityVars>>
       \/ /\ part = "codes" /\ SmsNext
          /\ UNCHANGED <<taskVars, runVars, searchVars, guardVars, sessionVars, identityVars>>
       \/ /\ part = "identity" /\ IdentityNext
          /\ UNCHANGED <<taskVars, runVars, searchVars, guardVars, sessionVars, smsVars>>

PartsSpec ==
    /\ PartsInit
    /\ [][PartsNext]_<<part, taskVars, runVars, searchVars, guardVars, sessionVars, smsVars, identityVars>>
=============================================================================
