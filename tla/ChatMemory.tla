----------------------------- MODULE ChatMemory -----------------------------
(***************************************************************************)
(* What is remembered of one conversation of a user: the list and the       *)
(* rolling summary in Redis, the rows in PostgreSQL, their archive and the  *)
(* user's profile (core/memory_manager, core/db_maintenance and the         *)
(* deletion in routes/conversation).                                        *)
(*                                                                          *)
(* A turn is a question with its answer.  Texts are left out: a message is  *)
(* named by the turns it tells of and its role.                             *)
(***************************************************************************)
EXTENDS Naturals, Sequences, FiniteSets, SequencesExt

CONSTANTS
    Turns,          \* of this conversation, numbered in the order they are asked
    Elsewhere,      \* turns of another conversation of the user
    AskedFirst,     \* turns whose question is saved before it is answered
    Processes,
    Maintainers,    \* instances that run maintenance_loop
    HistoryLimit,   \* HISTORY_LIMIT, messages
    SummaryWindow,  \* messages generate_summary reads: 50
    Scenes,         \* bound: the turns that come, whether their list is looked at, months pass and
                    \* the user deletes, and the failures and crashes
    Nil

ASSUME MemoryAssumption == Nil \notin Turns

VARIABLES
    scene,      \* bound: one of Scenes
    turn,       \* of each turn: where its saving is, its process, what it has read
    list,       \* conv:{user}:{conversation}
    summary,    \* messages conv_summary:{user}:{conversation} tells of
    jobs,       \* _compress_and_trim under way
    summing,    \* holder of the summary lock in each process
    cut,        \* history: messages trimmed from the list, that a summary should tell of
    saves,      \* _save_to_pg under way
    rows,       \* conversation_memories of the user
    committed,  \* history: turns whose rows were committed, and not deleted
    profile,    \* turns user_profiles was told of
    told,       \* history: turns of which a profile was written
    aged,       \* turns older than COMPRESS_AFTER_DAYS
    archiving,  \* of each maintainer: where it is, what it has read
    keeper,     \* holder of lock:db_maintenance
    deletion,   \* of the conversation: where it is, what it has deleted or seen
    gone,       \* history: turns that were over when the deletion began
    failures    \* bound: of the scene

redisVars == <<list, summary, cut>>
jobVars == <<jobs, summing>>
pgVars == <<rows, committed, profile, told>>
careVars == <<aged, archiving, keeper>>
memoryVars == <<scene, turn, redisVars, jobVars, saves, pgVars, careVars, deletion, gone, failures>>

User(t) == [of |-> {t}, role |-> "user"]
Answer(t) == [of |-> {t}, role |-> "assistant"]
Messages(s) == {s[i] : i \in DOMAIN s}
Row(m, uid) == [of |-> m.of, role |-> m.role, uid |-> uid]
Message(row) == [of |-> row.of, role |-> row.role]
Idle == [pc |-> "idle", read |-> {}, cutoff |-> {}]

MemoryTypeOK ==
    /\ Messages(list) \cup summary \cup cut \subseteq
           [of : SUBSET (Turns \cup Elsewhere), role : {"user", "assistant", "system"}]
    /\ committed \cup profile \cup told \cup aged \cup gone \subseteq Turns \cup Elsewhere
    /\ \A t \in Turns \cup Elsewhere : turn[t].size \in Nat
    /\ \A j \in jobs : j.p \in Processes /\ j.pc \in {"wait", "sum", "trim"}
    /\ \A v \in saves : v.tries \in 0..2
    /\ keeper \in Maintainers \cup {Nil} /\ failures \in 0..scene.faults

MemoryInit ==
    /\ scene \in Scenes
    /\ turn = [t \in Turns \cup Elsewhere |->
                 [pc |-> IF t \in scene.turns THEN "new" ELSE "never", p |-> Nil, last |-> Nil, size |-> 0, read |-> <<>>]]
    /\ list = <<>> /\ summary = {} /\ cut = {}
    /\ jobs = {} /\ summing = [p \in Processes |-> Nil]
    /\ saves = {} /\ rows = {} /\ committed = {} /\ profile = {} /\ told = {}
    /\ aged = {} /\ archiving = [m \in Maintainers |-> Idle] /\ keeper = Nil
    /\ deletion = [pc |-> "none", rows |-> {}, orphan |-> FALSE] /\ gone = {}
    /\ failures = 0

Holds == UNCHANGED failures
Breaks == failures < scene.faults /\ failures' = failures + 1

TurnAt(t, pc) == turn[t].pc = pc
Put(t, new) == turn' = [turn EXCEPT ![t] = new]
Over(t) == turn[t].pc = "over"

-----------------------------------------------------------------------------
(* Reading: get_context.                                                    *)

\* _fetch_from_pg: the newest rows, oldest first; rows of a turn have one time.
Rank(m) == 3 * (CHOOSE t \in m.of : \A u \in m.of : u <= t)
           + (IF m.role = "user" THEN 0 ELSE IF m.role = "assistant" THEN 1 ELSE 2)
Newest(s) == SubSeq(s, IF Len(s) > HistoryLimit THEN Len(s) - HistoryLimit + 1 ELSE 1, Len(s))
FetchFromPg ==
    Newest(SetToSortSeq({Message(w) : w \in {v \in rows : v.of \cap Elsewhere = {}}},
                        LAMBDA a, b : Rank(a) < Rank(b)))

\* A new turn; without a list the rows are read to fill it.
Open(t) ==
    /\ scene.lists /\ TurnAt(t, "new") /\ \A u \in Turns : u < t => ~TurnAt(u, "new")
    /\ \E p \in Processes :
         IF list = <<>> /\ FetchFromPg # <<>>
         THEN Put(t, [turn[t] EXCEPT !.pc = "fill", !.p = p, !.read = FetchFromPg])
         ELSE Put(t, [turn[t] EXCEPT !.pc = IF t \in AskedFirst THEN "ask" ELSE "look", !.p = p])
    /\ UNCHANGED <<scene, redisVars, jobVars, saves, pgVars, careVars, deletion, gone, failures>>

\* _BACKFILL_LUA: only a list that is still missing is filled.
Backfill(t) ==
    /\ TurnAt(t, "fill") /\ Put(t, [turn[t] EXCEPT !.pc = IF t \in AskedFirst THEN "ask" ELSE "look", !.read = <<>>])
    /\ list' = IF list = <<>> THEN turn[t].read ELSE list
    /\ UNCHANGED <<scene, summary, cut, jobVars, saves, pgVars, careVars, deletion, gone, failures>>

-----------------------------------------------------------------------------
(* Writing: save_user_message and save_messages, in the steps at which they *)
(* wait for Redis.                                                          *)

\* save_user_message
Ask(t) ==
    /\ TurnAt(t, "ask") /\ list' = Append(list, User(t)) /\ Put(t, [turn[t] EXCEPT !.pc = "measured"])
    /\ UNCHANGED <<scene, summary, cut, jobVars, saves, pgVars, careVars, deletion, gone, failures>>

Look(t) ==
    /\ TurnAt(t, "look")
    /\ Put(t, [turn[t] EXCEPT !.pc = "pair", !.last = IF list = <<>> THEN Nil ELSE list[Len(list)]])
    /\ UNCHANGED <<scene, redisVars, jobVars, saves, pgVars, careVars, deletion, gone, failures>>

\* The question, unless it was the last message, then the answer.
PushUser(t) ==
    /\ TurnAt(t, "pair") /\ Put(t, [turn[t] EXCEPT !.pc = "answer", !.last = Nil])
    /\ list' = IF turn[t].last = User(t) THEN list ELSE Append(list, User(t))
    /\ UNCHANGED <<scene, summary, cut, jobVars, saves, pgVars, careVars, deletion, gone, failures>>

PushAnswer(t) ==
    /\ TurnAt(t, "answer") /\ Put(t, [turn[t] EXCEPT !.pc = "measure"])
    /\ list' = Append(list, Answer(t))
    /\ UNCHANGED <<scene, summary, cut, jobVars, saves, pgVars, careVars, deletion, gone, failures>>

\* _trim_and_compress: LLEN, then LRANGE of what is too much.
Measure(t) ==
    /\ turn[t].pc \in {"measure", "measured"}
    /\ Put(t, [turn[t] EXCEPT !.pc = IF TurnAt(t, "measure") THEN "spare" ELSE "spared", !.size = Len(list)])
    /\ UNCHANGED <<scene, redisVars, jobVars, saves, pgVars, careVars, deletion, gone, failures>>

Overflow(t) == SubSeq(list, 1, IF turn[t].size - HistoryLimit < Len(list)
                               THEN turn[t].size - HistoryLimit ELSE Len(list))

\* The batch is left to a task, as are the rows.
Spare(t) ==
    /\ turn[t].pc \in {"spare", "spared"}
    /\ jobs' = IF turn[t].size > HistoryLimit /\ Overflow(t) # <<>>
               THEN jobs \cup {[by |-> t, p |-> turn[t].p, pc |-> "wait", batch |-> Overflow(t), old |-> {}]}
               ELSE jobs
    /\ Put(t, [turn[t] EXCEPT !.pc = IF TurnAt(t, "spare") THEN "over" ELSE "look", !.size = 0])
    /\ saves' = IF TurnAt(t, "spare")
                THEN saves \cup {[t |-> t, p |-> turn[t].p, tries |-> 0, done |-> FALSE]} ELSE saves
    /\ UNCHANGED <<scene, redisVars, summing, pgVars, careVars, deletion, gone, failures>>

\* A turn of which only the rows matter here.
SaveOnly(t) ==
    /\ (t \in Elsewhere \/ ~scene.lists) /\ TurnAt(t, "new")
    /\ \E p \in Processes :
         /\ Put(t, [turn[t] EXCEPT !.pc = "over", !.p = p])
         /\ saves' = saves \cup {[t |-> t, p |-> p, tries |-> 0, done |-> FALSE]}
    /\ UNCHANGED <<scene, redisVars, jobVars, pgVars, careVars, deletion, gone, failures>>

\* Redis fails while the messages are saved: the rest is not done.
GiveUp(t) ==
    /\ turn[t].pc \in {"fill", "ask", "look", "pair", "answer"} /\ Breaks /\ Put(t, [turn[t] EXCEPT !.pc = "over"])
    /\ UNCHANGED <<scene, redisVars, jobVars, saves, pgVars, careVars, deletion, gone>>

-----------------------------------------------------------------------------
(* The rolling summary.                                                     *)

\* _compress_overflow: one at a time in a process.
TakeSummary(j) ==
    /\ j \in jobs /\ j.pc = "wait" /\ summing[j.p] = Nil
    /\ summing' = [summing EXCEPT ![j.p] = j.by]
    /\ jobs' = (jobs \ {j}) \cup {[j EXCEPT !.pc = "sum", !.old = summary]}
    /\ UNCHANGED <<scene, turn, redisVars, saves, pgVars, careVars, deletion, gone, failures>>

\* Fault: the summaries of a process are made at the same time.
TakeSummaryUnlocked(j) ==
    /\ j \in jobs /\ j.pc = "wait"
    /\ summing' = [summing EXCEPT ![j.p] = j.by]
    /\ jobs' = (jobs \ {j}) \cup {[j EXCEPT !.pc = "sum", !.old = summary]}
    /\ UNCHANGED <<scene, turn, redisVars, saves, pgVars, careVars, deletion, gone, failures>>

\* generate_summary reads the last messages only, the old summary being the first.
ToldOf(old, batch) ==
    IF Len(batch) < SummaryWindow THEN old \cup Messages(batch)
    ELSE Messages(SubSeq(batch, Len(batch) - SummaryWindow + 1, Len(batch)))

\* Without a summary nothing is trimmed.
WriteSummary(j) ==
    /\ j \in jobs /\ j.pc = "sum" /\ summing' = [summing EXCEPT ![j.p] = Nil]
    /\ \/ Holds /\ summary' = ToldOf(j.old, j.batch)
          /\ jobs' = (jobs \ {j}) \cup {[j EXCEPT !.pc = "trim", !.old = {}]}
       \/ Breaks /\ jobs' = jobs \ {j} /\ UNCHANGED summary
    /\ UNCHANGED <<scene, turn, list, cut, saves, pgVars, careVars, deletion, gone>>

\* Fault: the batch's length is trimmed whatever is there.
TrimBlindly(j) ==
    /\ j \in jobs /\ j.pc = "trim" /\ jobs' = jobs \ {j}
    /\ LET n == Len(j.batch) IN
         list' = SubSeq(list, n + 1, Len(list)) /\ cut' = cut \cup Messages(SubSeq(list, 1, IF n < Len(list) THEN n ELSE Len(list)))
    /\ UNCHANGED <<scene, turn, summary, summing, saves, pgVars, careVars, deletion, gone, failures>>

\* _TRIM_VERIFIED_LUA: when the list still starts with the batch.
Trim(j) ==
    /\ j \in jobs /\ j.pc = "trim" /\ jobs' = jobs \ {j}
    /\ IF IsPrefix(j.batch, list)
       THEN list' = SubSeq(list, Len(j.batch) + 1, Len(list)) /\ cut' = cut \cup Messages(j.batch)
       ELSE UNCHANGED <<list, cut>>
    /\ UNCHANGED <<scene, turn, summary, summing, saves, pgVars, careVars, deletion, gone, failures>>

-----------------------------------------------------------------------------
(* The rows: _save_to_pg, with its retries.                                 *)

\* Fault: new identities with every attempt.
UidEach(v) == <<v.t, v.tries>>

\* One of the identities both rows keep through the retries.
Uid(v) == <<v.t, 0>>

Written(v) == {Row(User(v.t), Uid(v)), Row(Answer(v.t), Uid(v))}
Again(v) == (saves \ {v}) \cup (IF v.tries < 2 THEN {[v EXCEPT !.tries = @ + 1]} ELSE {})

\* ON CONFLICT (message_uid) DO NOTHING; the reply to a commit may be lost.
CommitRows(v) ==
    /\ v \in saves /\ ~v.done
    /\ \/ Holds /\ saves' = (saves \ {v}) \cup {[v EXCEPT !.done = TRUE]}
       \/ Breaks /\ saves' = Again(v)
    /\ rows' = rows \cup Written(v) /\ committed' = committed \cup {v.t}
    /\ UNCHANGED <<scene, turn, redisVars, jobVars, profile, told, careVars, deletion, gone>>

MissRows(v) ==
    /\ v \in saves /\ ~v.done /\ Breaks /\ saves' = Again(v)
    /\ UNCHANGED <<scene, turn, redisVars, jobVars, pgVars, careVars, deletion, gone>>

\* _update_profile_async: a failure is only logged.
UpdateProfile(v) ==
    /\ v \in saves /\ v.done /\ saves' = saves \ {v}
    /\ \/ Holds /\ profile' = profile \cup {v.t} /\ told' = told \cup {v.t}
       \/ Breaks /\ UNCHANGED <<profile, told>>
    /\ UNCHANGED <<scene, turn, redisVars, jobVars, rows, committed, careVars, deletion, gone>>

-----------------------------------------------------------------------------
(* Maintenance: compress_old_conversations for this conversation.           *)

\* A month passes for a turn.
GrowsOld(t) ==
    /\ scene.months /\ t \notin aged /\ Over(t) /\ \A v \in saves : v.t # t
    /\ aged' = aged \cup {t}
    /\ UNCHANGED <<scene, turn, redisVars, jobVars, saves, pgVars, archiving, keeper, deletion, gone, failures>>

Raw == {w \in rows : w.role # "system"}

\* maintenance_loop, one at a time while the lock lives.
StartMaintenance(m) ==
    /\ archiving[m] = Idle /\ keeper = Nil /\ aged \cap Turns # {} /\ keeper' = m
    /\ archiving' = [archiving EXCEPT ![m] = [pc |-> "read", read |-> {}, cutoff |-> aged]]
    /\ UNCHANGED <<scene, turn, redisVars, jobVars, saves, pgVars, aged, deletion, gone, failures>>

\* Released by its holder only.
EndMaintenance(m) == keeper' = IF keeper = m THEN Nil ELSE keeper

\* The rows of the conversation before the cutoff, summaries of earlier times excepted.
ReadOld(m) ==
    /\ archiving[m].pc = "read"
    /\ LET old == {w \in Raw : w.of \subseteq archiving[m].cutoff \ Elsewhere} IN
         IF old = {} THEN archiving' = [archiving EXCEPT ![m] = Idle] /\ EndMaintenance(m)
         ELSE archiving' = [archiving EXCEPT ![m].pc = "write", ![m].read = old] /\ UNCHANGED keeper
    /\ UNCHANGED <<scene, turn, redisVars, jobVars, saves, pgVars, aged, deletion, gone, failures>>

Summarized(s) == [of |-> UNION {w.of : w \in s}, role |-> "system", uid |-> Nil]
InDeletion == deletion.pc \in {"rows", "checked"}

\* Fault: the rows of summaries made earlier go with the others.
ArchiveAll(m) ==
    /\ archiving[m].pc = "write" /\ ~InDeletion
    /\ rows' = {w \in rows : ~(w.of \subseteq archiving[m].cutoff \ Elsewhere)}
               \cup {Summarized(archiving[m].read)}
    /\ archiving' = [archiving EXCEPT ![m] = Idle] /\ EndMaintenance(m)
    /\ UNCHANGED <<scene, turn, redisVars, jobVars, saves, committed, profile, told, aged, deletion, gone, failures>>

\* _compress_one_conversation: one transaction, that waits for the rows.
Archive(m) ==
    /\ archiving[m].pc = "write" /\ ~InDeletion
    /\ rows' = {w \in rows : ~(w \in Raw /\ w.of \subseteq archiving[m].cutoff \ Elsewhere)}
               \cup {Summarized(archiving[m].read)}
    /\ archiving' = [archiving EXCEPT ![m] = Idle] /\ EndMaintenance(m)
    /\ UNCHANGED <<scene, turn, redisVars, jobVars, saves, committed, profile, told, aged, deletion, gone, failures>>

\* The lock has an hour.
KeeperLapses ==
    /\ keeper # Nil /\ keeper' = Nil
    /\ UNCHANGED <<scene, turn, redisVars, jobVars, saves, pgVars, aged, archiving, deletion, gone, failures>>

-----------------------------------------------------------------------------
(* delete_conversation: a transaction, then Redis.                          *)

\* The rows are deleted; others see it at the commit.
DeleteRows ==
    /\ scene.deletes /\ deletion.pc = "none" /\ \E t \in Turns : Over(t)
    /\ deletion' = [deletion EXCEPT !.pc = "rows", !.rows = {w \in rows : w.of \cap Elsewhere = {}}]
    /\ gone' = {t \in Turns : Over(t)}
    /\ UNCHANGED <<scene, turn, redisVars, jobVars, saves, pgVars, careVars, failures>>

\* Each statement sees what was committed before it.
CheckOrphan ==
    /\ deletion.pc = "rows"
    /\ deletion' = [deletion EXCEPT !.pc = "checked", !.orphan = rows \subseteq deletion.rows]
    /\ UNCHANGED <<scene, turn, redisVars, jobVars, saves, pgVars, careVars, gone, failures>>

CommitDeletion ==
    /\ deletion.pc = "checked" /\ deletion' = [pc |-> "redis", rows |-> {}, orphan |-> FALSE]
    /\ rows' = rows \ deletion.rows
    /\ committed' = committed \ UNION {w.of : w \in deletion.rows}
    /\ profile' = IF deletion.orphan THEN {} ELSE profile
    /\ UNCHANGED <<scene, turn, redisVars, jobVars, saves, told, careVars, gone, failures>>

\* A failure is only logged.
ClearRedis ==
    /\ deletion.pc = "redis" /\ deletion' = [deletion EXCEPT !.pc = "done"]
    /\ \/ Holds /\ list' = <<>> /\ summary' = {} /\ cut' = {}
       \/ Breaks /\ UNCHANGED redisVars
    /\ UNCHANGED <<scene, turn, jobVars, saves, pgVars, careVars, gone>>

-----------------------------------------------------------------------------
\* The list has its time (HISTORY_TTL), from the last turn; the summary a longer one.
ListLapses ==
    /\ list # <<>> /\ list' = <<>>
    /\ \A t \in Turns : turn[t].pc \in {"never", "new", "over"}
    /\ UNCHANGED <<scene, turn, summary, cut, jobVars, saves, pgVars, careVars, deletion, gone, failures>>

\* A process ends: what it had under way is gone.
Crash(p) ==
    /\ Breaks
    /\ turn' = [t \in DOMAIN turn |-> IF turn[t].p = p THEN [turn[t] EXCEPT !.pc = "over"] ELSE turn[t]]
    /\ jobs' = {j \in jobs : j.p # p} /\ saves' = {v \in saves : v.p # p}
    /\ summing' = [summing EXCEPT ![p] = Nil]
    /\ UNCHANGED <<scene, redisVars, pgVars, careVars, deletion, gone>>

Saving(t) ==
    \/ Open(t) \/ Backfill(t) \/ Ask(t) \/ Look(t) \/ PushUser(t) \/ PushAnswer(t)
    \/ Measure(t) \/ Spare(t) \/ GiveUp(t)

Deleting == DeleteRows \/ CheckOrphan \/ CommitDeletion \/ ClearRedis

Caring ==
    \/ \E t \in Turns : GrowsOld(t)
    \/ \E m \in Maintainers : StartMaintenance(m) \/ ReadOld(m) \/ Archive(m)
    \/ KeeperLapses

MemoryNext ==
    \/ \E t \in Turns : Saving(t)
    \/ \E t \in Turns \cup Elsewhere : SaveOnly(t)
    \/ \E j \in jobs : TakeSummary(j) \/ WriteSummary(j) \/ Trim(j)
    \/ \E v \in saves : CommitRows(v) \/ MissRows(v) \/ UpdateProfile(v)
    \/ Caring \/ Deleting \/ ListLapses \/ \E p \in Processes : Crash(p)

MemorySpec == MemoryInit /\ [][MemoryNext]_memoryVars

-----------------------------------------------------------------------------
(* Properties.                                                              *)

\* "The hot history is not trimmed before the summary is made": what was cut from
\* the list a summary tells of, also with summaries made at the same time, until
\* the conversation is deleted.
CutIsSummarized == deletion.pc # "done" => cut \subseteq summary

\* A message has one row, also when the reply to a commit was lost and the save is
\* tried again; and the pair of a turn is there or not.
RowsOnce ==
    /\ \A v, w \in Raw : Message(v) = Message(w) => v = w
    /\ \A t \in Turns : (\E w \in Raw : Message(w) = User(t)) <=> (\E w \in Raw : Message(w) = Answer(t))

\* What was committed is in a row or an archived one until the user deletes it,
\* also with two maintenances at a time.
CommittedIsKept == \A t \in committed : \E w \in rows : t \in w.of

\* No turn is lost on its way from the list to the summary, and from the row to the
\* archive, and none is there twice.
HistoryIsKept == CutIsSummarized /\ RowsOnce /\ CommittedIsKept

\* "The last HISTORY_LIMIT messages are kept" (_trim_and_compress): trimming leaves
\* that many.
RecentStay == [][\A j \in jobs : Trim(j) /\ list' # list => Len(list') >= HistoryLimit]_memoryVars

\* A deleted conversation stays deleted: "also the summary, so that the same id does
\* not read the old one" (delete_conversation).
DeletedStaysDeleted ==
    deletion.pc = "done" /\ failures = 0 =>
        \A t \in gone : /\ \A w \in rows : t \notin w.of
                        /\ \A m \in Messages(list) \cup summary : t \notin m.of

\* The profile is only deleted with the last conversation: "deletion, check and
\* cleaning are in one transaction ... the window is closed" (delete_conversation).
ProfileIsKept ==
    \A t \in told \cap Elsewhere : (\E w \in rows : t \in w.of) => t \in profile
=============================================================================
