---------------------------- MODULE RequestTrace ----------------------------
(***************************************************************************)
(* What is recorded of a request: its root (services/rag_request_trace),   *)
(* its searches (agents/retrieval_trace) and its answer                    *)
(* (services/answer_trace).  The trace is found through a context variable *)
(* that each task has its own copy of; tools and experts search in tasks   *)
(* of their own.  The rows are written in the background, later or never.  *)
(***************************************************************************)
EXTENDS Naturals, Sequences, SequencesExt

CONSTANTS
    Asked,       \* requests; each is its own main task
    Finders,     \* tasks the main tasks start
    Untraced,    \* the context variable is not set
    MaxSearches  \* bound: searches of a task

ASSUME TraceAssumption ==
    Asked \cap Finders = {} /\ Untraced \notin Asked /\ MaxSearches \in Nat \ {0}

VARIABLES
    trace,   \* _RequestTrace: whether it is open, the searches it knows of
    seen,    \* _CURRENT in each task
    task,    \* each task: how far it is, whose it is, its searches
    answer,  \* of each request: the snapshot to be written, the row in answer_traces
    root,    \* of each request: the row in rag_request_traces
    made     \* history: the searches of all tasks of a request

traceVars == <<trace, seen, task, answer, root, made>>

Tasks == Asked \cup Finders

TraceInit ==
    /\ trace = [r \in Asked |-> [at |-> "none", found |-> <<>>, spans |-> 0]]
    /\ seen = [t \in Tasks |-> Untraced]
    /\ task = [t \in Tasks |-> [at |-> "idle", of |-> Untraced, done |-> 0]]
    /\ answer = [r \in Asked |-> [at |-> "none", due |-> <<>>, row |-> <<>>]]
    /\ root = [r \in Asked |-> [at |-> "none", status |-> "running", spans |-> 0, rows |-> 0]]
    /\ made = [r \in Asked |-> <<>>]

Runs(t) == task[t].at = "running"
StillOpen(r) == r # Untraced /\ trace[r].at = "open"

-----------------------------------------------------------------------------

\* begin_request: chat_generate and run_agent_task.
BeginRequest(r) ==
    /\ task[r].at = "idle"
    /\ task' = [task EXCEPT ![r] = [at |-> "running", of |-> r, done |-> 0]]
    /\ seen' = [seen EXCEPT ![r] = r]
    /\ trace' = [trace EXCEPT ![r].at = "open"]
    /\ UNCHANGED <<answer, root, made>>

\* A task starts with a copy of the context of the one that creates it.
StartFinder(r, f) ==
    /\ Runs(r) /\ task[f].at = "idle"
    /\ task' = [task EXCEPT ![f] = [at |-> "running", of |-> r, done |-> 0]]
    /\ seen' = [seen EXCEPT ![f] = seen[r]]
    /\ UNCHANGED <<trace, answer, root, made>>

EndFinder(f) ==
    /\ f \in Finders /\ Runs(f)
    /\ task' = [task EXCEPT ![f].at = "over"]
    /\ UNCHANGED <<trace, seen, answer, root, made>>

\* Fault: what a task finds replaces what the others found.
FoundLast(found, uid) == <<uid>>

\* set_last_retrieval: the searches of all rounds, in the order in which they end.
FoundAlso(found, uid) == Append(found, uid)

\* record, where a search ends: the object of the trace is shared, and keeps what it is
\* told even after the end of the request; spans do not. An answer is given after the
\* searches of the main task, while a finder that nobody waits for goes on.
Search(t) ==
    LET uid == <<t, task[t].done + 1>>
        r == seen[t]
    IN /\ Runs(t) /\ task[t].done < MaxSearches
       /\ t \in Asked => answer[t].at = "none"
       /\ task' = [task EXCEPT ![t].done = @ + 1]
       /\ trace' = IF r = Untraced THEN trace
                   ELSE [trace EXCEPT ![r].found = FoundAlso(@, uid),
                                      ![r].spans = IF StillOpen(r) THEN @ + 1 ELSE @]
       /\ made' = [made EXCEPT ![task[t].of] = Append(@, uid)]
       /\ UNCHANGED <<seen, answer, root>>

\* record_answer, of an answer that was given; the row is made up later.
RecordAnswer(r) ==
    /\ Runs(r) /\ seen[r] = r /\ answer[r].at = "none"
    /\ answer' = [answer EXCEPT ![r].at = "due", ![r].due = made[r]]
    /\ UNCHANGED <<trace, seen, task, root, made>>

\* finish_request: only the first counts, and only in this task is the variable reset.
FinishRequest(r, status) ==
    IF StillOpen(seen[r])
    THEN /\ trace' = [trace EXCEPT ![r].at = "finished"]
         /\ root' = [root EXCEPT ![r].at = "due", ![r].status = status, ![r].spans = trace[r].spans]
         /\ seen' = [seen EXCEPT ![r] = Untraced]
    ELSE UNCHANGED <<trace, root, seen>>

\* finalize_answer: success, whatever the main task does afterwards.
FinishTrace(r) ==
    /\ Runs(r) /\ answer[r].at # "none"
    /\ FinishRequest(r, "success")
    /\ UNCHANGED <<task, answer, made>>

\* The finally of chat_generate and of run_agent_task.
EndMain(r) ==
    /\ r \in Asked /\ Runs(r)
    /\ FinishRequest(r, "failed")
    /\ task' = [task EXCEPT ![r].at = "over"]
    /\ UNCHANGED <<answer, made>>

\* _persist of answer_trace looks at the trace when it runs.
PersistAnswer(r) ==
    /\ answer[r].at = "due"
    /\ answer' \in {[answer EXCEPT ![r].at = "written", ![r].row = trace[r].found], [answer EXCEPT ![r].at = "failed"]}
    /\ UNCHANGED <<trace, seen, task, root, made>>

\* _persist of rag_request_trace: the root and its spans in one transaction, or nothing.
PersistRoot(r) ==
    /\ root[r].at = "due"
    /\ \E n \in {0, 1} : root' = [root EXCEPT ![r].at = "over", ![r].rows = @ + n]
    /\ UNCHANGED <<trace, seen, task, answer, made>>

TraceNext ==
    \/ \E r \in Asked :
         \/ BeginRequest(r) \/ RecordAnswer(r) \/ FinishTrace(r) \/ EndMain(r) \/ PersistAnswer(r) \/ PersistRoot(r)
         \/ \E f \in Finders : StartFinder(r, f)
    \/ \E f \in Finders : EndFinder(f)
    \/ \E t \in Tasks : Search(t)

TraceSpec == TraceInit /\ [][TraceNext]_traceVars

-----------------------------------------------------------------------------
(* Property. *)

\* The row of an answer names every search that was made for it, in whichever task, the
\* first one first, and none of another request.  A request has one root at most; it is a
\* success only if there was an answer, and has a span for every search before its end.
RowsTellRequest ==
    \A r \in Asked :
        /\ answer[r].at = "written" =>
             IsPrefix(answer[r].due, answer[r].row) /\ ToSet(answer[r].row) \subseteq ToSet(made[r])
        /\ root[r].rows <= 1
        /\ root[r].status = "success" => answer[r].at # "none"
        /\ root[r].at # "none" =>
             root[r].spans <= Len(made[r]) /\ (answer[r].at # "none" => root[r].spans >= Len(answer[r].due))
=============================================================================
