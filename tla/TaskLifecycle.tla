--------------------------- MODULE TaskLifecycle ---------------------------
(***************************************************************************)
(* Background agent tasks: their creation (app/services/agent_tasks.py),   *)
(* their records in Redis (app/core/task_manager.py) and their runs        *)
(* (app/agents/runner.py, task_stages.py, react_steps.py, router.py).      *)
(*                                                                         *)
(* The requests of this model are equal: one user, one conversation, one   *)
(* message, so all want the same idempotency key. A request makes at most  *)
(* one task, which bears its name, and goes on as the run of that task in  *)
(* the same process. Every access to Redis or PostgreSQL is an action.     *)
(***************************************************************************)
EXTENDS Integers, FiniteSets

CONSTANTS
    Requests,    \* calls of create_agent_task (resume_agent_task differs in its key)
    SlotLimit,   \* slots of each scope: MAX_CONCURRENT_TASKS and ..._PER_USER
    MaxUses,     \* GITHUB_QUESTION_LIMIT
    MaxFaults,   \* bound: errors of Redis and the database, crashes, shutdowns
    NoRequest

Scopes == {"global", "user"}
Creating == "__creating__"

ASSUME TaskAssumption ==
    /\ SlotLimit \in [Scopes -> Nat] /\ MaxUses \in Nat /\ MaxFaults \in Nat
    /\ NoRequest \notin Requests /\ Creating \notin Requests \cup {NoRequest}

VARIABLES
    taskClaim, \* Redis: idempotent:{user}:{conversation}:{message}
    status,    \* Redis: task:{id}, field status
    cancelMarker, \* Redis: task:{id}:cancel
    produced,  \* Redis: task:{id}:result_buf is not empty
    slots,     \* Redis: task:active_slots and task:active_slots:user:{user}
    used,      \* users.used_requests of a user on trial
    question,  \* history: what became of the question of each request
    job,       \* each request, then the run of its task
    cancel,    \* the call of cancel_agent_task under way (bound: one)
    sole,      \* history: every creation held the claim from its start to its end
    faults     \* bound: MaxFaults

redis == <<taskClaim, status, cancelMarker, produced, slots>>
quota == <<used, question>>
taskVars == <<redis, quota, job, cancel, sole, faults>>

LiveStatuses == {"pending", "generating"}
EndStatuses == {"completed", "error", "cancelled", "timeout"}
Statuses == {"none"} \cup LiveStatuses \cup EndStatuses

Over == [global |-> "over global", user |-> "over user"]
After == [global |-> "user", user |-> "make"]
CreationSteps == {"quota", "global", "user", "over global", "over user", "make", "save", "undo"}
RunSteps == {"start", "cache", "hit", "serve", "keep", "answer", "store", "resolve", "fail",
             "refund"}
JobSteps == CreationSteps \cup RunSteps \cup {"claim", "rollback", "clear", "free", "done"}

NoJob == [step |-> "idle", task |-> NoRequest]

TaskInit ==
    /\ taskClaim = NoRequest
    /\ status = [r \in Requests |-> "none"]
    /\ cancelMarker = [r \in Requests |-> FALSE]
    /\ produced = [r \in Requests |-> FALSE]
    /\ slots = [k \in Scopes |-> 0]
    /\ used = 0
    /\ question = [r \in Requests |-> "none"]
    /\ job = [r \in Requests |-> [pc |-> "claim", held |-> {}]]
    /\ cancel = NoJob /\ sole = TRUE /\ faults = 0

JobGoes(r, pc) == job' = [job EXCEPT ![r].pc = pc]
Active(r) == status[r] \in LiveStatuses
Creators == {r \in Requests : job[r].pc \in CreationSteps}

Smooth == UNCHANGED faults
Trouble == faults < MaxFaults /\ faults' = faults + 1

\* The Lua scripts that end a task: only an active one.
End(r, s) == status' = IF Active(r) THEN [status EXCEPT ![r] = s] ELSE status

\* _finish_cancelled
FinishCancelled(r) ==
    /\ End(r, "cancelled")
    /\ cancelMarker' = [cancelMarker EXCEPT ![r] = FALSE]

-----------------------------------------------------------------------------
(* create_agent_task.                                                      *)

\* Fault: who has waited long enough for the creator goes ahead.
ClaimTaskAnyway(r) ==
    /\ job[r].pc = "claim" /\ Smooth
    /\ \/ taskClaim \in Requests /\ Active(taskClaim) /\ JobGoes(r, "done") /\ UNCHANGED taskClaim
       \/ (taskClaim \in Requests => ~Active(taskClaim)) /\ taskClaim' = Creating /\ JobGoes(r, "quota")
    /\ UNCHANGED <<status, cancelMarker, produced, slots, quota, cancel, sole>>

\* claim_idempotency: SET NX, or the script that replaces a claim of an ended
\* task. An active task is shared; a creation in progress is answered with 409.
\* After an error of Redis the request goes on without a claim.
ClaimTaskKey(r) ==
    /\ job[r].pc = "claim"
    /\ \/ /\ taskClaim = NoRequest \/ (taskClaim \in Requests /\ ~Active(taskClaim))
          /\ taskClaim' = Creating /\ JobGoes(r, "quota") /\ Smooth /\ UNCHANGED sole
       \/ /\ taskClaim = Creating \/ (taskClaim \in Requests /\ Active(taskClaim))
          /\ JobGoes(r, "done") /\ Smooth /\ UNCHANGED <<taskClaim, sole>>
       \/ JobGoes(r, "quota") /\ sole' = FALSE /\ Trouble /\ UNCHANGED taskClaim
    /\ UNCHANGED <<status, cancelMarker, produced, slots, quota, cancel>>

\* reserve_used_questions; the limits before it and a database error refuse too.
ReserveQuestion(r) ==
    /\ job[r].pc = "quota"
    /\ \/ /\ used < MaxUses
          /\ used' = used + 1 /\ question' = [question EXCEPT ![r] = "reserved"]
          /\ JobGoes(r, "global")
       \/ JobGoes(r, "undo") /\ UNCHANGED quota
    /\ UNCHANGED <<redis, cancel, sole, faults>>

\* Fault: a Redis failure counts as a slot.
ReserveBlindly(r, k) ==
    /\ job[r].pc = k /\ slots[k] < SlotLimit[k]
    /\ \/ slots' = [slots EXCEPT ![k] = @ + 1] /\ Smooth
       \/ slots' = slots /\ Trouble
    /\ job' = [job EXCEPT ![r] = [pc |-> After[k], held |-> @.held \cup {k}]]
    /\ UNCHANGED <<taskClaim, status, cancelMarker, produced, quota, cancel, sole>>

\* _try_reserve_task_slot, _try_reserve_user_task_slot. A failing INCR, or an
\* EXPIRE that fails after it, lets the request through without a slot of its own.
ReserveSlot(r, k) ==
    /\ job[r].pc = k
    /\ \/ /\ slots[k] < SlotLimit[k] /\ Smooth
          /\ slots' = [slots EXCEPT ![k] = @ + 1]
          /\ job' = [job EXCEPT ![r] = [pc |-> After[k], held |-> @.held \cup {k}]]
       \/ /\ slots[k] >= SlotLimit[k] /\ Smooth
          /\ slots' = [slots EXCEPT ![k] = @ + 1]
          /\ JobGoes(r, Over[k])
       \/ /\ slots' \in {slots, [slots EXCEPT ![k] = IF @ < SlotLimit[k] THEN @ + 1 ELSE @]}
          /\ JobGoes(r, After[k]) /\ Trouble
    /\ UNCHANGED <<taskClaim, status, cancelMarker, produced, quota, cancel, sole>>

\* The DECR of a refused request; if it fails the request is let through.
StepBack(r, k) ==
    /\ job[r].pc = Over[k]
    /\ \/ slots' = [slots EXCEPT ![k] = @ - 1] /\ JobGoes(r, "undo") /\ Smooth
       \/ slots' = slots /\ JobGoes(r, After[k]) /\ Trouble
    /\ UNCHANGED <<taskClaim, status, cancelMarker, produced, quota, cancel, sole>>

\* create_task and _persist_task_fields; an error may leave a task nobody runs.
CreateTask(r) ==
    /\ job[r].pc = "make"
    /\ \/ status' = [status EXCEPT ![r] = "pending"] /\ JobGoes(r, "save") /\ Smooth
       \/ status' \in {status, [status EXCEPT ![r] = "pending"]} /\ JobGoes(r, "undo") /\ Trouble
    /\ UNCHANGED <<taskClaim, cancelMarker, produced, slots, quota, cancel, sole>>

\* save_idempotent, whose failure is ignored, and _launch_agent_task, which does
\* not wait for anything: the run takes over the slots.
SaveAndLaunch(r) ==
    /\ job[r].pc = "save"
    /\ (taskClaim' = r /\ Smooth) \/ (taskClaim' = taskClaim /\ Trouble)
    /\ JobGoes(r, "start")
    /\ UNCHANGED <<status, cancelMarker, produced, slots, quota, cancel, sole>>

\* The except clause: release_idempotency_claim deletes the key if it says
\* "creating", whoever wrote that.
ReleaseClaim(r) ==
    /\ job[r].pc = "undo"
    /\ \/ taskClaim' = (IF taskClaim = Creating THEN NoRequest ELSE taskClaim) /\ Smooth
       \/ taskClaim' = taskClaim /\ Trouble
    /\ JobGoes(r, "rollback")
    /\ UNCHANGED <<status, cancelMarker, produced, slots, quota, cancel, sole>>

\* rollback_used_questions, which swallows its errors; mark is for the history.
GiveBack(r, mark) ==
    /\ used' = IF used > 0 THEN used - 1 ELSE 0
    /\ question' = [question EXCEPT ![r] = mark]

\* rollback_used_questions if a question was reserved. (The global slot goes back
\* before it, the user's after it; they are other counters.)
RollBackCreation(r) ==
    /\ job[r].pc = "rollback"
    /\ \/ question[r] = "reserved" /\ GiveBack(r, "returned") /\ Smooth
       \/ question[r] = "reserved" /\ UNCHANGED quota /\ Trouble
       \/ question[r] = "none" /\ UNCHANGED quota /\ Smooth
    /\ JobGoes(r, "free")
    /\ UNCHANGED <<redis, cancel, sole>>

-----------------------------------------------------------------------------
(* run_agent_task.                                                         *)

\* Fault: the status is written without a look at the old one.
StartAnyway(r) ==
    /\ job[r].pc = "start"
    /\ status' = [status EXCEPT ![r] = "generating"]
    /\ \E pc \in {"cache", "answer"} : JobGoes(r, pc)
    /\ UNCHANGED <<taskClaim, cancelMarker, produced, slots, quota, cancel, sole, faults>>

\* update_status; a conversation with history does not use the cache.
StartRun(r) ==
    /\ job[r].pc = "start"
    /\ \/ /\ Active(r) /\ status' = [status EXCEPT ![r] = "generating"]
          /\ \E pc \in {"cache", "answer"} : JobGoes(r, pc)
       \/ ~Active(r) /\ JobGoes(r, "resolve") /\ UNCHANGED status
    /\ UNCHANGED <<taskClaim, cancelMarker, produced, slots, quota, cancel, sole, faults>>

\* Nothing cached, and the rebuild lock is free.
CacheMiss(r) ==
    /\ job[r].pc = "cache"
    /\ JobGoes(r, "answer")
    /\ UNCHANGED <<redis, quota, cancel, sole, faults>>

\* Somebody else rebuilds the entry, for more than 15 s, or a cancellation is
\* noticed meanwhile.
CacheBusy(r) ==
    /\ job[r].pc = "cache"
    /\ \/ End(r, "completed") /\ UNCHANGED cancelMarker
       \/ cancelMarker[r] /\ FinishCancelled(r)
    /\ JobGoes(r, "clear")
    /\ UNCHANGED <<taskClaim, produced, slots, quota, cancel, sole, faults>>

\* A cached answer is written to the buffer.
CacheHit(r) ==
    /\ job[r].pc = "cache"
    /\ produced' = [produced EXCEPT ![r] = TRUE]
    /\ JobGoes(r, "hit")
    /\ UNCHANGED <<taskClaim, status, cancelMarker, slots, quota, cancel, sole, faults>>

\* is_cancelled_remote after a chunk; a marker that cannot be read is not there.
CheckCancelled(r) ==
    /\ job[r].pc = "hit"
    /\ \/ cancelMarker[r] /\ FinishCancelled(r) /\ JobGoes(r, "clear") /\ Smooth
       \/ ~cancelMarker[r] /\ JobGoes(r, "serve") /\ Smooth /\ UNCHANGED <<status, cancelMarker>>
       \/ cancelMarker[r] /\ JobGoes(r, "serve") /\ Trouble /\ UNCHANGED <<status, cancelMarker>>
    /\ UNCHANGED <<taskClaim, produced, slots, quota, cancel, sole>>

\* finish_task, whose result is not looked at.
ServeCached(r) ==
    /\ job[r].pc = "serve"
    /\ End(r, "completed")
    /\ JobGoes(r, "keep")
    /\ UNCHANGED <<taskClaim, cancelMarker, produced, slots, quota, cancel, sole, faults>>

\* save_messages of the cached answer.
KeepCached(r) ==
    /\ job[r].pc = "keep"
    /\ JobGoes(r, "clear")
    /\ UNCHANGED <<redis, quota, cancel, sole, faults>>

\* Any error on the way of a hit, in save_messages too, makes it a miss.
HitFails(r) ==
    /\ job[r].pc \in {"hit", "serve", "keep"}
    /\ JobGoes(r, "cache") /\ Trouble
    /\ UNCHANGED <<redis, quota, cancel, sole>>

\* Streaming, tools and rounds: text is appended, or dropped for a fallback.
Produce(r) ==
    /\ job[r].pc = "answer"
    /\ produced' = [produced EXCEPT ![r] = ~@]
    /\ UNCHANGED <<taskClaim, status, cancelMarker, slots, quota, job, cancel, sole, faults>>

\* A cancellation is noticed; handle_simple_task just returns.
NoticeCancelled(r) ==
    /\ job[r].pc = "answer" /\ cancelMarker[r]
    /\ FinishCancelled(r) \/ UNCHANGED <<status, cancelMarker>>
    /\ JobGoes(r, "resolve")
    /\ UNCHANGED <<taskClaim, produced, slots, quota, cancel, sole, faults>>

\* _finish_text_answer, _emit_simple_result: whoever ends the task goes on.
FinishTextAnswer(r) ==
    /\ job[r].pc = "answer"
    /\ End(r, "completed")
    /\ JobGoes(r, IF Active(r) THEN "store" ELSE "resolve")
    /\ UNCHANGED <<taskClaim, cancelMarker, produced, slots, quota, cancel, sole, faults>>

\* Memory and cache; _finish_text_answer logs a failure.
StoreAnswer(r) ==
    /\ job[r].pc = "store"
    /\ JobGoes(r, "resolve")
    /\ UNCHANGED <<redis, quota, cancel, sole, faults>>

\* handle_simple_task catches its errors. If that fails as well, _maybe_simple_task
\* goes on with the other way of answering.
SimpleTaskFails(r) ==
    /\ job[r].pc \in {"answer", "store"} /\ Trouble
    /\ \/ End(r, "error") /\ JobGoes(r, "resolve")
       \/ JobGoes(r, "answer") /\ UNCHANGED status
    /\ UNCHANGED <<taskClaim, cancelMarker, produced, slots, quota, cancel, sole>>

\* _resolve_handled_outcome. A question that was not answered is given back.
Resolve(r) ==
    /\ job[r].pc = "resolve"
    /\ JobGoes(r, IF status[r] = "completed" THEN "clear" ELSE "refund")
    /\ UNCHANGED <<redis, quota, cancel, sole, faults>>

\* An exception in any of these steps, or a missing API key.
RunFails(r) ==
    /\ job[r].pc \in {"start", "cache", "answer", "resolve"}
    /\ JobGoes(r, "fail") /\ Trouble
    /\ UNCHANGED <<redis, quota, cancel, sole>>

\* fail_task; when it fails as well, nothing is given back.
FailTask(r) ==
    /\ job[r].pc = "fail"
    /\ \/ End(r, "error") /\ JobGoes(r, "refund") /\ Smooth
       \/ JobGoes(r, "clear") /\ Trouble /\ UNCHANGED status
    /\ UNCHANGED <<taskClaim, cancelMarker, produced, slots, quota, cancel, sole>>

\* Fault: the exception path falls through into the regular one.
RefundAndResolve(r) ==
    /\ job[r].pc = "refund" /\ Smooth
    /\ IF produced[r] THEN UNCHANGED quota ELSE GiveBack(r, "returned")
    /\ JobGoes(r, IF question[r] = "reserved" THEN "resolve" ELSE "clear")
    /\ UNCHANGED <<redis, cancel, sole>>

\* Fault: the question is given back without a look at the buffer.
RefundAlways(r) ==
    /\ job[r].pc = "refund" /\ Smooth
    /\ GiveBack(r, "returned")
    /\ JobGoes(r, "clear")
    /\ UNCHANGED <<redis, cancel, sole>>

\* _refund_quota_if_unproduced; a buffer that cannot be read counts as empty, an
\* UPDATE that fails is logged.
RefundIfUnproduced(r) ==
    /\ job[r].pc = "refund"
    /\ \/ produced[r] /\ UNCHANGED quota /\ Smooth
       \/ ~produced[r] /\ GiveBack(r, "returned") /\ Smooth
       \/ produced[r] /\ GiveBack(r, "returned unread") /\ Trouble
       \/ ~produced[r] /\ UNCHANGED quota /\ Trouble
    /\ JobGoes(r, "clear")
    /\ UNCHANGED <<redis, cancel, sole>>

\* The instance shuts down: CancelledError, and _finish_cancelled unless it came in
\* an except clause or Redis is gone as well.
ShutDown(r) ==
    /\ job[r].pc \in RunSteps /\ Trouble
    /\ \/ job[r].pc \notin {"fail", "refund"} /\ FinishCancelled(r)
       \/ UNCHANGED <<status, cancelMarker>>
    /\ JobGoes(r, "clear")
    /\ UNCHANGED <<taskClaim, produced, slots, quota, cancel, sole>>

\* _release_task_resources.
ClearMarker(r) ==
    /\ job[r].pc = "clear"
    /\ \/ cancelMarker' = [cancelMarker EXCEPT ![r] = FALSE] /\ Smooth
       \/ cancelMarker[r] /\ cancelMarker' = cancelMarker /\ Trouble
    /\ JobGoes(r, "free")
    /\ UNCHANGED <<taskClaim, status, produced, slots, quota, cancel, sole>>

\* Fault: a slot is given back twice.
FreeSlotAgain(r, k) ==
    /\ job[r].pc = "free" /\ k \in job[r].held
    /\ slots' = [slots EXCEPT ![k] = @ - 2]
    /\ job' = [job EXCEPT ![r].held = @ \ {k}]
    /\ UNCHANGED <<taskClaim, status, cancelMarker, produced, quota, cancel, sole, faults>>

\* _release_task_slot, _release_user_task_slot; a failure leaves the count.
FreeSlot(r, k) ==
    /\ job[r].pc = "free" /\ k \in job[r].held
    /\ \/ slots' = [slots EXCEPT ![k] = IF @ > 0 THEN @ - 1 ELSE 0] /\ Smooth
       \/ slots' = slots /\ Trouble
    /\ job' = [job EXCEPT ![r].held = @ \ {k}]
    /\ UNCHANGED <<taskClaim, status, cancelMarker, produced, quota, cancel, sole>>

EndJob(r) ==
    /\ job[r].pc = "free" /\ job[r].held = {}
    /\ JobGoes(r, "done")
    /\ UNCHANGED <<redis, quota, cancel, sole, faults>>

\* The process dies; what its job held in Redis and the database stays.
TaskCrash(r) ==
    /\ job[r].pc # "done" /\ Trouble
    /\ job' = [job EXCEPT ![r] = [pc |-> "done", held |-> {}]]
    /\ UNCHANGED <<redis, quota, cancel, sole>>

-----------------------------------------------------------------------------
(* cancel_agent_task, from any instance.                                   *)

ReadTask(r) ==
    /\ cancel = NoJob /\ Active(r)
    /\ cancel' = [step |-> "mark", task |-> r]
    /\ UNCHANGED <<redis, quota, job, sole, faults>>

\* request_cancel; an error is reported and ends the call.
RequestCancel ==
    /\ cancel.step = "mark"
    /\ \/ /\ cancelMarker' = [cancelMarker EXCEPT ![cancel.task] = TRUE] /\ Smooth
          /\ cancel' = [cancel EXCEPT !.step = "end"]
       \/ cancel' = NoJob /\ Trouble /\ UNCHANGED cancelMarker
    /\ UNCHANGED <<taskClaim, status, produced, slots, quota, job, sole>>

\* cancel_task_if_active, or the call dies before it.
CancelTask ==
    /\ cancel.step = "end"
    /\ (End(cancel.task, "cancelled") /\ Smooth) \/ (UNCHANGED status /\ Trouble)
    /\ cancel' = NoJob
    /\ UNCHANGED <<taskClaim, cancelMarker, produced, slots, quota, job, sole>>

-----------------------------------------------------------------------------
(* Time.                                                                   *)

\* mark_task_timeout, by the alarm of the run or by whoever reads the task. The
\* marker is set by a second command, which may fail; the run sees it when it
\* next looks.
TimeOut(r) ==
    /\ Active(r)
    /\ status' = [status EXCEPT ![r] = "timeout"]
    /\ \/ cancelMarker' = [cancelMarker EXCEPT ![r] = TRUE] /\ Smooth
       \/ cancelMarker' = cancelMarker /\ Trouble
    /\ UNCHANGED <<taskClaim, produced, slots, quota, job, cancel, sole>>

\* The 10 s of a claim. A creation that takes longer is counted as a fault.
ClaimExpires ==
    /\ taskClaim # NoRequest /\ taskClaim' = NoRequest
    /\ \/ ~(taskClaim = Creating /\ Creators # {}) /\ Smooth /\ UNCHANGED sole
       \/ taskClaim = Creating /\ Creators # {} /\ Trouble /\ sole' = FALSE
    /\ UNCHANGED <<status, cancelMarker, produced, slots, quota, job, cancel>>

Create(r) ==
    \/ ClaimTaskKey(r) \/ ReserveQuestion(r) \/ CreateTask(r) \/ SaveAndLaunch(r)
    \/ ReleaseClaim(r) \/ RollBackCreation(r)
    \/ \E k \in Scopes : ReserveSlot(r, k) \/ StepBack(r, k)

Run(r) ==
    \/ StartRun(r) \/ CacheMiss(r) \/ CacheBusy(r) \/ CacheHit(r) \/ CheckCancelled(r)
    \/ ServeCached(r) \/ KeepCached(r) \/ HitFails(r) \/ Produce(r) \/ NoticeCancelled(r)
    \/ FinishTextAnswer(r) \/ StoreAnswer(r) \/ SimpleTaskFails(r) \/ Resolve(r) \/ RunFails(r)
    \/ FailTask(r) \/ RefundIfUnproduced(r) \/ ShutDown(r) \/ ClearMarker(r) \/ EndJob(r)
    \/ \E k \in Scopes : FreeSlot(r, k)

TaskNext ==
    \/ \E r \in Requests :
          \/ Create(r) \/ Run(r) \/ TaskCrash(r)
          \/ ReadTask(r) \/ TimeOut(r)
    \/ RequestCancel \/ CancelTask \/ ClaimExpires

TaskSpec == TaskInit /\ [][TaskNext]_taskVars

-----------------------------------------------------------------------------
(* Properties. *)

TaskTypeOK ==
    /\ taskClaim \in Requests \cup {Creating, NoRequest}
    /\ status \in [Requests -> Statuses]
    /\ cancelMarker \in [Requests -> BOOLEAN] /\ produced \in [Requests -> BOOLEAN]
    /\ slots \in [Scopes -> Nat] /\ used \in 0..MaxUses
    /\ question \in [Requests -> {"none", "reserved", "returned", "returned unread"}]
    /\ job \in [Requests -> [pc : JobSteps, held : SUBSET Scopes]]
    /\ cancel \in [step : {"idle", "mark", "end"}, task : Requests \cup {NoRequest}]
    /\ sole \in BOOLEAN /\ faults \in 0..MaxFaults

\* Equal requests do not create side by side, with crashes, the replacement of
\* claims of ended tasks and claims that were not released; unless Redis failed to
\* answer a claim or a creation outlasted its claim.
OneCreator == sole => \A q, r \in Creators : q = r

Holders(k) == {r \in Requests : k \in job[r].held}

\* The counters never fall below the slots that live requests and runs hold, so no
\* more than the limit are held; a release never gives back somebody else's.
SlotsCoverHolders ==
    \A k \in Scopes :
        Cardinality(Holders(k)) <= slots[k] /\ Cardinality(Holders(k)) <= SlotLimit[k]

\* A task that has ended stays as it ended: late answers, errors, cancellations,
\* timeouts and starts from other instances change nothing.
EndedStaysEnded ==
    [][\A r \in Requests : status[r] \in EndStatuses => status'[r] = status[r]]_taskVars

\* A question is given back once at most, whichever of the creation's and the
\* run's error paths are taken: the user's count is that of the questions which
\* were reserved and not given back.
QuotaBalances == used = Cardinality({r \in Requests : question[r] = "reserved"})

\* An answer that was produced and delivered has been paid for with a question,
\* unless its buffer could not be read when a late error was handled.
AnsweredIsPaid ==
    \A r \in Requests :
        status[r] = "completed" /\ produced[r] => question[r] \in {"reserved", "returned unread"}

\* Equal requests, slots and their counters survive whatever ends a creation.
AdmissionHolds == OneCreator /\ SlotsCoverHolders

\* Questions are counted fairly, whatever fails.
QuestionsAreFair == TaskTypeOK /\ QuotaBalances /\ AnsweredIsPaid

(* What the comments claim and the code does not do; see the findings. *)

\* runner.py:194, simple_task.py:119: nothing is written to memory for a task that
\* was cancelled or timed out. (At these steps save_messages is called next.)
MemoryOfCompleted ==
    \A r \in Requests : job[r].pc \in {"keep", "store"} => status[r] = "completed"
=============================================================================
