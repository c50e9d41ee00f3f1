------------------------------ MODULE AgentRun ------------------------------
(***************************************************************************)
(* The run of one background task, from its start to the release of what   *)
(* it holds: run_agent_task and the steps it is made of (agents/runner,    *)
(* task_stages, react_steps, router, simple_task, sub_agents,              *)
(* orchestrator).  TaskLifecycle has the creation of tasks, their slots    *)
(* and questions; here it is the answer: where its text comes from, what   *)
(* the model was told, what was paid, and the rebuild lock of the entry of *)
(* the answer cache.                                                       *)
(*                                                                         *)
(* A text is the sequence of the sources of its pieces.                    *)
(***************************************************************************)
EXTENDS Naturals, FiniteSets, Sequences, SequencesExt, Subsequences

CONSTANTS
    MaxSteps,     \* rounds of _run_react_loop: 3
    MaxMessages,  \* max_messages of compress_message_history: 10
    Prompts,      \* what _build_task_messages may return
    MaxCalls,     \* bound: tools the model asks for at once
    MaxPieces,    \* bound: pieces of one stream
    RunScenes,    \* bound: the persona, whether the answer cache is used, and the faults
    Nobody

\* A prompt begins with the system's message; of what was said before it has no tools.
ASSUME RunAssumption ==
    /\ MaxMessages \in Nat \ {0}
    /\ \A p \in Prompts :
         /\ p # <<>> /\ p[1].role = "system"
         /\ p \in Seq([role : {"system", "old", "user", "asst"}, tools : {0}])

VARIABLES
    task,      \* Redis: task:{id}, its status and result
    marker,    \* Redis: task:{id}:cancel
    buf,       \* Redis: task:{id}:result_buf
    lock,      \* Redis: the rebuild lock of the entry
    entry,     \* the entry of the answer cache
    memory,    \* the answer save_messages was given
    run,       \* where the run is: step, intent, round, token of the lock, renewal, scene
    messages,  \* of the model's context: their role and tool calls
    call,      \* the stream that is read
    unbilled,  \* history: calls of a model that gave something and were not billed
    stopped,   \* history: the task was cancelled or its time ran out
    mishaps    \* bound: of the scene

context == <<messages, call>>
shared == <<lock, entry>>
runVars == <<task, marker, buf, shared, memory, run, context, unbilled, stopped, mishaps>>

NoCall == [text |-> <<>>, tools |-> 0, usage |-> FALSE, blocked |-> FALSE, pieces |-> 0]

RunInit ==
    /\ \E s \in RunScenes :
         run = [pc |-> "start", intent |-> "none", round |-> 0, token |-> FALSE, renews |-> FALSE, result |-> "none", scene |-> s]
    /\ task = [status |-> "pending", result |-> <<>>]
    /\ marker = FALSE /\ buf = <<>> /\ lock = Nobody /\ entry = <<>> /\ memory = <<>>
    /\ messages = <<>> /\ call = NoCall /\ unbilled = 0 /\ stopped = FALSE /\ mishaps = 0

At(pc) == run.pc = pc
GoTo(pc) == run' = [run EXCEPT !.pc = pc]
Fine == UNCHANGED mishaps
Mishap == mishaps < run.scene.mishaps /\ mishaps' = mishaps + 1
Civil == run.scene.civil
Cacheable == run.scene.cacheable
Live == task.status \in {"pending", "generating"}

\* finish_task, fail_task, cancel_task_if_active: only a live task.
Finish(s, text) == task' = IF Live THEN [status |-> s, result |-> text] ELSE task

\* _finish_cancelled: the text so far is kept as a draft.
StopRun(text) == Finish("cancelled", text) /\ marker' = FALSE /\ GoTo("resolve")

Gave(c) == c.text # <<>> \/ c.tools > 0 \/ c.usage
Unsettled(c) == unbilled' = unbilled + (IF Gave(c) THEN 1 ELSE 0)

-----------------------------------------------------------------------------
(* prepare_generation, _wait_cache_or_busy: the answer cache and its lock.  *)

\* update_status; _build_cache_ctx lets only a first question use the cache.
StartGeneration ==
    /\ At("start")
    /\ task' = IF Live THEN [task EXCEPT !.status = "generating"] ELSE task
    /\ GoTo(IF ~Live THEN "resolve" ELSE IF Cacheable THEN "look" ELSE "route")
    /\ UNCHANGED <<marker, buf, shared, memory, context, unbilled, stopped>> /\ Fine

\* _try_cache_hit. The result of finish_task is not looked at; whatever fails on the
\* way makes it a miss.
TryCacheHit ==
    /\ At("look") \/ At("wait")
    /\ entry # <<>>
    /\ \/ /\ marker /\ buf' = Append(buf, "cached") /\ StopRun(buf') /\ UNCHANGED memory /\ Fine
       \/ /\ ~marker /\ buf' = Append(buf, "cached") /\ memory' = entry /\ Finish("completed", entry)
          /\ GoTo("release") /\ UNCHANGED marker /\ Fine
       \/ /\ buf' \in {buf, Append(buf, "cached")} /\ GoTo("lock")
          /\ (Finish("completed", entry) /\ buf' # buf) \/ UNCHANGED task
          /\ UNCHANGED <<marker, memory>> /\ Mishap
    /\ UNCHANGED <<shared, context, unbilled, stopped>>

MissCache ==
    /\ At("look") /\ entry = <<>> /\ GoTo("lock")
    /\ UNCHANGED <<task, marker, buf, shared, memory, context, unbilled, stopped>> /\ Fine

\* Fault: the token is noted when the request has been routed.
AcquireUnnoted ==
    /\ At("lock") /\ lock = Nobody /\ lock' = "self"
    /\ run' = [run EXCEPT !.pc = "route", !.renews = TRUE]
    /\ UNCHANGED <<task, marker, buf, entry, memory, context, unbilled, stopped>> /\ Fine

\* acquire_rebuild_lock, first or after 15 s; gate_and_route notes the token in the
\* list that the finally clause reads, before anything else may fail.
AcquireLock ==
    /\ At("lock") \/ At("again")
    /\ \/ /\ lock = Nobody /\ lock' = "self"
          /\ run' = [run EXCEPT !.pc = "route", !.token = TRUE, !.renews = TRUE]
          /\ UNCHANGED task /\ Fine
       \/ /\ lock # Nobody /\ At("lock") /\ GoTo("wait") /\ UNCHANGED <<lock, task>> /\ Fine
       \/ /\ lock # Nobody /\ At("again") /\ GoTo("release") /\ Finish("completed", <<"busy">>)
          /\ UNCHANGED lock /\ Fine
       \/ /\ lock' \in {lock, IF lock = Nobody THEN "self" ELSE lock} /\ GoTo("fail")
          /\ UNCHANGED task /\ Mishap
    /\ UNCHANGED <<marker, buf, entry, memory, context, unbilled, stopped>>

\* The 30 looks at the cache, and their end.
WaitForEntry ==
    /\ At("wait")
    /\ \/ marker /\ StopRun(buf)
       \/ ~marker /\ entry = <<>> /\ GoTo("again") /\ UNCHANGED <<task, marker>>
    /\ UNCHANGED <<buf, shared, memory, context, unbilled, stopped>> /\ Fine

-----------------------------------------------------------------------------
(* _maybe_simple_task, handle_simple_task.                                 *)

\* classify_by_keywords, by the domains that the words of the question name: a tool of
\* its own, several with one expert or more, or none. A journey takes the four experts.
Intents == IF Civil THEN {"law"} ELSE {"single", "mixed", "journey", "none"}

\* Without an intent the run goes on as one that needs no tool.
RouteTask ==
    /\ At("route")
    /\ \E i \in Intents :
         run' = [run EXCEPT !.intent = i, !.pc = IF i \in {"law", "single"} THEN "simple" ELSE "prepare"]
    /\ UNCHANGED <<task, marker, buf, shared, memory, context, unbilled, stopped>> /\ Fine

\* What a call of a model inside a tool gives: an answer, one that is no JSON, nothing.
\* The answer is billed before it is parsed.
Billed(reply) == reply \in {"good", "garbled"}

UnbilledReplies(replies) == Cardinality({i \in DOMAIN replies : replies[i] # "down" /\ ~Billed(replies[i])})

\* call_sub_agent asks once more after an answer that is of no use.
SubAgent == {<<"good">>} \cup ({"garbled", "down"} \X {"good", "garbled", "down"})

\* update_status, history and the first look at the marker; _run_simple_tool, with or
\* without a sub agent, and the second look.
SimpleTool ==
    /\ At("simple")
    /\ task' = IF Live THEN [task EXCEPT !.status = "generating"] ELSE task
    /\ \/ (~Live \/ marker) /\ GoTo("resolve") /\ UNCHANGED unbilled
       \/ /\ Live /\ ~marker
          /\ \E r \in {"data", "error"} \cup (IF Civil THEN {"mapping"} ELSE {}) :
               run' = [run EXCEPT !.pc = "format", !.result = r]
          /\ \E replies \in {<<>>} \cup (IF Civil THEN {} ELSE SubAgent) :
               unbilled' = unbilled + UnbilledReplies(replies)
    /\ UNCHANGED <<marker, buf, shared, memory, context, stopped>> /\ Fine

\* _fallback_tool_view: the fields of the result, or a text for its error.
ToolView == IF run.result = "error" THEN <<"failure">> ELSE <<"view">>

\* _civil_simple_answer, _format_simple_answer: what may come of the result. Without a
\* key a civil question is refused, another one fails (see NoKey).
SimpleAnswers ==
    IF Civil
    THEN CASE run.result = "mapping" -> {<<"mapping">>}
           [] run.result = "error" -> {<<"failure">>}
           [] run.result = "data" -> {<<"grounded">>, <<"refusal">>, <<"failure">>}
    ELSE {<<"simple">>, ToolView}

\* _emit_simple_result: the filter, the buffer, and the end of the task. Only who ends
\* it goes on to memory and cache.
EmitSimple ==
    /\ At("format")
    /\ \/ marker /\ GoTo("resolve") /\ UNCHANGED <<task, buf>>
       \/ /\ ~marker
          /\ \E a \in SimpleAnswers \cup {<<"safe">>} :
               /\ buf' = buf \o a
               /\ Finish("completed", a)
               /\ IF Live THEN run' = [run EXCEPT !.pc = "save", !.result = a[1]] ELSE GoTo("resolve")
    /\ UNCHANGED <<marker, shared, memory, context, unbilled, stopped>> /\ Fine

\* SemanticCache.set keeps neither the safety message nor the standard fallback.
Caches(text, allowed) ==
    entry' = IF Cacheable /\ allowed /\ text # <<"safe">> THEN text ELSE entry

\* _save_simple_task_artifacts
SaveSimple ==
    /\ At("save") /\ memory' = task.result /\ Caches(task.result, TRUE) /\ GoTo("resolve")
    /\ UNCHANGED <<task, marker, buf, lock, context, unbilled, stopped>> /\ Fine

\* _build_simple_answer without a key.
NoKey ==
    /\ At("format") /\ ~Civil /\ ~marker /\ Finish("error", <<>>) /\ GoTo("resolve")
    /\ UNCHANGED <<marker, buf, shared, memory, context, unbilled, stopped>> /\ Fine

\* An exception ends the task; if that fails too, the run goes on as if it was no
\* simple task, with the tool of the civil persona or without any.
SimpleFails ==
    /\ run.pc \in {"simple", "format", "save"}
    /\ \/ Finish("error", <<>>) /\ GoTo("resolve") /\ UNCHANGED buf /\ Mishap
       \/ /\ mishaps + 2 <= run.scene.mishaps /\ mishaps' = mishaps + 2
          /\ run' = [run EXCEPT !.pc = "prepare", !.intent = IF Civil THEN "law" ELSE "none"]
          /\ buf' \in {buf, Append(buf, "simple")} /\ UNCHANGED task
    /\ UNCHANGED <<marker, shared, memory, context, unbilled, stopped>>

-----------------------------------------------------------------------------
(* compress_message_history.                                               *)

Says(role) == [role |-> role, tools |-> 0]

\* Earlier summaries, and what else is behind the first message.
Summaries(ms) == Picked(ms, {i \in DOMAIN ms : ms[i] = Says("old")})
Rest(ms) == Picked(ms, {i \in 2..Len(ms) : ms[i] # Says("old")})

\* Fault: the cut is made where it falls.
CompressedAnywhere(ms) ==
    IF Len(Rest(ms)) <= MaxMessages THEN ms
    ELSE <<Head(ms)>> \o Summaries(ms) \o <<Says("old")>>
         \o SubSeq(Rest(ms), Len(Rest(ms)) - MaxMessages + 1, Len(Rest(ms)))

\* The first message and earlier summaries stay, and the last MaxMessages, from the
\* assistant message on whose tools the first of them answers; the others become one
\* summary.
Compressed(ms) ==
    LET rest == Rest(ms)
        from == Max({0} \cup {i \in 1..Len(rest) - MaxMessages + 1 : rest[i] # Says("tool")})
    IN IF Len(ms) <= MaxMessages \/ Len(rest) <= MaxMessages \/ from <= 1 THEN ms
       ELSE <<Head(ms)>> \o Summaries(ms) \o <<Says("old")>> \o SubSeq(rest, from, Len(rest))

-----------------------------------------------------------------------------
(* _prepare_task_run, _run_react_loop and its stream.                      *)

PrepareRun ==
    /\ At("prepare")
    /\ \/ Finish("error", <<>>) /\ GoTo("release") /\ UNCHANGED messages
       \/ messages' \in Prompts /\ GoTo("round") /\ UNCHANGED task
    /\ UNCHANGED <<marker, buf, shared, memory, call, unbilled, stopped>> /\ Fine

\* A round begins, or there have been MaxSteps.
BeginRound ==
    /\ At("round")
    /\ IF run.round = MaxSteps THEN GoTo("last") /\ UNCHANGED <<task, marker, context>>
       ELSE IF marker THEN StopRun(buf) /\ UNCHANGED context
       ELSE /\ messages' = Compressed(messages) /\ call' = NoCall /\ GoTo("stream")
            /\ UNCHANGED <<task, marker>>
    /\ UNCHANGED <<buf, shared, memory, unbilled, stopped>> /\ Fine

\* Text that the guard lets through goes to the buffer at once.
StreamPiece ==
    /\ At("stream") /\ ~call.usage /\ ~call.blocked /\ call.pieces < MaxPieces
    /\ call' = [call EXCEPT !.text = Append(@, "main"), !.pieces = @ + 1]
    /\ buf' = Append(buf, "main")
    /\ UNCHANGED <<task, marker, shared, memory, run, messages, unbilled, stopped>> /\ Fine

\* get_tools_for_intent gives the model the tools of its intent, or none.
StreamTools ==
    /\ At("stream") /\ ~call.usage /\ ~call.blocked /\ call.tools = 0 /\ run.intent # "none"
    /\ \E n \in 1..MaxCalls : call' = [call EXCEPT !.tools = n]
    /\ UNCHANGED <<task, marker, buf, shared, memory, run, messages, unbilled, stopped>> /\ Fine

\* Fault: a blocked stream is left at once.
BlockAndLeave ==
    /\ At("stream") /\ ~call.usage /\ ~call.blocked
    /\ call' = [call EXCEPT !.text = Append(@, "safe"), !.blocked = TRUE]
    /\ buf' = Append(buf, "safe")
    /\ GoTo("bill")
    /\ UNCHANGED <<task, marker, shared, memory, messages, unbilled, stopped>> /\ Fine

\* The guard meets a sensitive word: the rest is read for the usage only.
BlockStream ==
    /\ At("stream") /\ ~call.usage /\ ~call.blocked
    /\ call' = [call EXCEPT !.text = Append(@, "safe"), !.blocked = TRUE]
    /\ buf' = Append(buf, "safe")
    /\ UNCHANGED <<task, marker, shared, memory, run, messages, unbilled, stopped>> /\ Fine

\* The last event. A cancellation is looked for here, unless the rest is only drained;
\* the text the guard still held comes after it.
StreamUsage ==
    /\ At("stream") /\ ~call.usage
    /\ \/ /\ marker /\ ~call.blocked /\ call' = [call EXCEPT !.usage = TRUE]
          /\ GoTo("cancelled") /\ UNCHANGED buf
       \/ /\ ~marker \/ call.blocked
          /\ \/ call' = [call EXCEPT !.usage = TRUE] /\ UNCHANGED buf
             \/ /\ ~call.blocked
                /\ \E p \in {"main", "safe"} :
                     /\ call' = [call EXCEPT !.usage = TRUE, !.text = Append(@, p), !.blocked = (p = "safe")]
                     /\ buf' = Append(buf, p)
          /\ GoTo("bill")
    /\ UNCHANGED <<task, marker, shared, memory, messages, unbilled, stopped>> /\ Fine

\* The model or Redis fails in the middle of a stream: what it gave is not billed.
StreamFails ==
    /\ At("stream") /\ Mishap /\ Unsettled(call) /\ GoTo("fallback")
    /\ UNCHANGED <<task, marker, buf, shared, memory, context, stopped>>

\* bill_token_usage with the usage that was seen, of a cancelled round as well.
BillRound ==
    /\ At("bill") \/ At("cancelled")
    /\ unbilled' = unbilled + (IF Gave(call) /\ ~call.usage THEN 1 ELSE 0)
    /\ IF At("cancelled") THEN StopRun(buf)
       ELSE /\ GoTo(IF call.tools > 0 /\ ~call.blocked THEN "tools" ELSE "finish")
            /\ UNCHANGED <<task, marker>>
    /\ UNCHANGED <<buf, shared, memory, context, stopped>> /\ Fine

-----------------------------------------------------------------------------
(* _handle_tool_step and the discussion of the results.                    *)

\* _run_discussion: where several experts are concerned and one of them has been asked,
\* each gives its opinion, or none if its answer is no JSON; the summary goes to the
\* model, an exception leaves it out.
Discussion == IF run.intent = "journey" THEN {<<>>, <<Says("talk")>>} ELSE {<<>>}
Opinions == [1..call.tools -> {"good", "garbled", "down"}]

\* Each call gets its message, failed or not.
ToolStep ==
    /\ At("tools")
    /\ \E talk \in Discussion :
         /\ messages' = messages \o <<[role |-> "asst", tools |-> call.tools]>>
                              \o [i \in 1..call.tools |-> Says("tool")] \o talk
         /\ \E n \in {UnbilledReplies(o) : o \in IF talk = <<>> THEN {<<>>} ELSE Opinions},
               m \in {UnbilledReplies(a) : a \in {<<>>} \cup (IF Civil THEN {} ELSE SubAgent)} :
              unbilled' = unbilled + n + m
    /\ call' = NoCall
    /\ run' = [run EXCEPT !.pc = "round", !.round = @ + 1]
    /\ UNCHANGED <<task, marker, buf, shared, memory, stopped>> /\ Fine

\* TOOL_TIMEOUT
ToolsTimeOut ==
    /\ At("tools") /\ GoTo("fallback") /\ call' = NoCall
    /\ UNCHANGED <<task, marker, buf, shared, memory, messages, unbilled, stopped>> /\ Fine

-----------------------------------------------------------------------------
(* _stream_fallback, _fallback_chain, _fallback_flash.                     *)

\* Fault: the fallback is added to what there is.
FallBackBeside ==
    /\ At("fallback")
    /\ IF Civil THEN buf' = Append(buf, "failure") /\ GoTo("last") ELSE buf' = buf /\ GoTo("flash")
    /\ call' = NoCall
    /\ UNCHANGED <<task, marker, shared, memory, messages, unbilled, stopped>> /\ Fine

\* reset_accumulated_result; the civil persona gets a fixed text.
FallBack ==
    /\ At("fallback")
    /\ IF Civil THEN buf' = <<"failure">> /\ GoTo("last") ELSE buf' = <<>> /\ GoTo("flash")
    /\ call' = NoCall
    /\ UNCHANGED <<task, marker, shared, memory, messages, unbilled, stopped>> /\ Fine

\* A piece of the flash model. When a cancellation is seen instead of it, the generator
\* is closed and bills an estimate of what the model gave.
FlashPiece ==
    /\ At("flash") /\ ~call.usage /\ call.pieces < MaxPieces
    /\ call' = [call EXCEPT !.text = Append(@, "flash"), !.pieces = @ + 1]
    /\ IF marker THEN StopRun(buf) /\ UNCHANGED buf
       ELSE buf' = Append(buf, "flash") /\ UNCHANGED <<task, marker, run>>
    /\ UNCHANGED <<shared, memory, messages, unbilled, stopped>> /\ Fine

\* The end of the stream: the usage is known, and the guard gives what it held. That
\* piece is not covered by the clause that bills an estimate; the usage is billed
\* after it.
FlashTail ==
    /\ At("flash") /\ call.text # <<>>
    /\ call' = [call EXCEPT !.usage = TRUE]
    /\ IF marker THEN StopRun(buf) /\ Unsettled(call') /\ UNCHANGED buf
       ELSE buf' = Append(buf, "flash") /\ GoTo("last") /\ UNCHANGED <<task, marker, unbilled>>
    /\ UNCHANGED <<shared, memory, messages, stopped>> /\ Fine

\* No key or an error: what was written stays, and without any there is a fixed text.
FlashFails ==
    /\ At("flash") /\ Mishap /\ Unsettled(call)
    /\ IF buf # <<>> THEN GoTo("last") /\ UNCHANGED <<task, marker, buf>>
       ELSE IF marker THEN StopRun(buf) /\ UNCHANGED buf
       ELSE buf' = <<"failure">> /\ GoTo("last") /\ UNCHANGED <<task, marker>>
    /\ UNCHANGED <<shared, memory, context, stopped>>

-----------------------------------------------------------------------------
(* _finish_text_answer and the end of the run.                             *)

\* Fault: the answer is kept before it is known whose the end of the task is.
FinishTextFirst(text, allowed) ==
    /\ UNCHANGED buf /\ Finish("completed", text)
    /\ memory' = text /\ Caches(text, allowed)

\* The last look of the filter may replace the whole answer.
FinishText(text, allowed) ==
    \E filtered \in BOOLEAN :
        LET final == IF filtered THEN <<"safe">> ELSE IF text = <<>> THEN <<"sorry">> ELSE text IN
        /\ buf' = IF filtered THEN Append(buf, "safe") ELSE buf
        /\ Finish("completed", final)
        /\ IF Live THEN memory' = final /\ Caches(final, allowed /\ ~filtered /\ text # <<>>)
           ELSE UNCHANGED <<memory, entry>>

\* What the model said in the round without tools.
FinishAnswer ==
    /\ At("finish") /\ FinishText(call.text, ~call.blocked) /\ GoTo("resolve")
    /\ UNCHANGED <<marker, lock, context, unbilled, stopped>> /\ Fine

\* _finish_task_max_steps: all that was written, which is not cached.
FinishMaxSteps ==
    /\ At("last") /\ FinishText(buf, FALSE) /\ GoTo("resolve")
    /\ UNCHANGED <<marker, lock, context, unbilled, stopped>> /\ Fine

\* _resolve_handled_outcome, whose return of the question TaskLifecycle has.
ResolveOutcome ==
    /\ At("resolve") /\ GoTo("release")
    /\ UNCHANGED <<task, marker, buf, shared, memory, context, unbilled, stopped>> /\ Fine

\* An exception outside the steps that catch their own, and _fail_task_sanitized.
RunRaises ==
    /\ run.pc \in {"start", "route", "prepare", "round", "tools", "fallback", "finish", "last", "resolve"}
    /\ Mishap /\ GoTo("fail")
    /\ UNCHANGED <<task, marker, buf, shared, memory, context, unbilled, stopped>>

FailRun ==
    /\ At("fail") /\ GoTo("release")
    /\ Finish("error", <<>>)
    /\ UNCHANGED <<marker, buf, shared, memory, context, unbilled, stopped>> /\ Fine

\* The instance shuts down.
ShutDownRun ==
    /\ run.pc \notin {"release", "done"} /\ Mishap
    /\ Finish("cancelled", buf) /\ marker' = FALSE /\ GoTo("release")
    /\ IF At("stream") \/ At("bill") \/ At("cancelled") THEN Unsettled(call) ELSE UNCHANGED unbilled
    /\ UNCHANGED <<buf, shared, memory, context, stopped>>

\* _release_task_resources: the renewal ends, and a lock that is still its own.
ReleaseRun ==
    /\ At("release")
    /\ marker' = FALSE
    /\ run' = [run EXCEPT !.pc = "done", !.renews = run.renews /\ ~run.token, !.token = FALSE]
    /\ \/ lock' = (IF run.token /\ lock = "self" THEN Nobody ELSE lock) /\ Fine
       \/ lock' = lock /\ Mishap
    /\ UNCHANGED <<task, buf, entry, memory, context, unbilled, stopped>>

-----------------------------------------------------------------------------
(* The others: who cancels, the clock, another run that wants the entry.   *)

\* cancel_agent_task, in its two steps, and the alarm or a reader of the task.
CancelRun ==
    /\ ~stopped /\ Live /\ marker' = TRUE /\ stopped' = TRUE
    /\ task' \in {task, [task EXCEPT !.status = "timeout"]}
    /\ UNCHANGED <<buf, shared, memory, run, context, unbilled>> /\ Fine

CancelEnds ==
    /\ stopped /\ Live /\ Finish("cancelled", buf)
    /\ UNCHANGED <<marker, buf, shared, memory, run, context, unbilled, stopped>> /\ Fine

OtherLocks ==
    /\ Cacheable /\ lock = Nobody /\ entry = <<>> /\ lock' = "other"
    /\ UNCHANGED <<task, marker, buf, entry, memory, run, context, unbilled, stopped>> /\ Fine

OtherEnds ==
    /\ lock = "other" /\ lock' = Nobody /\ entry' \in {entry, <<"other">>}
    /\ UNCHANGED <<task, marker, buf, memory, run, context, unbilled, stopped>> /\ Fine

\* 45 s without a renewal. _renew_until_done renews every 15 s, again after an error.
LockLapses ==
    /\ lock = "self" /\ lock' = Nobody
    /\ IF run.renews THEN Mishap ELSE Fine
    /\ UNCHANGED <<task, marker, buf, entry, memory, run, context, unbilled, stopped>>

Others == CancelRun \/ CancelEnds \/ OtherLocks \/ OtherEnds \/ LockLapses

RunNext ==
    \/ StartGeneration \/ TryCacheHit \/ MissCache \/ AcquireLock \/ WaitForEntry
    \/ RouteTask \/ SimpleTool \/ EmitSimple \/ SaveSimple \/ NoKey \/ SimpleFails
    \/ PrepareRun \/ BeginRound \/ StreamPiece \/ StreamTools \/ BlockStream \/ StreamUsage
    \/ StreamFails \/ BillRound \/ ToolStep \/ ToolsTimeOut
    \/ FallBack \/ FlashPiece \/ FlashTail \/ FlashFails
    \/ FinishAnswer \/ FinishMaxSteps \/ ResolveOutcome \/ RunRaises \/ FailRun \/ ShutDownRun
    \/ ReleaseRun
    \/ Others

RunSpec == RunInit /\ [][RunNext]_runVars

-----------------------------------------------------------------------------
(* Properties. *)

\* A run that is over leaves nothing of the rebuild lock behind, whichever way it
\* ended: nobody renews the lock, so that at worst it lapses.
LockIsLeft == At("done") => ~run.renews

Sources(text) == {text[i] : i \in DOMAIN text}

\* The fallback replaces what the model had begun to say, it is never read beside it;
\* nor is it in what is remembered.
FallbackStandsAlone ==
    \A text \in {buf, task.result, memory} : "flash" \in Sources(text) => "main" \notin Sources(text)

\* What the model is given is well formed in every round: behind an assistant message
\* with tool calls are the answers of its tools, all of them and none astray, however
\* the history was compressed.
ToolsFollowCalls ==
    At("stream") =>
        \A i \in DOMAIN messages :
            /\ i + messages[i].tools <= Len(messages)
            /\ \A j \in i + 1..i + messages[i].tools : messages[j].role = "tool"
            /\ messages[i].role = "tool" => \E j \in 1..i - 1 : i <= j + messages[j].tools

\* Every call of a model is billed, be its text blocked or its tools slow, unless
\* something failed or the task was stopped.
CallsAreBilled == At("done") /\ mishaps = 0 /\ ~stopped => unbilled = 0

\* What is remembered of a task is what it was completed with.
RememberedIsCompleted ==
    memory # <<>> /\ mishaps = 0 => task.status = "completed" /\ memory = task.result

\* A run ends whole, whichever way: the lock of the cache entry is let go, every call it
\* made is billed, a fallback stands alone in its text, and what is remembered of the
\* task is what it was completed with.
RunEndsWhole == LockIsLeft /\ CallsAreBilled /\ FallbackStandsAlone /\ RememberedIsCompleted

(* What the comments claim and the code does not do; see the findings. *)

\* semantic_cache.py: no fallback is cached, or whoever asks again gets only that.
FailuresAreNotCached == "failure" \notin Sources(entry)

\* civil_grounding.py: civil answers are only based on articles that were retrieved.
CivilIsGrounded == Civil /\ task.status = "completed" => "main" \notin Sources(task.result)

\* react_steps.py: what a cancelled fallback has used is billed as well.
StoppedIsBilled == At("done") /\ mishaps = 0 => unbilled = 0
=============================================================================
