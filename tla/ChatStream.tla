----------------------------- MODULE ChatStream -----------------------------
(***************************************************************************)
(* Streamed chat, services/chat_stream_core with chat_stream_ctx, the fast *)
(* paths, ReAct and the fallback chain: requests of one user that ask the  *)
(* same question, so that they share cache entry, rebuild lock, slots and  *)
(* free questions.                                                         *)
(*                                                                         *)
(* A request is a generator that runs until it waits.  The client may      *)
(* leave at any such point: the generator is then closed or cancelled, and *)
(* its cleanup may be cancelled again wherever it waits.  The text of an   *)
(* answer is left out but for its kind: whole, cut off, blocked, ...       *)
(***************************************************************************)
EXTENDS Naturals, FiniteSets

CONSTANTS
    Requests,
    Questions,      \* what the requests ask, together: of each its persona, kind, the routes its
                    \* intent may take and the length of model_try_list
    SlotLimit,      \* _ROLE_LIMITS: requests of the user under way
    DailyLimit,     \* requests of a day
    TrialQuestions, \* free questions left
    MaxSteps,       \* MAX_STEPS of ReAct
    MaxFaults,      \* bound: failures of Redis, the database or the configuration
    None

ASSUME ChatAssumption ==
    /\ None \notin Requests /\ MaxFaults \in Nat
    /\ Questions \subseteq [Requests ->
           [civil : BOOLEAN, ask : {"none", "plain", "file", "later"},
            ways : SUBSET {"simple", "recommend", "react"}, models : Nat \ {0}]]

VARIABLES
    st,         \* of each request: where it is, its context and its model call
    slots,      \* leases in concurrent:{user}
    renewing,   \* requests whose lease is renewed
    used,       \* daily_req of the user
    trial,      \* free questions left
    lock,       \* holder of the rebuild lock of the question
    rebuilding, \* requests whose rebuild lock is renewed
    hot,        \* entry of the question in the process, _hot_cache
    stored,     \* its row in semantic_cache
    writing,    \* entries on their way into the cache
    drains,     \* model calls left to _spawn_drain_bill
    unpaid,     \* history: requests with delivered text that nothing was charged for
    twice,      \* history: requests with a model call charged twice
    faults      \* bound: MaxFaults

limitVars == <<slots, renewing, used, trial>>
cacheVars == <<hot, stored, writing>>
lockVars  == <<lock, rebuilding>>
billVars  == <<drains, unpaid, twice>>
vars == <<st, limitVars, cacheVars, lockVars, billVars, faults>>

Entry == [kind : {"model", "cut", "blocked", "fixed", "notice"}, file : BOOLEAN]
Placeholder == [kind |-> "empty", file |-> FALSE]   \* __EMPTY__
NoCall == [text |-> FALSE, usage |-> FALSE]

TypeOK ==
    /\ \A r \in Requests :
        /\ st[r].out \in 0..2 /\ st[r].kept \in 0..2 /\ st[r].n \in Nat
        /\ st[r].taken \in {"no", "reserved", "returned"}
        /\ st[r].answer \in {None, "model", "cut", "blocked", "fixed", "notice", "cached"}
    /\ slots \subseteq Requests /\ renewing \subseteq Requests /\ rebuilding \subseteq Requests
    /\ used \in Nat /\ trial \in 0..TrialQuestions
    /\ lock \in Requests \cup {None}
    /\ hot \in Entry \cup {None, Placeholder} /\ stored \in Entry \cup {None} /\ writing \subseteq Entry
    /\ unpaid \subseteq Requests /\ twice \subseteq Requests /\ faults \in 0..MaxFaults

Init ==
    /\ \E q \in Questions :
         st = [r \in Requests |->
                [civil |-> q[r].civil, ask |-> q[r].ask, ways |-> q[r].ways, models |-> q[r].models,
                 pc |-> IF q[r].ask = "none" THEN "over" ELSE "arrive", conn |-> TRUE,
                 lease |-> FALSE, token |-> FALSE, taken |-> "no",
                 mode |-> "simple", n |-> 0, call |-> NoCall,
                 answer |-> None, saved |-> FALSE, partial |-> FALSE,
                 out |-> 0, kept |-> 0, produced |-> FALSE]]
    /\ slots = {} /\ renewing = {} /\ used = 0 /\ trial = TrialQuestions
    /\ lock = None /\ rebuilding = {}
    /\ hot = None /\ stored = None /\ writing = {}
    /\ drains = {} /\ unpaid = {} /\ twice = {} /\ faults = 0

At(r, s) == st[r].pc = s
Set(r, new) == st' = [st EXCEPT ![r] = new]

\* The context goes with its request; only what it did remains.
Done(s) == [s EXCEPT !.pc = "over", !.lease = FALSE, !.token = FALSE, !.mode = "simple", !.n = 0,
                     !.answer = None, !.saved = FALSE, !.partial = FALSE, !.call = NoCall]

\* Something the request depends on works, or fails.
Works == UNCHANGED faults
Fails == faults < MaxFaults /\ faults' = faults + 1

\* A first question without a file: serve_from_cache and rebuild_lock_gate skip
\* all others.
Plain(r) == st[r].ask = "plain"
Fast(r) == st[r].mode \in {"simple", "recommend"}

-----------------------------------------------------------------------------
(* Admission: ensure_chat_allowed.                                         *)

Refused(r) == Set(r, Done(st[r]))

\* release_concurrent: when Redis fails, the lease is left to its end.
Released(r) == (Works /\ slots' = slots \ {r}) \/ (Fails /\ slots' = slots)

\* check_qps may refuse at any time; a failing Redis lets the request pass
\* without a lease.
CheckConcurrent(r) ==
    /\ At(r, "arrive")
    /\ \/ Cardinality(slots) < SlotLimit /\ slots' = slots \cup {r}
          /\ Set(r, [st[r] EXCEPT !.pc = "daily", !.lease = TRUE]) /\ Works
       \/ Set(r, [st[r] EXCEPT !.pc = "daily"]) /\ UNCHANGED slots /\ Fails
       \/ Refused(r) /\ UNCHANGED slots /\ Works
    /\ UNCHANGED <<renewing, used, trial, cacheVars, lockVars, billVars>>

\* get_daily_usage: only read here, a failing read counts as zero. The request
\* is counted when its answer is finalized.
CheckDaily(r) ==
    /\ At(r, "daily")
    /\ \/ Set(r, [st[r] EXCEPT !.pc = "trial"]) /\ UNCHANGED slots /\ (IF used < DailyLimit THEN Works ELSE Fails)
       \/ used >= DailyLimit /\ Refused(r) /\ Released(r)
    /\ UNCHANGED <<renewing, used, trial, cacheVars, lockVars, billVars>>

\* reserve_used_questions: refused when none is left, or when the database fails.
ReserveTrial(r) ==
    /\ At(r, "trial")
    /\ \/ trial > 0 /\ trial' = trial - 1 /\ Set(r, [st[r] EXCEPT !.pc = "start", !.taken = "reserved"])
          /\ UNCHANGED slots /\ Works
       \/ (trial = 0 \/ faults < MaxFaults) /\ Refused(r) /\ Released(r) /\ UNCHANGED trial
    /\ UNCHANGED <<renewing, used, cacheVars, lockVars, billVars>>

\* _refund_trial_if_unproduced: a failure is only logged.
Refunded(r) ==
    \/ Works /\ trial' = trial + 1 /\ Set(r, [st[r] EXCEPT !.pc = "close", !.taken = "returned"])
    \/ Fails /\ UNCHANGED trial /\ Set(r, [st[r] EXCEPT !.pc = "close"])

-----------------------------------------------------------------------------
(* What the stages do with an answer: it goes out with [DONE], is finalized *)
(* and the stream is cleaned up. Some stages note the delivery before they  *)
(* finalize, others after.                                                  *)

Deliver(r, kind, noted, next) ==
    Set(r, [st[r] EXCEPT !.pc = next, !.answer = kind, !.out = @ + 1, !.saved = noted,
            !.partial = (st[r].mode = "react" /\ kind # "notice"), !.call = NoCall])

Early(r, kind) == Deliver(r, kind, TRUE, "close")
Late(r, kind)  == Deliver(r, kind, FALSE, "close")

\* Fault: _fallback_events that lets the answer of the fallback chain count as none.
EndFlashTwice(r) ==
    /\ st[r].mode = "flash" /\ UNCHANGED <<unpaid, twice, cacheVars>>
    /\ Set(r, [st[r] EXCEPT !.pc = "refund", !.answer = "model", !.out = 1, !.saved = TRUE, !.call = NoCall])

\* _finish_busy, and the stages that end without a model in the same way.
FinishBusy(r) == Deliver(r, "fixed", TRUE, "refund")

Refund(r) == At(r, "refund") /\ Refunded(r)
             /\ UNCHANGED <<slots, renewing, used, cacheVars, lockVars, billVars>>

\* What finalize_answer is told to cache; an answer in a conversation never is,
\* and SemanticCache.set drops fallback and safety texts.
WritesCache(r) ==
    /\ st[r].ask # "later"
    /\ \/ st[r].answer = "notice"
       \/ st[r].answer = "model" /\ st[r].mode # "flash"
       \/ st[r].answer = "cut" /\ Fast(r)

\* finalize_answer up to save_messages; a failure ends it, and is only logged.
SaveAnswer(r) ==
    /\ At(r, "close")
    /\ \/ Set(r, [st[r] EXCEPT !.pc = "count", !.kept = @ + 1]) /\ Works
       \/ Set(r, [st[r] EXCEPT !.pc = "unlock", !.saved = TRUE]) /\ Fails
    /\ UNCHANGED <<limitVars, cacheVars, lockVars, billVars>>

\* The rest of finalize_answer.
CountAnswer(r) ==
    /\ At(r, "count") /\ Set(r, [st[r] EXCEPT !.pc = "unlock", !.saved = TRUE])
    /\ writing' = IF WritesCache(r)
                  THEN writing \cup {[kind |-> st[r].answer, file |-> st[r].ask = "file"]}
                  ELSE writing
    /\ (Works /\ used' = used + 1) \/ (Fails /\ used' = used)
    /\ UNCHANGED <<slots, renewing, trial, hot, stored, lockVars, billVars>>

\* SemanticCache.set: the process first, then the table, which may fail.
CacheWritten(e) ==
    /\ e \in writing /\ writing' = writing \ {e}
    /\ hot' = e
    /\ (Works /\ stored' = e) \/ (Fails /\ UNCHANGED stored)
    /\ UNCHANGED <<st, limitVars, lockVars, billVars>>

-----------------------------------------------------------------------------
(* The stages before a model is asked: _run_chat_pipeline.                 *)

\* build_stream_ctx, then the lease is renewed.
Prepare(r) ==
    /\ At(r, "start")
    /\ \/ Set(r, [st[r] EXCEPT !.pc = "civil"]) /\ Works
          /\ renewing' = IF st[r].lease THEN renewing \cup {r} ELSE renewing
       \/ Set(r, [st[r] EXCEPT !.pc = "unbuilt", !.out = 1]) /\ UNCHANGED renewing /\ Fails
    /\ UNCHANGED <<slots, used, trial, cacheVars, lockVars, billVars>>

\* _cleanup_generation without a context.
Unbuilt(r) ==
    /\ At(r, "unbuilt") /\ Released(r)
    /\ trial' = trial + 1 /\ Set(r, [Done(st[r]) EXCEPT !.taken = "returned"])
    /\ UNCHANGED <<renewing, used, cacheVars, lockVars, billVars>>

\* civil_route_gate: the routing table may turn the question down.
CivilGate(r) ==
    /\ At(r, "civil")
    /\ \/ st[r].civil /\ Late(r, "notice")
       \/ Set(r, [st[r] EXCEPT !.pc = "cache"])
    /\ UNCHANGED <<faults, limitVars, cacheVars, lockVars, billVars>>

\* SemanticCache.get: a row that is found is copied into the process.
Cached == IF hot # None THEN hot ELSE stored
CacheRead == hot' = Cached /\ UNCHANGED <<stored, writing>>
Hit == Cached \notin {None, Placeholder}

\* serve_from_cache: an error reads as a miss.
ServeFromCache(r) ==
    /\ At(r, "cache")
    /\ \/ ~Plain(r) /\ Set(r, [st[r] EXCEPT !.pc = "key"]) /\ UNCHANGED cacheVars /\ Works
       \/ Plain(r) /\ Set(r, [st[r] EXCEPT !.pc = "lock"]) /\ UNCHANGED cacheVars
          /\ IF Cached = None THEN Works ELSE Fails
       \/ Plain(r) /\ Hit /\ Early(r, "cached") /\ CacheRead /\ Works
       \/ Plain(r) /\ Cached = Placeholder /\ FinishBusy(r) /\ UNCHANGED cacheVars /\ Works
    /\ UNCHANGED <<limitVars, lockVars, billVars>>

\* acquire_rebuild_lock: a call that fails may have set the lock all the same.
AcquireLock(r) ==
    /\ At(r, "lock")
    /\ \/ lock = None /\ lock' = r /\ rebuilding' = rebuilding \cup {r}
          /\ Set(r, [st[r] EXCEPT !.pc = "key", !.token = TRUE]) /\ Works
       \/ lock # None /\ Set(r, [st[r] EXCEPT !.pc = "wait"]) /\ UNCHANGED lockVars /\ Works
       \/ Fails /\ lock' \in {lock, IF lock = None THEN r ELSE lock} /\ FinishBusy(r) /\ UNCHANGED rebuilding
    /\ UNCHANGED <<limitVars, cacheVars, billVars>>

\* rebuild_lock_gate after its pause: without the lock no model is asked.
Reread(r) ==
    /\ At(r, "wait")
    /\ \/ Hit /\ Early(r, "cached") /\ CacheRead /\ Works
       \/ FinishBusy(r) /\ UNCHANGED cacheVars /\ IF Hit THEN Fails ELSE Works
    /\ UNCHANGED <<limitVars, lockVars, billVars>>

\* get_deepseek_key
GetKey(r) ==
    /\ At(r, "key")
    /\ \/ Set(r, [st[r] EXCEPT !.pc = "route"]) /\ Works
       \/ FinishBusy(r) /\ Fails
    /\ UNCHANGED <<limitVars, cacheVars, lockVars, billVars>>

\* route_intent; travel_clarification_gate asks for what is missing and ends.
RouteIntent(r) ==
    /\ At(r, "route")
    /\ \/ st[r].civil /\ Set(r, [st[r] EXCEPT !.pc = "law"])
       \/ ~st[r].civil /\ "recommend" \in st[r].ways /\ Early(r, "fixed")
       \/ ~st[r].civil /\ \E w \in st[r].ways :
             Set(r, [st[r] EXCEPT !.pc = IF w = "react" THEN "loop" ELSE "tools", !.mode = w])
    /\ UNCHANGED <<faults, limitVars, cacheVars, lockVars, billVars>>

\* law_mapping_gate
LawMapping(r) ==
    /\ At(r, "law") /\ (Late(r, "notice") \/ Set(r, [st[r] EXCEPT !.pc = "tools"]))
    /\ UNCHANGED <<faults, limitVars, cacheVars, lockVars, billVars>>

\* Fault: the fallback goes on although an answer went out and was finalized.
UnexpectedLate(r) ==
    /\ st[r].pc \in {"key", "law", "loop", "close"} /\ Fails
    /\ \/ st[r].civil /\ FinishBusy(r)
       \/ ~st[r].civil /\ Set(r, [st[r] EXCEPT !.pc = "ask", !.mode = "flash", !.n = 0])
    /\ UNCHANGED <<limitVars, cacheVars, lockVars, billVars>>

\* An error nobody expected: _fallback_events.
Unexpected(r) ==
    /\ st[r].pc \in {"key", "law", "loop"} /\ Fails
    /\ \/ st[r].civil /\ FinishBusy(r)
       \/ ~st[r].civil /\ Set(r, [st[r] EXCEPT !.pc = "ask", !.mode = "flash", !.n = 0])
    /\ UNCHANGED <<limitVars, cacheVars, lockVars, billVars>>

\* The tool of simple_fast_path, the tools of recommend_fast_path: when they
\* cannot be asked the question goes to ReAct, or for the civil code ends, as it
\* does when nothing was found.
Tools(r) ==
    /\ At(r, "tools")
    /\ \/ Set(r, [st[r] EXCEPT !.pc = "ask", !.n = 0]) /\ Works
       \/ st[r].civil /\ Late(r, "fixed") /\ Works
       \/ ~st[r].civil /\ Set(r, [st[r] EXCEPT !.pc = "loop", !.mode = "react"]) /\ Fails
    /\ UNCHANGED <<limitVars, cacheVars, lockVars, billVars>>

\* react_loop: the question is saved first.
ReactStart(r) ==
    /\ At(r, "loop") /\ Set(r, [st[r] EXCEPT !.pc = "ask", !.n = 0])
    /\ UNCHANGED <<faults, limitVars, cacheVars, lockVars, billVars>>

-----------------------------------------------------------------------------
(* A model call: stream_llm_throttled under answer_via_models, _stream_react *)
(* or _flash_sse. Upstream the text comes before its usage, but the last     *)
(* text is held back and flushed after it.                                   *)

Charged(r, n) ==
    /\ unpaid' = IF n = 0 /\ st[r].call.text THEN unpaid \cup {r} ELSE unpaid
    /\ twice' = IF n > 1 THEN twice \cup {r} ELSE twice

\* What the call has been charged while it ran: answer_via_models charges the
\* usage as it comes.
ChargedSoFar(r) == IF Fast(r) /\ st[r].call.usage THEN 1 ELSE 0

\* _spawn_drain_bill
LeaveToDrain(r, n) == drains' = drains \cup {[of |-> r, text |-> st[r].call.text,
                                              usage |-> st[r].call.usage, paid |-> n]}

OpenCall(r) ==
    /\ At(r, "ask") /\ Set(r, [st[r] EXCEPT !.pc = "stream", !.call = NoCall])
    /\ UNCHANGED <<faults, limitVars, cacheVars, lockVars, billVars>>

Text(r) ==
    /\ At(r, "stream")
    /\ Set(r, [st[r] EXCEPT !.call.text = TRUE, !.produced = TRUE])
    /\ UNCHANGED <<faults, limitVars, cacheVars, lockVars, billVars>>

Usage(r) ==
    /\ At(r, "stream") /\ Set(r, [st[r] EXCEPT !.call.usage = TRUE])
    /\ UNCHANGED <<faults, limitVars, cacheVars, lockVars, billVars>>

\* The next of the models, or none is left: ensure_answer keeps the question away
\* from the models for a while; the civil code says so itself.
NextModel(r) ==
    \/ st[r].n + 1 < st[r].models /\ Set(r, [st[r] EXCEPT !.pc = "ask", !.n = @ + 1, !.call = NoCall])
       /\ UNCHANGED cacheVars
    \/ st[r].n + 1 >= st[r].models /\ Late(r, "fixed")
       /\ IF st[r].civil THEN UNCHANGED cacheVars ELSE hot' = Placeholder /\ UNCHANGED <<stored, writing>>

\* fallback_chain without a text of its own.
NoFallback(r) == Early(r, "fixed") /\ hot' = Placeholder /\ UNCHANGED <<stored, writing>>

\* A whole text: the last check may find a forbidden word, the civil code
\* replaces what the law it found does not support.
Whole(r) == \/ Late(r, "model") \/ Late(r, "blocked")
            \/ st[r].civil /\ Late(r, "fixed")

EndFast(r) ==
    /\ Fast(r) /\ Charged(r, 1)
    /\ IF st[r].call.text THEN Whole(r) /\ UNCHANGED cacheVars ELSE NextModel(r)

\* _react_step: an answer, or tools to run.
EndReact(r) ==
    /\ st[r].mode = "react" /\ Charged(r, 1) /\ UNCHANGED cacheVars
    /\ \/ Set(r, [st[r] EXCEPT !.pc = "react", !.call = NoCall])
       \/ st[r].call.text /\ Whole(r)
       \/ ~st[r].call.text /\ Late(r, "fixed")

EndFlash(r) ==
    /\ st[r].mode = "flash" /\ Charged(r, 1)
    /\ IF st[r].call.text THEN Early(r, "model") /\ UNCHANGED cacheVars ELSE NoFallback(r)

End(r) ==
    /\ At(r, "stream") /\ st[r].call.usage
    /\ (EndFast(r) \/ EndReact(r) \/ EndFlash(r))
    /\ UNCHANGED <<faults, limitVars, lockVars, drains>>

\* The upstream fails, before the call or in the middle; text already sent is kept
\* as the answer.
Fail(r) ==
    /\ st[r].pc \in {"ask", "stream"} /\ ~st[r].call.usage
    /\ \/ Fast(r) /\ st[r].call.text /\ UNCHANGED cacheVars
          /\ (Late(r, "cut") \/ (st[r].civil /\ Late(r, "fixed")))
       \/ Fast(r) /\ ~st[r].call.text /\ NextModel(r)
       \/ st[r].mode = "react" /\ ~st[r].call.text /\ UNCHANGED cacheVars
          /\ Set(r, [st[r] EXCEPT !.pc = "ask", !.mode = "flash", !.n = 0, !.call = NoCall])
       \/ ~Fast(r) /\ st[r].call.text /\ Early(r, "cut") /\ UNCHANGED cacheVars
       \/ st[r].mode = "flash" /\ ~st[r].call.text /\ NoFallback(r)
    /\ UNCHANGED <<faults, limitVars, lockVars, billVars>>

\* A forbidden word: the call is left to be drained, with what ReAct charges for
\* the step as it ends; _bill_intercepted charges for the fallback.
Block(r) ==
    /\ At(r, "stream") /\ st[r].call.text
    /\ \/ Fast(r) /\ LeaveToDrain(r, ChargedSoFar(r)) /\ Late(r, "blocked") /\ UNCHANGED <<unpaid, twice>>
       \/ st[r].mode = "react" /\ Late(r, "blocked") /\ UNCHANGED <<unpaid, twice>>
          /\ LeaveToDrain(r, IF st[r].call.usage THEN 1 ELSE 0)
       \/ st[r].mode = "flash" /\ Early(r, "blocked") /\ Charged(r, 1) /\ UNCHANGED drains
    /\ UNCHANGED <<faults, limitVars, cacheVars, lockVars>>

\* Fault: no usage, no charge; the text that was sent does not count.
DrainUsageOnly(d) ==
    /\ d \in drains /\ drains' = drains \ {d}
    /\ \E n \in {0, IF d.usage THEN 0 ELSE 1} :
         /\ unpaid' = IF d.text /\ d.paid + n = 0 THEN unpaid \cup {d.of} ELSE unpaid
         /\ twice' = IF d.paid + n > 1 THEN twice \cup {d.of} ELSE twice
    /\ UNCHANGED <<faults, st, limitVars, cacheVars, lockVars>>

\* The drained call is charged by its usage when the upstream can still be read,
\* by its text when not.
Drain(d) ==
    /\ d \in drains /\ drains' = drains \ {d}
    /\ \E n \in {IF d.text THEN 1 ELSE 0, IF d.text \/ ~d.usage THEN 1 ELSE 0} :
         /\ unpaid' = IF d.text /\ d.paid + n = 0 THEN unpaid \cup {d.of} ELSE unpaid
         /\ twice' = IF d.paid + n > 1 THEN twice \cup {d.of} ELSE twice
    /\ UNCHANGED <<faults, st, limitVars, cacheVars, lockVars>>

\* _execute_react_tools to the next step, or to the end of react_loop.
ReactTools(r) ==
    /\ At(r, "react")
    /\ \/ Late(r, "notice")
       \/ st[r].n + 1 < MaxSteps /\ Set(r, [st[r] EXCEPT !.pc = "ask", !.n = @ + 1])
       \/ st[r].n + 1 >= MaxSteps /\ Late(r, "fixed")
    /\ UNCHANGED <<faults, limitVars, cacheVars, lockVars, billVars>>

-----------------------------------------------------------------------------
(* The end of a stream: cleanup_stream, once the answer is finalized or the  *)
(* client has left.                                                          *)

\* Fault: the key is deleted whoever holds it.
FreesAnyLock(r) == (Works /\ lock' = None) \/ (Fails /\ UNCHANGED lock)

\* release_rebuild_lock deletes the lock of its owner only.
FreesLock(r) ==
    \/ Works /\ lock' = IF lock = r THEN None ELSE lock
    \/ Fails /\ UNCHANGED lock

Unlock(r) ==
    /\ At(r, "unlock") /\ Set(r, [st[r] EXCEPT !.pc = "release"])
    /\ rebuilding' = rebuilding \ {r}
    /\ IF st[r].token THEN FreesLock(r) ELSE UNCHANGED lock /\ Works
    /\ UNCHANGED <<limitVars, cacheVars, billVars>>

Release(r) ==
    /\ At(r, "release") /\ Set(r, [st[r] EXCEPT !.pc = "keep"])
    /\ renewing' = renewing \ {r} /\ Released(r)
    /\ UNCHANGED <<used, trial, cacheVars, lockVars, billVars>>

\* What ReAct had as its answer when the client left before it was noted.
KeepPartial(r) ==
    /\ At(r, "keep")
    /\ Set(r, [Done(st[r]) EXCEPT !.kept = IF st[r].partial /\ ~st[r].saved THEN @ + 1 ELSE @])
    /\ UNCHANGED <<faults, limitVars, cacheVars, lockVars, billVars>>

\* The cleanup is cancelled where it waits: only what it did before is done.
Cut(r) ==
    /\ ~st[r].conn /\ UNCHANGED <<lock, slots, used, trial, cacheVars, billVars, faults>>
    /\ \/ At(r, "unlock") /\ st[r].token /\ rebuilding' = rebuilding \ {r} /\ UNCHANGED renewing
       \/ At(r, "release") /\ renewing' = renewing \ {r} /\ UNCHANGED rebuilding
       \/ st[r].pc \in {"keep", "unbuilt"} /\ UNCHANGED <<renewing, rebuilding>>
    /\ Refused(r)

\* The client leaves while a model answers: the call is charged all the same, the
\* fallback by the text it has sent.
LeaveStream(r) ==
    /\ At(r, "stream") /\ Set(r, [st[r] EXCEPT !.pc = "unlock", !.conn = FALSE, !.call = NoCall])
    /\ IF st[r].mode = "flash" THEN Charged(r, 1) /\ UNCHANGED drains
                               ELSE LeaveToDrain(r, ChargedSoFar(r)) /\ UNCHANGED <<unpaid, twice>>

Stages == {"civil", "cache", "lock", "wait", "key", "route", "law", "tools", "loop", "ask",
           "react", "refund", "close", "count"}
Cleaning == {"unlock", "release", "keep", "unbuilt"}

\* The client leaves: at "start" the generator may never have run.
Leave(r) ==
    /\ st[r].conn /\ UNCHANGED <<faults, limitVars, cacheVars, lockVars>>
    /\ \/ LeaveStream(r)
       \/ At(r, "start") /\ UNCHANGED billVars
          /\ \E then \in {Done(st[r]), [st[r] EXCEPT !.pc = "unbuilt"]} : Set(r, [then EXCEPT !.conn = FALSE])
       \/ st[r].pc \in Stages /\ Set(r, [st[r] EXCEPT !.pc = "unlock", !.conn = FALSE]) /\ UNCHANGED billVars
       \/ st[r].pc \in Cleaning /\ Set(r, [st[r] EXCEPT !.conn = FALSE]) /\ UNCHANGED billVars

-----------------------------------------------------------------------------
(* Time: what is not renewed ends, and a renewal may fail.                   *)

SlotLapses(r) ==
    /\ r \in slots \ renewing /\ st[r].pc \notin {"daily", "trial", "start"} /\ slots' = slots \ {r}
    /\ UNCHANGED <<faults, st, renewing, used, trial, cacheVars, lockVars, billVars>>

LockLapses ==
    /\ lock # None /\ lock \notin rebuilding /\ lock' = None
    /\ UNCHANGED <<faults, st, rebuilding, limitVars, cacheVars, billVars>>

\* _renew_lease_loop and _renew_rebuild_loop give up when Redis fails.
RenewalFails(r) ==
    /\ Fails
    /\ \/ r \in renewing /\ renewing' = renewing \ {r} /\ UNCHANGED rebuilding
       \/ r \in rebuilding /\ rebuilding' = rebuilding \ {r} /\ UNCHANGED renewing
    /\ UNCHANGED <<st, lock, slots, used, trial, cacheVars, billVars>>

\* _LRUCache: entries of the process have their time.
HotLapses ==
    /\ hot # None /\ hot' = None
    /\ UNCHANGED <<faults, st, stored, writing, limitVars, lockVars, billVars>>

Admit(r) == CheckConcurrent(r) \/ CheckDaily(r) \/ ReserveTrial(r)

Stage(r) ==
    \/ Prepare(r) \/ CivilGate(r) \/ ServeFromCache(r) \/ AcquireLock(r) \/ Reread(r)
    \/ GetKey(r) \/ RouteIntent(r) \/ LawMapping(r) \/ Tools(r) \/ ReactStart(r)
    \/ OpenCall(r) \/ End(r) \/ ReactTools(r)

Finish(r) ==
    \/ Refund(r) \/ SaveAnswer(r) \/ CountAnswer(r)
    \/ Unbuilt(r) \/ Unlock(r) \/ Release(r) \/ KeepPartial(r)

Background == LockLapses \/ (\E d \in drains : Drain(d)) \/ (\E e \in writing : CacheWritten(e))

Next ==
    \/ \E r \in Requests :
        \/ Admit(r) \/ Stage(r) \/ Finish(r)
        \/ Text(r) \/ Usage(r) \/ Fail(r) \/ Block(r) \/ Unexpected(r)
        \/ Cut(r) \/ Leave(r) \/ SlotLapses(r) \/ RenewalFails(r)
    \/ Background \/ HotLapses

Spec == Init /\ [][Next]_vars

-----------------------------------------------------------------------------
(* Properties.                                                             *)

Admitted(r) == st[r].taken # "no"

\* A client that stays gets one answer with one [DONE], whatever fails on the way:
\* the comments of finalize_answer and _fallback_and_finalize fear a second answer
\* after the first.
OneAnswer ==
    \A r \in Requests :
        /\ st[r].out <= 1
        /\ Admitted(r) /\ st[r].conn /\ At(r, "over") => st[r].out = 1

\* Text that reached a client is charged for, also when the client leaves or the
\* filter stops the call (_spawn_drain_bill), unless the upstream failed.
TextIsPaid == unpaid = {}

\* A free question comes back only when no model has answered.
RefundOnlyUnproduced ==
    \A r \in Requests : st[r].taken = "returned" => ~st[r].produced

\* What a question costs is what it brought.
ChargesMatchText == TextIsPaid /\ RefundOnlyUnproduced

\* While the rebuild lock of a question is renewed its holder is at work and has
\* it, so that no other asks a model the same: no release and no lapse takes it
\* away, and however the stream ends the lock is left to lapse.
RenewedLockHolds == \A r \in rebuilding : lock = r /\ ~At(r, "over")

\* The same of slots: "no leak of slots" (_CONCURRENT_LUA, rate_limit.py).
RenewedSlotHolds == \A r \in renewing : ~At(r, "over")

\* "Answers that are cut off are forbidden in the cache" (finalize_answer), and an
\* answer about a file is none to the question alone.
CachedStandsAlone == \A e \in {hot, stored} \ {None, Placeholder} : e.kind # "cut" /\ ~e.file

\* A model call is charged once: "the usage of a call that ends has been consumed,
\* it is not charged twice" (_drain_bill_blocked).
PaidOnce == twice = {}

\* A fallback without a word from the model gives the free question back
\* (_fallback_events).
FallbackIsRefunded ==
    \A r \in Requests :
        At(r, "close") /\ st[r].mode = "flash" /\ ~st[r].produced => st[r].taken = "returned"

\* An answer is kept once, not again as one that was cut off.
KeptOnce == \A r \in Requests : st[r].kept <= 1
=============================================================================
