# Formal model of the agent gateway

This directory holds TLA+ models of the gateway in `src/app` (a FastAPI service
with several instances behind one load balancer, sharing PostgreSQL and Redis)
and of two reusable parts beside it, the TLC configurations that check them, and
TLAPS proofs about nearly all of the protocols. The models were written from the code; each
definition that stands for code is listed with its lines in `PROJECT.json` under
`map`.

1. [The system](#the-system): its parts, their state and what is hard about them
2. [The modules](#the-modules): how each one corresponds to the code
3. [The runs](#the-runs): what each checks and shows, and the bounds
4. [Fairness](#fairness)
5. [What is proved](#what-is-proved), and what is only model-checked
6. [Where the code does not do what it says](#where-the-code-does-not-do-what-it-says)
7. [What the models show beside that](#what-the-models-show-beside-that)
8. [What is not modelled](#what-is-not-modelled)
9. [Plan](#plan)

Run `tlc -config MCRecharge.cfg MCRecharge` and `tlapm RechargeProofs.tla` in this
directory, and likewise the other configurations and the other modules named `...Proofs`
and `SetFacts`.

## The system

All instances run the same processes: request handlers, background tasks made
with `spawn`, and a few endless loops. They meet in PostgreSQL (row locks,
unique indexes, advisory locks), in Redis (locks with a time to live, counters,
caches, Lua scripts) and, for CDC, in a directory of the host. Nothing in a
process survives its end.

| component | state | operations | what is hard | what makes it correct |
| --- | --- | --- | --- | --- |
| recharge payment, attempt recovery (`payment/service.py`, `attempts.py`) | `payment_orders`, `payment_attempts`, wallet and ledger rows; Redis lock `order:{no}` | `process_recharge` in six separately committed steps; recovery loop every 300 s on every instance | the channel call lies outside every transaction; the lock may lapse; the recovery loop takes no lock; crashes and timeouts between any two steps; late answers | an order is credited once, only from a recorded charge; no charge drops out of the books; recorded charges settle in the end |
| recharge order creation (`payment/service.py`) | order row, idempotency key | `create_recharge_order` | the key is placed before the insert and named after it; an error in between deletes it | a key never names two orders |
| refunds (`payment/refund.py`, `attempts.py`) | refund orders, order status, reserved attempt amounts, idempotency key, Redis lock | `process_refund` with full or partial amounts; recovery | the quota is read, reserved and spent in three transactions with a slow call between; two callers share one attempt; the key is given back or kept on errors | never more than the order cost; a carried-out refund is never rejected; one settlement per key |
| charging of token usage (`payment/deduction.py`, `deferred.py`, `_ledger.py`) | wallet balance, ledger chain, placeholder orders, Redis wallet lock, missing-wallet counters | a task per answer, deferral when the wallet is busy, settlement and maintenance loops, voiding | row lock versus lapsing Redis lock; recharges ignore the Redis lock; two loops on one placeholder; voiding on another connection | no overdraft, an unbroken ledger, each charge taken once or not at all, no placeholder for ever |
| circuit breaker (`middleware/circuit_breaker.py`) | `_state`, `_fail_count`, `_last_fail_time`, `_probe_token` of one process | `call`, `guard`, success, failure, cancellation | answers of calls that began in an earlier state; probes that end by cancellation | one probe at a time; only a probe closes; recovery |
| change data capture (`cdc/*.py`) | `cdc_events`, journal files, checkpoint file, leader lock, cursor of each worker | trigger, poll, write and sync, checkpoint, clean-up, lock renewal | ids and commits in different orders; a stale leader goes on; process and host crashes at every step; file rotation within a batch | nothing is deleted that is not on disk; every commit is journaled |
| agent tasks (`services/agent_tasks.py`, `core/task_manager.py`) | task hash, result buffer, cancel marker, idempotency claim, slot counters, trial quota | create, run, cancel, lazy and scheduled timeout, resume | cancel, timeout and completion race from three instances; a claim outlives its 10 s; a crash keeps its slots | one terminal status, side effects only by the winner, quota given back once |
| agent runs (`agents/runner.py`, `task_stages.py`, `react_steps.py`, `router.py`, `simple_task.py`, `orchestrator.py`) | buffer, message list, rebuild lock, unbilled usage | cache hit, simple tool, rounds of tools, compression of the history, fallback chain | a run ends in a dozen ways with a lock, an unbilled call or half a text in hand | the lock is left, every call is billed, a fallback stands alone, tools follow their calls |
| civil code retrieval (`agents/tools.py`, `kb_*.py`) | candidate pools, the article index of the process | recall, rewriting, fusion, expansion, choice, reranking | the index is older than the base; readers have groups; expansions push candidates out | only what the reader may see and is valid; named articles are read |
| RAG change actions and sets (`services/rag_actions.py`, `rag_change_sets.py`, `rag_policy.py`, `rag_quality_gate.py`, handlers) | action rows, change sets, chunks, switched settings, leases, advisory lock | propose, approve, cancel, execute, gate, roll back by worker or by hand | two workers, a lapsed lease, a crash between a handler's commit and the row's; changes validated long before they are applied | nothing without approval; store, sets and actions tell one story; approved work ends |
| RAG monitor, incidents (`services/rag_monitor*.py`, `rag_incidents.py`, `rag_recommendations.py`, `routes/rag_admin.py`) | traces, verdicts, incidents, failure counts, automatic actions | cycles, set aside, resolve, clear, housekeeping, daily report | rule sets of two versions; rows that cannot be written; incidents ended between two verdicts | every verdict belongs to a live incident, no incident lives without evidence, the backlog drains |
| chat streaming (`services/chat_*.py`, `llm_streaming.py`, `core/semantic_cache.py`, `quota.py`, `middleware/rate_limit.py`) | slots, daily count, free questions, answer cache (two levels), rebuild lock | admission, cache look-up, fast paths, ReAct, fallback, finalize, cleanup | the client leaves at any await; usage arrives at the end of a stream; locks are renewed by tasks of their own | one answer, charged as it came; a free question back only if nothing was produced; a renewed lock is held |
| conversation memory (`core/memory_manager.py`, `agents/memory.py`, `core/db_maintenance.py`, `routes/conversation.py`) | Redis list, rolling summary, rows, archive, profile | append, trim and summarize in the background, backfill, archive, delete | a copy of the list is summarized while others append and trim; two maintenances | no turn is cut that is not summarized; rows are archived once |
| travel planning (`services/chat_travel_flow.py`, `conversation_profiles.py`, `core/place_extract.py`) | the waiting question, the profile of the conversation | extract, merge, ask, complete | two messages read and replace the question that waits | the tools get the plan this message stated |
| request traces (`services/rag_request_trace.py`, `answer_trace.py`) | context variables, background rows | begin, search, answer, finish | tools run as tasks with copies of the context; rows are written later or never | a row names the searches of its own request |
| stream guards (`core/safety_filter.py`, `services/reasoning_guard.py`) | pending text, carry | feed, flush | words cut by pieces, windows and characters of no width | nothing unsafe shown, nothing safe lost |
| authentication (`middleware/auth.py`, `routes/auth.py`, `oauth.py`) | password hash, blacklist, families, login counters, one-time codes | log in, refresh, log out, change password, GitHub | one token presented twice; logout during an exchange; upgrade of a hash during a change | last password stays, a token is exchanged once, logout is final |
| SMS codes (`routes/phone.py`, `sms_lua.py`, `services/sms_ip_quota.py`) | code, attempts, windows, day count | send, verify | a late failure deletes the code; the day is counted after the message | a delivered code works; guesses and messages are bounded |
| account binding (`routes/phone.py`, `file_upload.py`) | user name, files under two names, intent | bind, log in, recover | cut short around its commit; recovered by whoever comes next | the files are where the account is |
| rate windows (`middleware/rate_limit.py`, `agents/web_search.py`, `可复用代码/分布式限流器+lua.py`) | counters, log, bucket | check | the turn of a second, keys that expire | a bound on what any second admits |
| reusable breaker (`可复用代码/熔断器.py`) | state, probe flag, time | call | slow or cancelled trial calls | one probe, and the gate comes free |
| server process (`app/main.py`, `core/concurrency.py`) | pools, loops, spawned tasks | start, drain, close | tasks that spawn tasks while the process stops | pools go last |

How they interact. A chat answer or an agent task runs its model calls through
the circuit breaker and, when it ends, spawns the charge that the deduction
component takes. Recharges and refunds credit the wallet rows that charges debit,
under the row lock but without the wallet's Redis lock; `TopUp` of `Deduction` is
such a credit seen from the wallet. The triggers of CDC see the tables that all three
write. Chat and agent runs share the answer cache and its rebuild lock, the
conversation memory and the trace of the request; a search of an agent reads the
base that the RAG actions change, and its traces feed the monitor, which plans
actions. The server process opens the pools that everything uses and ends the
loops and spawned tasks of all of them.

Payments and CDC came first: they move money or must not lose it, and their
steps are spread over processes and transactions. Tasks, chat and RAG follow because
they hold what users see; the small protocols (codes, sessions, windows) because they
are easy to state and hard to test.

## The modules

Every module takes its sets of processes and its bounds as CONSTANTS with a named
assumption. A database transaction is one action where it holds the row lock from
its first read and two where the wait for the row lock matters (`Deduction`); a
Lua script is one action. Whatever lies between two of these awaits, and other
requests, crashes and lapsing keys may come in between. Errors of the database,
of Redis and the death of a process are actions of their own, possible at every
step at which the code can meet them. Definitions preceded by a comment "Fault:"
are not used by the specification; each is a plausible bug, put in the place of the
definition next to it to see that a property notices it (`mutants` in PROJECT.json).

### Money

**Recharge** is `process_recharge` and `settle_recoverable_attempts`. `order`,
`credits` and `att` are the database, `lock` is the Redis key, `charged` is what
the payment channel did (unknown to the gateway until it is recorded), `req` and
`rec` are requests and loops with their program counters. A request goes through
`AcquireLock`, `LoadOrder`, `BeginAttempt`, one of the three channel outcomes,
`RecordChannelResult`, `SettleRecharge`, `ReleaseLock`; `StepFails` and `Crash`
end it early. Everything that happens in the transaction of `_settle_recharge` is
in `Confirm`, `Credit`, `FailOrder` and `Rejects`, used by the request and by the
loop's `SettleRow` alike. The amount of an order is not represented: it never
changes, so the number of credits says all. **IdealRecharge** says what payment
promises: the channel collects payments, and an order is credited at most once, after
a payment was collected for it. `Recharge` implements it.

**OrderCreation** is `create_recharge_order`: a key is placed ("processing"), the order
is inserted, the key is overwritten by the order; each step may fail, and the error
path deletes the key. `answers` remembers what callers were told since a key was
placed.

**Refund** is `process_refund`: the idempotency key, the lock, the decision on a
snapshot, the reservation (`BeginAttempt` with `ClampedQuota`), the channel, the
second decision under the row lock, the stored result, and the except clause
(`HandleError`) that gives the key back unless the channel is known to have paid.
Amounts are small integers; 0 stands for "the rest", as None does in the code.

**Deduction** is `deduct_token_cost`, `defer_deduction`, `settle_pending_deductions`
and `_void_order`. Here a read FOR UPDATE and the commit are two actions, `row` is
the database's row lock, and `lock` is the Redis lock that may lapse at any time.
`opening` remembers the balance a wallet started with, and `ledger` is the chain
of `transaction_logs`. **IdealWallet** takes each charge at most once, as far as the
balance goes at that moment; `Deduction` implements it.

### Infrastructure

**CircuitBreaker** is the class of `middleware/circuit_breaker.py`. `token` remembers
for which call the probe token was made: tokens are unique objects in the code and
compared by identity, here by caller. `cool` is the comparison of `last_fail_time` with
the clock. `streak` is a history variable. **ProbeGate** is the reusable breaker, which
has no tokens: a call's outcome counts for whatever state it ends in, so it relies on
calls being shorter than the time a breaker stays open; that relation is its assumption.

**CdcPipeline** is the trigger, the worker's loop and the journal. A transaction
has a txid in the order of first writes, events get ids from a sequence, and commits
come in any order. `synced` and `cached` divide the lines of the journal into those
on disk and those only in the page cache, so that `HostCrash` loses the latter. A
worker's `leads` flag is what it believes; the Redis lock is what is true.

**RateWindows** puts four windows into one module: two weighted counters, a fixed window,
a sliding log and a bucket. A second is cut into `Ticks`; of a key it matters only how
long it lives, so time goes on for ever in a finite model. `recent` is a history variable: how
many were admitted in each of the last ticks.

**Lifespan** is `lifespan` of `main.py` with `spawn` and `drain_background_tasks`: pools
open, four loops run, tasks are spawned (also by tasks), the loops stop one by one, the
drain takes a snapshot and waits, then pools close.

### Agents and retrieval

**TaskLifecycle** is `create_agent_task` and the frame of `run_agent_task`, with
`cancel_agent_task` from outside. Its requests are equal, so that they meet at one
idempotency key; each goes on as the run of the task it made. `claim`, `status`,
`marker`, `produced` and `slots` are Redis, `used` is the trial column of the user.
All errors, crashes and shutdowns together are bounded by `MaxFaults`.

**AgentRun** is what happens inside a run: cache look-up and rebuild lock, the simple
path of both personas, rounds of streaming and tools, `compress_message_history`
(`Compressed`, by position as in the code; `Picked` of `Subsequences` is a list
comprehension with a condition, without recursion), experts, the fallback chain, billing, and the
release of the lock. A text is the sequence of the sources of its pieces, so a half
answer followed by a fallback can be told from either; a message is its role and the
number of tool answers it expects.

**Retrieval** is one `search_knowledge`. Legs are sequences of article numbers in any
order the recall may give; fusion, neighbours, chapter, pinning, the guard, the seats of
each leg, the band of the cross encoder and the final cut are the operators of the same
names. `valid` changes under it, `index` is what the process once read.

**RagStore** holds what actions work on: chunks, change sets with their snapshots,
switched settings, the quality gate. **RagActions** extends it with the action rows:
admission by `rag_policy`, approval, leases and the advisory lock, the handlers with
their own commits (`ApplyKnowledgeChange`, later `Finish`: a crash may fall in between), gate, automatic
and manual rollback. A worker's name stands for its lease token.

**RagMonitor** is a cycle as one action (one transaction under one lock) that folds the
diagnosis of each row of a batch over the database, with savepoints: `Persist`,
`DropStale`, `Plan`, `SetAside`. Administrators, housekeeping, restarts (the failure
counts are in memory) and processes of two rule set versions run beside it.

### Chat

**ChatStream** is a streamed request from admission to cleanup: slots, daily count, free
questions, cache in two levels, rebuild lock and its renewal, the fast paths, ReAct, the
chain of models, the sensitive word filter that stops a stream, finalization, and the
`finally` that may be cancelled itself. A client may leave at every await. An answer is
its kind (model, cut, notice, ...); `unpaid` collects text whose charge was missed.

**ChatMemory** is `MemoryManager` with the maintenance of rows: a message is named by the
turns it tells of and its role, a summary by the turns it covers. **TravelSlots** is the
question that waits, the profile, and the reading back of places, which is not the
identity: listed cities win over others. **RequestTrace** has a context variable per task,
copied at the start of a task, and rows written later or never.

**StreamGuards** runs texts of abstract characters through `ContentStreamGuard` and
`ReasoningStreamGuard` in all partitions into pieces; "z" has no width, "w" opens a safe
context, "s" and "n" end sentences and lines. The characters that count and the lines that
are kept are sets of positions (`Counted`, `Kept`), and the texts made of them are `Picked`.

### Accounts

**Sessions**, **SmsCode** and **Identity** share only the requests under way
(**Requests**), which are finitely many at any time; the value "1" that a logout writes into a
claim is the name of none of them. In `Sessions` a token is numbered and knows its parent and family; in
`SmsCode` a code is numbered as drawn and each script of `sms_lua.py` is an action; in
`Identity` a binding moves the files of an account from one name to the other around its
commit, and whoever binds or logs in next rules what is left (`Ruling`) by the intent.

### Composition

`MCLedger`, `MCServices`, `MCRag`, `MCChat` and `MCAgents` put components that do not
share state side by side: `part` says which one a behaviour is about, and the other
components keep their initial state. Nothing is lost by that: components that do share
state are composed in one module (`RagActions` over `RagStore`; recharges inside
`Deduction`; runs and their tasks in `TaskLifecycle`; fast paths, cache, limits and
billing in `ChatStream`).

## The runs

Passing runs explore the complete state space of their instance. A property that joins
several parts is a conjunction of named formulas, each with its own comment in the
module.

| run | parts and instance | properties |
| --- | --- | --- |
| `recharge` | 1 order, 2 requests, 1 recovery loop, 2 attempts, lapsing locks, slow requests | `CreditedOnce`: paid exactly when credited, once. `ChargeIsOnRecord`: no charge is recorded as refused. `DecisionsStand` = `PaidByRecordedCharge` ∧ `FinalStaysFinal`. `ImplementsIdeal`. `AttemptsConclude`: no attempt stays undecided |
| `ledger`, charging | 2 charges of 2, opening balance −1, 3 or no wallet, 2 settlement loops, 2 counted rounds, 1 recharge | `LedgerIsSound`: no overdraft, unbroken chain, each charge booked once or not. `ImplementsIdeal` (of IdealWallet). `DeferredIsDecided` |
| `ledger`, capture | 2 instances, 2 overlapping transactions, 2 events, batches of 2 | `JournalIsExact`: what cursors passed is on disk, nothing aborted is. `NoEventIsLost`: deleted only when journaled, and journaled in the end |
| `ledger`, breaker | 4 calls, threshold 3 | `BreakerIsSound`, `ProbesDecide` = `QuietWhileOpen` ∧ `ClosesByProbe`, `Recovers` |
| `rag`, actions | a pair of actions (an invalidation and an addition to one article; a switch of an account and a new RERANK_TOP; a probe and a proposal), 2 workers, 1 crash, 1 lapsed lease, failing gate, manual rollback, an incident that may end | `ApprovedBeforeApplied`, `StoreIsSound` (one valid text per article, store and sets agree, rollbacks are on record), `WorkDrains` |
| `rag`, monitor | 3 traces, one unwritable, 2 processes of 2 rule set versions, batches of 1, poison after 2, 1 restart | `IncidentsAreSound`, `NewVerdictIsVisible`, `BacklogDrains` |
| `services`, refunds | an order of 2, requests for 1, 2 or the rest, 2 keys, 2 requests, 1 loop, 2 attempts | `RefundBooks`: within the order, reservations fit, books agree with the channel, one settlement per key |
| `services`, orders | 3 creations under one key, failures at every step | `KeyNamesOneOrder` |
| `services`, windows | limit 4, 3 ticks a second (so that the part of the last second that counts is rounded), up to 4 requests a tick, without end | `AdmittedIsBounded` |
| `services`, breaker | 3 callers, threshold 2, calls of 2 ticks, recovery after 3 | `OneProbe` |
| `services`, process | 2 spawned tasks, one may spawn the other; test and production | `PoolsGoLast` |
| `chat`, stream | 1 request of every persona and kind with two models, or 2 that ask the same in a fast path; 1 fault, leaving clients, 2 slots | `OneAnswer`, `ChargesMatchText`, `RenewedLockHolds` |
| `chat`, memory | 2 turns and their list; the archive of 2 turns by 2 maintenances with 2 faults; a turn with its deletion beside another conversation | `HistoryIsKept` |
| `chat`, travel | 3 messages, 2 at a time, 3 places of which one is not listed | `PlannedAsSaid` |
| `chat`, trace | 1 request, 2 tasks it starts, a search each | `RowsTellRequest` |
| `agents`, tasks | 2 equal requests, 1 slot per user and 2 in all, 2 questions, 1 fault | `AdmissionHolds` (one creator while the claim's assumption holds, slots cover holders), `QuestionsAreFair`, `EndedStaysEnded` |
| `agents`, run | both personas, with the cache (1 fault) and without (2 faults), 3 rounds, 2 tools a round, 2 prompts, another holder of the lock | `RunEndsWhole`, `ToolsFollowCalls` |
| `agents`, search | 5 articles in 2 chapters and 3 groups; 4 scenes, one with a base that changes | `SearchIsSound` |
| `agents`, guard | every text of up to 5 (answer) or 6 (reasoning) characters, all partitions; a fingerprint that fits the overlap and one that does not | `GuardIsExact`: `ShownIsSafe` ∧ `PassedIsWhole` |
| `agents`, sessions | 2 requests under way, 4 in all, 2 passwords, a lock after 2 failures | `SessionsHold` |
| `agents`, codes | 2 phones of one address, 2 requests, 3 codes, limits of 2 an hour, 1 a day, 2 guesses | `CodesHold` |
| `agents`, identity | 2 requests, 2 files, crashes at every step | `FilesFollowAccount` |
| `recharge_precheck`, `recharge_expired`, `refund_key`, `cdc_rotate`, `task_memory`, `shutdown` | one property each | findings, see below |

Why these bounds are enough to meet the hard cases. Orders do not interact in
`Recharge` and `Refund`, so one is enough; of two attempts the first is put under review
or refused and the second is its retry. Two requests and a loop give every kind of pair
of actors (two loops differ from one only where both read a row as recoverable before
either settles it, a case the proof covers for any number of loops). An order of 2 is
the smallest with a partial refund. A charge of 2 on a balance of 3 is covered once and
then in part, −1 is a wallet in debt, and a top-up of 1 between the two makes it differ
from empty again. Four calls on a threshold of three open the breaker with a call left
that is still under way. Two transactions with two events commit in both orders, with
both events in one of them or one in each, within one batch or two. Two equal requests
suffice for a shared, a replaced and a lapsed claim; the second is refused by the
user's slot while it holds a global one. Two actions are one that is stuck half-way and
one that meets what it left; one crash and one lapsed lease bring a second worker to an
action the first has begun. Pairs of the same kind meet in the store or in a setting; the
others meet in the workers' lock alone. Three traces are one that
cannot be written, one whose verdict the newer rule set takes back, and one that joins an
incident both rule sets agree on. Three messages are a question, its reply and one that
crosses them. Texts of five characters hold a word of three with a character of no width
inside it and one on either side, and exceed the window of four; those of six hold a
fingerprint that is longer than the overlap and a character, with a line behind it. Two requests under way
are enough wherever what is contended is one key or row: a third could only repeat one of
them.

Clients retry without bound, loops go round without bound, keys lapse without bound.
What is bounded are identifiers (attempts, codes, tokens, traces), inputs, and faults
where they multiply the states (`MaxFaults`, `MaxCrashes`, `MaxLapses`, `MaxOutages`,
scenes); a model in which they run out can still do everything else. `CHECK_DEADLOCK
FALSE` stands where requests come once and a process ends.

Symmetry is used in `services`, `chat` and `agents` (requests, attempts and keys are not told
apart by any definition), never with liveness.

## Fairness

In runs of several parts the fairness is that of the part a behaviour is about:
`part = "capture" /\ CdcFairness` or the others; `MCRag` writes the same as fairness of the
actions of one part. Each is stated in the module of its component.

- `Recharge`: time passes (`AttemptAges`, `LockExpires`), the loop comes round, and a
  request under way ends because every statement of it has a timeout. Strong fairness
  of the SELECT and of a row's settlement says that restarts and database errors do
  not hit every single pass. No client is assumed to come back, no request is assumed
  to succeed: its steps may all be failures.
- `Deduction`, `CdcPipeline`: weak fairness of the steps of loops and tasks, of locks
  that lapse, of transactions that end. Failures may happen in any number and at any
  time, but not for ever: `<>[][~Failure]_vars`. Without that no system with crashes
  makes progress. A lock held by a worker that renews it need not lapse.
- `CircuitBreaker`: calls end, the cooling time passes, callers come back, and some
  probe succeeds; the last two are strong fairness: the dependency is not down whenever
  it is asked.
- `RagActions`: every worker goes on with its loop (weak fairness of `Work(w)`), and the
  lease of an action that a dead worker deserted lapses. A live worker's lease need not.
  Nobody is assumed to approve or cancel anything.
- `RagMonitor`: each process's cycle comes round (weak fairness). Administrators and
  housekeeping may do nothing.

Liveness is stated as "again and again" (`[]<>`), which says the same here as "in the
end" for work that does not come back, and more for work that does. `TaskLifecycle`,
`ChatStream`, `AgentRun` and the accounts have no liveness property: their requests end
by timeouts which the models take as possible at any time, and nothing makes a client
come back.

## What is proved

The proofs are in seven modules, `RechargeProofs`, `RefundProofs`, `LedgerProofs`,
`RagProofs`, `AgentsProofs`, `ChatProofs` and `ServicesProofs`, over the lemmas of `SetFacts`. They hold
for sets of any size and bounds of any value that the named assumptions of the modules
admit. Each follows one argument: an invariant stronger than the property is shown to
hold at first and to survive every action, and the property follows from it. The larger
of these invariants were checked by TLC on small instances before they were proved. Action
properties and refinements rest on lemmas about the shape of a step under the invariant.
Every safety property and action property of a passing run is proved, but for
`SearchIsSound`, which is only model-checked.
Below, for each component, what is proved and why the property alone is not inductive.

**Recharge** (`RechargeProofs`; from `ConstantsAssumption`: the null value is none of the
orders, actors and attempts). Proved: `TypeCorrect`, `CreditedExactlyOnce`,
`CreditsAreBacked`, `ChargesStayOnRecord`; the action properties `PaidOnlyByRecordedCharge`
and `FinalIsFinal`, with `DecisionsAlwaysStand`, their conjunction as the run checks it;
`RechargeImplementsIdeal`, the refinement. A settlement preserves `CreditedOnce` only if
the attempt it closes was charged, which follows from what the request knew when it chose
to settle. `Inductive` adds `AttemptInv` (the status of an attempt tells whether its charge
happened), `RequestInv` (what the program counter of a request says about the attempt in
its hand: before the call nothing has been charged, after the record the answer and the
row agree even if the loop moved the row meanwhile), `OwnAttempt` (no two requests are
calling the channel for the same attempt, because an active attempt is reused only after
its answer was recorded) and `BatchInv` (a row that a loop read as recoverable is still
recoverable or settled).

**Refund** (`RefundProofs`). Proved: `BooksAlwaysAgree` (all of `RefundBooks`), and from it
`TypeCorrect`, `NeverMoreThanPaid` and `OneRefundPerKey`. Beside the four parts named as
above, `Inductive` says that an order has one attempt in progress (`OneActive`, from the
unique index), that a key belongs to one request at a time (`KeyOwner`), and that the key
of an attempt the channel carried out is never given back, since whoever holds it knows
(`KeySpent`): this is where the except clause could go wrong. That refunds stay within the
order is a statement about sums over the settled attempts, carried through each step by the
lemmas of `SetFacts`.

**Deduction** (`LedgerProofs`). Proved: `LedgerAlwaysSound` with its parts `NeverOverdrawn`
and `NeverChargedTwice`; `DecisionsAreFinal`; and `ChargingImplementsIdeal`, the refinement
of `IdealWallet`. The invariant says what a task or loop knows (`TaskSound`, `LoopSound`):
the balance it has read is the balance as long as it holds the row lock, and the charge it
is about to take is undecided or deferred. Nothing is said of the Redis lock, so it may
lapse whenever it likes.

**CdcPipeline** (`LedgerProofs`). Proved without condition: `NothingUncommitted` (types, and
nothing of an aborted transaction is journaled). Under `~MayRotate`, `JournalAlwaysExact` and
`DeletedOnlyWhenJournaled`: with rotation the code breaks them, see `cdc_rotate`, so the
condition cannot be dropped; the run `ledger` has it too. A cursor is `Closed`: it stays
below every open transaction, and what was committed up to it is on disk. The rows in a
worker's hand are the first ones behind its cursor and stay so (`Prefix`), because no open
transaction can still put a row among them; a stale leader may thus write what another one
has written, never skip anything.

**CircuitBreaker** (`LedgerProofs`; the threshold is positive). Proved: `BreakerTypeCorrect`,
`ProbeIsUnique`, `CountStartsAfresh` (together `BreakerStaysSound`), `OnlyProbesPass` and
`OnlyProbesClose` (together `OnlyProbesDecide`). The invariant: the breaker is half open
exactly while one call holds the probe's token, and the count equals the failures since it
closed.

**RagActions and RagStore** (`RagProofs`). Proved: `AlwaysApproved` and `StoreAlwaysSound`.
`RowsSound` says that only what may be carried out is queued and that what was approved was
valid then; `WorkerSound` what a worker's place in an action says of row and lock: it alone is
past the advisory lock, and while it is there the action does not count as succeeded, though
its lease may have lapsed; `ManualSound` and `SetsApproved` do this for the rollback by hand
and the sets. Of the store, `StoreKnown` says that what was there at first is never deleted
and that a set not applied remembers nothing; `Matches` that each added chunk has one set that
owns it.

**TaskLifecycle** (`AgentsProofs`). Proved: `AlwaysAdmitted`, `QuestionsAlwaysFair` and the
action property `OutcomesAreFinal`. A slot counter does not equal the number of
holders: a request that finds no slot has already counted itself and is about to step back.
`SlotsKnown` counts both. `ClaimKnown` says that the claim tells of a creation under way as
long as none has outlived it; `JobKnown` what the step of a request says of its task and its
question. `used` is the number of questions reserved and not given back.

**AgentRun** (`AgentsProofs`; from `RunAssumption`: the limit of messages is positive, and a
prompt begins with the system's message and has no tools). Proved: `AlwaysEndsWhole` and
`AlwaysFollow`. The first speaks of the end of a run; the invariant `RunSound` says of each step on the way what the end needs. Texts are
either of the model or of a fallback, and up to the fallback nothing of one is in the buffer
(`TextsKnown`); without faults, every call that is over is billed, and one about to be billed
has told its usage (`BillsKnown`); what is remembered is the result of a task that completed,
and whoever looks into the cache has a task that is live, or was stopped and whose marker
says so (`MemoryKnown`); who renews the rebuild lock has its token (`RenewalKnown`).
For the second, `ToolsFollowCalls` is not inductive: it looks at the context only while a round
streams, and compression takes pieces of it. `Follow` says the same of any sequence of
messages, and the lemmas say what keeps it: two such sequences joined (`JoinedFollow`), what is
left from a message on that is no answer (`LastFollow`, why the cut is moved to the left), and
the context without its summaries (`RestFollows`: nothing is taken between a call and its
answers, and what follows keeps its distance). `MessagesKnown` adds that in the rounds there is
a first message, which asks for no tool, since compression sets it apart from the others.

**RagMonitor** (`RagProofs`; from `MonitorAssumption`: limits are positive). Proved:
`IncidentsAlwaysSound` and the action property `NewVerdictsAreSeen`. A cycle is a fold over a
batch, each row of it a fold over rules, with verdicts dropped and incidents ended on the way,
so the proof has an invariant for each level: `DbSound` is what the tables say even in the
middle of a cycle (the incidents of a rule are opened in order, hold the key of the rule
exactly while they are active, and have evidence unless age took it); `Midway` adds what
holds after the traces up to n: a rule that has used up its incidents has an active one with
a verdict on a trace already passed, traces not yet reached are as they were, and a verdict
that the cycle made is in an incident that is active still, so no later row of the cycle ended
it.
`MonitorSound` is the invariant between cycles.

**ChatStream** (`ChatProofs`; from `ChatAssumption`: each question has a chain of at least one
model, and `None` is no request). Proved: `AlwaysOneAnswer`, `AlwaysChargedRight` and
`AlwaysHoldsRenewed`. `RequestKnown` says which stages come before an answer and which after
(`Before`, `Answered`, `Cleaning`), where a request cannot have text of a model yet
(`Wordless`), and that a free question given back was of one that produced none; `ChatSound`
adds that the renewer of the rebuild lock has it and is between taking and releasing it
(`Holding`), and that no text is left unpaid. The number of requests, faults and models is
arbitrary.

**ChatMemory** (`ChatProofs`; the null value is no turn). Proved without condition:
`AlwaysRowsKept`, one row for each message, and what was committed is in a row or an archived
one until it is deleted. A maintenance deletes by date what it read before, so this needs that
it read all there is: no row of a turn that is a month old is still to come (`RowsKnown`), and
the two rows of a turn come together (`Paired`). Proved under `OneProcess` and, as a
hypothesis on the behaviour, `[]BatchesFit`: `AlwaysKeptWhole`, all of `HistoryIsKept`, which
adds that nothing is cut from the list which the summary does not tell of (`TellingKnown`: the
summary that a job read is still the one there is, and a job trims what it told). TLC refutes
`HistoryIsKept` with two processes, and with one and a `SummaryWindow` of 1, so neither
condition can be dropped; the run has both, by its constants.

**TravelSlots** (`ChatProofs`). Proved: `AlwaysPlannedAsSaid`. `MessageKnown` says at each step
that what a message is sure of is in its plan, or else that the message is going to ask and
will not reach the tools (`WillAsk`, `Fits`); of the shared slot nothing is known.

**RequestTrace** (`ChatProofs`; a request is not one of the tasks it starts). Proved:
`AlwaysTold`. A running task works for one request and sees its trace or none (`TaskTold`); up
to the end of the request every task of it sees the trace, which has what was made
(`OpenTold`); the due rows are prefixes of it, and the written ones too (`RowsTold`).

**StreamGuards** (`AgentsProofs`; from `GuardAssumption`: there is a word, a window has room for
more than the longest one, a fingerprint is on one line, and a strong one that does not fit the
overlap is also one of a line, as in the tables of the code). Proved: `GuardAlwaysExact`. No
recursion is left in the module, so texts are compared position by position. Of an answer,
`AnswerKnown` says that what is shown is how the text begins, and that every word which begins
in it is allowed where it is (`AllowedUpTo`), although its end may still be held back: what is
held back has room for the longest word (`EmittableIs`), so a word that begins in what a look
lets go also ends in what the look saw (`LookClears`). What is allowed in a part is allowed in
the whole (`ExemptGrows`, `ExemptInText`), and no word falls between two windows
(`AllScanned`). Of a reasoning, `ReasoningKnown` says that what is shown is whole lines without
a fingerprint, and what was read has no strong one that fits; `Keeps` says why the next look
sees it: what is kept begins at the last end of a line or before it, or is as long as the
overlap (`StrongIsSeen`). That the kept lines, put together, have no fingerprint that none of
them had is `LinesAre`.

**Accounts** (`ServicesProofs`). For `Sessions`, `SessionsAlwaysHold` and
`SessionsTypeCorrect`. The invariant: while a hash is of the old scheme, those who upgrade
it have checked the password it stands for (`PasswordKnown`); a token that is being exchanged
is claimed by that request or by a logout, by it alone, and nothing was issued for it
(`HolderKnown`); a token exchanged stays claimed (`TokenKnown`); those of a confirmed logout
are barred with their family (`LeftKnown`); and tokens, busy requests and the open ticket
together are at most the requests begun (`Budget`, which says that every request finds a
number for its token). For `SmsCode`, `CodesAlwaysHold`: the minute of a phone stands for the
one request that sends to it (`SenderKnown`); while the day has room only messages not yet booked
exceed its count, and whoever is still to send was let in while it had (`DayKnown`); wrong
guesses are at most the attempts until the phone is barred (`GuessesKnown`). For `Identity`, `FilesAlwaysFollow` and
`IdentityTypeCorrect`: unless a recovery overlapped a binding, files are moved only toward the
account's name (`MoverKnown`), an open transaction has its intent (`DoerKnown`), and a file
that is not at the account's name has an intent standing and no move that passed it
(`FileKnown`).

**Small ones** (`ServicesProofs`). `KeyAlwaysNamesOne` of `OrderCreation`: the key of a call
between placing and naming is marked, for that call alone, and was answered to nobody
(`KeyBelongs`, `KeyAnswers`). `AlwaysOneProbe` of `ProbeGate`: what the proof needs is its
assumption that calls are shorter than the recovery time. `PoolsAlwaysGoLast` of `Lifespan`.

**RateWindows** (`ServicesProofs`; at least two ticks a second, limits positive). Proved:
`AlwaysBounded`. Each window has its own invariant: of the two counters, their weights stay
below the limit and the counter of this second is what was admitted in it (`QpsKnown`); of the
fixed window, that it began with an admitted request, and that the one before it admitted less
than the limit since (`SearchKnown`); of the log, that it has every admission (`LogKnown`); of
the bucket, that what was admitted and has not leaked is missing in it, and that its key
outlives the filling (`BucketKnown`). The property has a rounded part because the proof needed
it: without it the bound fails where the limit does not divide into ticks, as TLC confirms for
a limit of 4 and 3 ticks.

**SetFacts** holds what these share: that `SumFunctionOnSet` is well defined over a finite set
and how a sum changes when one term does, that a set whose members are all equal has at most
one, and how sets that differ in one element compare in size. The theorems of the library that
take a predicate cannot be instantiated by the provers here; the induction is done in
first-order form, on the least counterexample (`WFMin` with `NatLessThanWellFounded`).
`Reaches` is that induction over an interval, for membership in a set; sums over the ticks of
a window and the folds of the monitor's cycle use it. `PickedIs` says what `Picked` of
`Subsequences` returns: as many elements as positions, each from its position, in their order.
`NthIs` and `PartIs` say the same of the positions: which one has a given place, and what
places those in an interval have.

### What is only model-checked

- The liveness properties of all modules: fairness and ENABLED are out of the provers' reach.
- `SearchIsSound` of `Retrieval`. It is about which elements a sequence has after it was
  filtered, merged and flattened (fusion, expansion and choice of the candidates). `SelectSeq`,
  `FlattenSeq` and folds over sequences are defined by recursion over the data; what they
  compute for every input is out of the provers' reach, and the property is about just that.

## Where the code does not do what it says

Each of these is a run that is expected to end in a violation.

- `recharge_precheck`. `process_recharge` checks the status of the order before it
  asks for an attempt; the recovery loop, which takes no lock, may settle the order
  in between. `begin_channel_attempt` does not look at the order again, so a paid
  order is charged a second time, and the second charge is closed as settled. The
  comment counts on the re-check inside the settlement, which comes after the
  channel call.
- `recharge_expired`. The settlement of a lapsed order updates it to `expired` and
  raises in the same transaction; the update is rolled back and no order is ever
  marked.
- `refund_key`. After a timeout the key is given back although the channel may have
  refunded; the retry under the same key can reach the channel again.
- `cdc_rotate`. A batch that crosses the size limit of a file syncs only the file
  that is open at the end, and the cursor advances over the whole batch.
- `task_memory`. `_try_cache_hit` ignores that `finish_task` lost against a
  cancellation or timeout, and saves the answer to the memory of the conversation.
- `shutdown`. `drain_background_tasks` waits for the tasks of one snapshot; a charge
  spawned by one of these is not waited for and meets a closed pool.

The modules define further formulas that say what a comment claims and that TLC refutes;
they have no run. Each stands under the properties of its module with the comment it
quotes:

| module | formula | what the code does |
| --- | --- | --- |
| ChatStream | `CachedStandsAlone` | the cut-off answer of a fast path, and an answer about a file, are cached (`chat_stream_ctx.py:242`: 残缺答案禁止入缓存) |
| ChatStream | `PaidOnce` | a call stopped by the filter near its end is charged from its usage and again from its drain (`chat_react.py:59`: 不会双计) |
| ChatStream | `FallbackIsRefunded` | the free question of some fallbacks is kept (`chat_stream_core.py:428`) |
| ChatStream | `RenewedSlotHolds` | the renewal of a slot may outlive its request (`rate_limit.py:116`: 杜绝槽位泄漏) |
| ChatStream | `KeptOnce` | a turn may be saved twice when finalization is repeated |
| ChatMemory | `RecentStay` | trimming may leave less than `HISTORY_LIMIT` (`memory_manager.py:246`) |
| ChatMemory | `DeletedStaysDeleted` | a summary or a retry under way writes the deleted conversation again (`conversation.py:147`) |
| ChatMemory | `ProfileIsKept` | the profile may be deleted although a turn of another conversation was saved meanwhile (`conversation.py:104`) |
| TravelSlots | `PlannedAsConfirmed` | an unlisted city that was confirmed gives way to a listed one (`chat_travel_flow.py:46`) |
| StreamGuards | `StrongStops` | the longest strong fingerprint, "output language requirement", has 27 characters, and 24 are kept of the text before a piece; in small pieces it is dropped with its line, and what comes behind it is shown (`reasoning_guard.py:120`: 强指纹命中即整流抑制); TLC refutes it under `MCAgents.cfg` |
| AgentRun | `FailuresAreNotCached` | the apology of a failed tool is cached (`semantic_cache.py:195`) |
| AgentRun | `CivilIsGrounded` | a civil question may drop into the rounds without retrieval (`civil_grounding.py:1`) |
| AgentRun | `StoppedIsBilled` | a fallback stopped by a cancellation is not billed (`react_steps.py:323`) |
| Retrieval | `GuardedAreRead` | guarded articles lose their place to expansions (`kb_expand.py:50`) |
| Retrieval | `RewrittenIsRead` | the legs of a rewritten question get no seat (`kb_rerank.py:144`) |
| RateWindows | `SearchesAreTen` | a fixed window admits up to twice its limit around its turn (`web_search.py:33`) |
| Identity | `RuledByFinalName` | a recovery that overlaps an open binding moves files to the name that dies (`phone.py:426`) |

## What the models show beside that

Behaviour that no comment denies, met while modelling; a reader of the code may want to
look at it.

- *Payments.* A charge of unknown outcome goes to `manual_review`, which does not block a
  new attempt, so that a customer may be charged twice and a human must look; the same
  holds for refunds. A request whose order was paid by the loop meanwhile is told it was
  rejected. If the reply of an order's INSERT is lost, the key is deleted and a retry makes
  a second pending order; if naming the key fails, it says "processing" until it lapses. A
  placeholder of a new user may be voided while the wallet is being created.
- *CDC.* A checkpoint may go back when two instances replace it at the same time; events
  are then journaled again and consumers drop duplicates.
- *Tasks.* A creation that takes longer than its claim runs next to another one, and its
  error path deletes the claim of the other (`OneCreator` holds while `sole` does). A dead
  process keeps its slots, and every new task renews the day after which they would lapse.
- *Runs.* A cache hit whose save fails after `finish_task` goes on generating and billing
  for a completed task. Tokens of the main model are not billed when the stream fails in
  the middle. An expert whose tool failed once stays "failed" though a second call
  succeeded. With many tool calls the user's question may be compressed away.
- *Retrieval.* The index of articles is read once per process and misses replaced chunks.
  Several pinned articles may exceed the seats of a narrow window.
- *RAG.* A crash after a change set was applied, followed by a retry whose baseline report
  fails, leaves the action "rolled_back" and the set applied. A manual rollback commits
  before the row of the action; cut short, the action stays "succeeded" and retrying it
  raises. Rolling back an invalidation restores a text beside a newer valid one of the same
  article. A retried switch loses the snapshot of the first attempt. The gate and the manual
  rollback do not take the handlers' lock. An action whose incident was resolved while its
  worker died stays "executing".
- *Chat.* `partial_answer` is not set while a stream runs, so a disconnect saves nothing of
  it. A client that leaves before the generator starts loses the reserved free question. The
  daily count is read at admission and raised at the end. A holder of the rebuild lock that
  stalls for 45 s lets a second one in.
- *Memory.* Two processes overwrite each other's summary and trim all the same, and a
  summary window smaller than the batch loses what it did not read (`CutIsSummarized` fails
  for both; the run has one process and a window that fits). A failing Redis skips the save
  to PostgreSQL too.
- *Travel.* The unconditional delete at the end of a plan may remove a newer question. A
  message that asks again may restore a question already answered. "From X" alone takes X
  as the destination as well.
- *Accounts.* A session outlives a change of password. Upload under the old name after the
  clean-up of a binding is lost; if both names exist, requests get 503 until the intent
  lapses. The reply of a claim's SET lost in Redis burns the token. The lock after failed
  logins is read before several authentications at once.
- *Windows.* The sliding log counts refused requests, so a client that keeps asking is not
  admitted. The bucket of the reusable limiter and the reusable idempotency key have
  small gaps where a key expires between two commands.
- *Breaker.* `ProbeGate` needs calls shorter than the recovery time; the defaults of the
  class are equal (30 s both), and a call that ends late then stands beside the probe.
- *Process.* The CDC worker's signal handlers replace those of the server, so a signal ends
  the worker only. A loop that died makes the stopping of the others raise, and the rest of
  the shutdown is skipped; a cancellation of the maintenance loop may be replaced by an error
  of its clean-up, and the wait for it does not end. `get_redis` reopens a pool after the
  shutdown closed it.
- *Traces.* Usage billed after `finish_request` is missing from the root row; a tool that
  starts after the end is traced nowhere.

## What is not modelled

- HTTP, formatting, metrics, logging, exports (`core/metrics.py`, `otel.py`, `audit.py`,
  `error_aggregator.py`): nothing else reads what they write.
- The channels themselves: an attempt is charged, refused, or unanswered. Real amounts and
  the rounding of prices: amounts are small integers. Partitions of PostgreSQL: a committed
  transaction stays committed.
- `data_ask` and its SQL guard, the document parser, tables of words and articles, the
  lexicons: functions of one text, without state or protocol. Where their outcome decides
  something (which article is named, which intent a question has, what a rule of the
  monitor finds) it is an input of a model.
- Maps, weather and the web search beyond its window: calls to services and the shaping of
  their answers.
- Access tokens (nothing is stored for them) and the cached user row; the daily counters
  that move with a binding; days, people and budgets of a travel plan.
- The parts of CDC that serve events to clients; dropping of old partitions, which is
  guarded as the clean-up is.
- Warm-up of the cache, personas, configuration, the admin account.
- The frontend; `src/showcase`, an older copy of modelled code; the tool servers (MCP) and
  command line programs among the reusable packages; tests, deployment, migrations and
  repair scripts. Database constraints that the migrations create (one active attempt per
  order, unique order numbers, unique active incidents) are part of the models as guards.

No hazard is covered for the slots of a dead process: that they are not given back is what
the code does, bounded by a time to live that new tasks renew.

## Plan

Done: payments (`Recharge`, `OrderCreation`, `Refund`, `Deduction` with two abstract
specifications), infrastructure (`CircuitBreaker`, `ProbeGate`, `CdcPipeline`,
`RateWindows`, `Lifespan`), agents and RAG (`TaskLifecycle`, `AgentRun`, `Retrieval`,
`RagStore`, `RagActions`, `RagMonitor`), chat (`ChatStream`, `ChatMemory`, `TravelSlots`,
`RequestTrace`, `StreamGuards`), accounts (`Sessions`, `SmsCode`, `Identity`).

Proved: every safety and action property of the passing runs, and both refinements, but for
`SearchIsSound`.

Left, in this order:

1. The part of `SearchIsSound` that does not depend on order (only valid articles of the
   reader's groups), with pools as sets of articles beside their sequence, or with `Picked` for
   the filters as in `AgentRun`.
2. Liveness stays with TLC. The slots of a dead process have no property, since their return
   after a day without new tasks is not promised by the code.
