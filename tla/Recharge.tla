------------------------------ MODULE Recharge ------------------------------
(***************************************************************************)
(* Paying a recharge order: app/payment/service.py (process_recharge and   *)
(* what it calls), app/payment/attempts.py (the persisted channel attempt  *)
(* and the recovery loop) and the Redis order lock of app/payment/_ledger. *)
(*                                                                         *)
(* A request is a worker that runs the steps of process_recharge, each one *)
(* committed before the next begins: a database transaction of the code is *)
(* one action (it holds the order row FOR UPDATE), and everything between  *)
(* two transactions, the channel call first of all, may interleave with    *)
(* other requests, with the recovery loops of the other instances, with    *)
(* the expiry of the lock and with crashes.                                *)
(***************************************************************************)
EXTENDS Naturals, FiniteSets

CONSTANTS
    Orders,        \* recharge orders, created and pending
    Workers,       \* requests that may run at the same time
    Recoverers,    \* settlement loops (one per gateway instance)
    Attempts,      \* identifiers of attempts; a bound on how many are made
    Nobody,        \* no worker, no attempt, no order
    LockMayLapse,  \* TRUE: the 30 s lock may expire (or Redis lose it) under a live request
    SlowRequests   \* TRUE: a live request may outlast the 300 s staleness limit

ASSUME ConstantsAssumption ==
    /\ Nobody \notin Orders \cup Workers \cup Attempts
    /\ LockMayLapse \in BOOLEAN
    /\ SlowRequests \in BOOLEAN

VARIABLES
    order,     \* status column of each payment_orders row
    lapsed,    \* has the order's expire_at passed
    credits,   \* how many times the wallet was credited for the order (one ledger row each)
    att,       \* the payment_attempts rows
    charged,   \* attempts whose charge the payment channel has carried out
    lock,      \* holder of the Redis key order:{order_no}
    req,       \* the running requests
    rec        \* the recovery loops

vars == <<order, lapsed, credits, att, charged, lock, req, rec>>
db == <<order, credits, att>>

-----------------------------------------------------------------------------
(* The statuses the code tests for. *)

\* Statuses of attempts that block a second attempt for the same order.
ActiveStatuses == {"processing", "channel_succeeded"}

\* Attempts a settlement may close.
\* Fault: an attempt whose result has been recorded is not closed.
SettleOnlyProcessing == {"processing"}
SettleableStatuses == {"processing", "channel_succeeded"}

\* Order statuses a settlement may start from, given the channel's answer.
\* Fault: a paid order may be paid again.
PayableWhenPaid(ok) == {"pending", "failed", "success"}
PayableStatuses(ok) == {"pending", "failed"} \cup (IF ok THEN {"expired"} ELSE {})

OrderStatuses == {"pending", "failed", "success", "expired"}
AttemptStatuses == {"free", "processing", "channel_succeeded", "channel_failed",
                    "settled", "manual_review"}
Steps == {"idle", "load", "begin", "call", "record", "settle", "release"}
Replies == {"none", "success", "failed", "error", "rejected"}

AttemptRows == [status : AttemptStatuses, order : Orders \cup {Nobody}, old : BOOLEAN]
Requests == [pc : Steps, order : Orders \cup {Nobody}, att : Attempts \cup {Nobody},
             ok : BOOLEAN, reply : Replies]
Loops == [pc : {"idle", "select", "settle"}, batch : SUBSET Attempts]

FreeAttempt == [status |-> "free", order |-> Nobody, old |-> FALSE]
IdleRequest == [pc |-> "idle", order |-> Nobody, att |-> Nobody, ok |-> FALSE,
                reply |-> "none"]
IdleLoop == [pc |-> "idle", batch |-> {}]

ActiveAttempts(o) == {a \in Attempts : att[a].order = o /\ att[a].status \in ActiveStatuses}

\* A live request is still working on attempt a.
InHand(a) == \E w \in Workers : req[w].att = a /\ req[w].pc \in {"call", "record", "settle"}

Init ==
    /\ order = [o \in Orders |-> "pending"]
    /\ lapsed = [o \in Orders |-> FALSE]
    /\ credits = [o \in Orders |-> 0]
    /\ att = [a \in Attempts |-> FreeAttempt]
    /\ charged = {}
    /\ lock = [o \in Orders |-> Nobody]
    /\ req = [w \in Workers |-> IdleRequest]
    /\ rec = [r \in Recoverers |-> IdleLoop]

-----------------------------------------------------------------------------
(* The steps of a request. *)

\* The request ends with an answer; its finally clause still has to run.
Answer(w, reply) ==
    req' = [req EXCEPT ![w] = [@ EXCEPT !.pc = "release", !.reply = reply]]

\* SET order:{order_no} NX EX 30; a taken lock refuses the request.
AcquireLock(w, o) ==
    /\ req[w].pc = "idle"
    /\ lock[o] = Nobody
    /\ lock' = [lock EXCEPT ![o] = w]
    /\ req' = [req EXCEPT ![w] = [IdleRequest EXCEPT !.pc = "load", !.order = o]]
    /\ UNCHANGED <<order, lapsed, credits, att, charged, rec>>

\* _load_order, _precheck_terminal_status and the read-only expiry check.
LoadOrder(w) ==
    LET o == req[w].order IN
    /\ req[w].pc = "load"
    /\ \/ order[o] = "success" /\ Answer(w, "success")
       \/ order[o] = "expired" /\ Answer(w, "error")
       \/ order[o] \in {"pending", "failed"} /\ lapsed[o] /\ Answer(w, "error")
       \/ /\ order[o] \in {"pending", "failed"} /\ ~lapsed[o]
          /\ req' = [req EXCEPT ![w].pc = "begin"]
    /\ UNCHANGED <<order, lapsed, credits, att, charged, lock, rec>>

\* begin_channel_attempt: an active attempt is reused, a new one is reserved
\* otherwise. Losing the race on the unique index answers as an attempt in
\* progress does.
BeginAttempt(w) ==
    LET o == req[w].order IN
    /\ req[w].pc = "begin"
    /\ \/ \E a \in ActiveAttempts(o) :
             /\ UNCHANGED att
             /\ \/ att[a].status = "processing" /\ Answer(w, "error")
                \/ /\ att[a].status = "channel_succeeded"
                   /\ req' = [req EXCEPT ![w] = [@ EXCEPT !.pc = "settle", !.att = a,
                                                           !.ok = TRUE]]
       \/ /\ ActiveAttempts(o) = {}
          /\ \E a \in Attempts :
                /\ att[a].status = "free"
                /\ att' = [att EXCEPT ![a] = [status |-> "processing", order |-> o,
                                              old |-> FALSE]]
                /\ req' = [req EXCEPT ![w] = [@ EXCEPT !.pc = "call", !.att = a]]
    /\ UNCHANGED <<order, lapsed, credits, charged, lock, rec>>

\* The channel charged the customer and said so.
ChannelPays(w) ==
    /\ req[w].pc = "call"
    /\ charged' = charged \cup {req[w].att}
    /\ req' = [req EXCEPT ![w] = [@ EXCEPT !.pc = "record", !.ok = TRUE]]
    /\ UNCHANGED <<order, lapsed, credits, att, lock, rec>>

\* The channel declined, or an admin has switched it off (no call is made).
ChannelDeclines(w) ==
    /\ req[w].pc = "call"
    /\ req' = [req EXCEPT ![w] = [@ EXCEPT !.pc = "record", !.ok = FALSE]]
    /\ UNCHANGED <<order, lapsed, credits, att, charged, lock, rec>>

\* Fault: a timeout is recorded as a refusal.
TimeoutAsDecline(w) ==
    /\ req[w].pc = "call"
    /\ charged' \in {charged, charged \cup {req[w].att}}
    /\ req' = [req EXCEPT ![w] = [@ EXCEPT !.pc = "record", !.ok = FALSE]]
    /\ UNCHANGED <<order, lapsed, credits, att, lock, rec>>

\* No answer within 10 s: the charge may or may not have happened, nothing is
\* recorded and the attempt stays in processing.
ChannelTimesOut(w) ==
    /\ req[w].pc = "call"
    /\ charged' \in {charged, charged \cup {req[w].att}}
    /\ Answer(w, "error")
    /\ UNCHANGED <<order, lapsed, credits, att, lock, rec>>

\* Fault: the answer overwrites whatever status the attempt has.
RecordOverwrites(w) ==
    LET status == IF req[w].ok THEN "channel_succeeded" ELSE "channel_failed" IN
    /\ req[w].pc = "record"
    /\ att' = [att EXCEPT ![req[w].att] = [@ EXCEPT !.status = status, !.old = FALSE]]
    /\ req' = [req EXCEPT ![w].pc = "settle"]
    /\ UNCHANGED <<order, lapsed, credits, charged, lock, rec>>

\* Fault: the settlement comes before the answer is recorded.
RecordSkipped(w) ==
    /\ req[w].pc = "record"
    /\ req' = [req EXCEPT ![w].pc = "settle"]
    /\ UNCHANGED <<order, lapsed, credits, att, charged, lock, rec>>

\* Fault: a status that no other statement knows.
RecordMisspelt(w) ==
    /\ req[w].pc = "record"
    /\ att' = [att EXCEPT ![req[w].att].status = "succeeded"]
    /\ req' = [req EXCEPT ![w].pc = "settle"]
    /\ UNCHANGED <<order, lapsed, credits, charged, lock, rec>>

\* record_channel_result: only an attempt still in processing takes the answer.
RecordChannelResult(w) ==
    LET a == req[w].att
        status == IF req[w].ok THEN "channel_succeeded" ELSE "channel_failed" IN
    /\ req[w].pc = "record"
    /\ \/ /\ att[a].status = "processing"
          /\ att' = [att EXCEPT ![a] = [@ EXCEPT !.status = status, !.old = FALSE]]
          /\ req' = [req EXCEPT ![w].pc = "settle"]
       \/ att[a].status # "processing" /\ Answer(w, "error") /\ UNCHANGED att
    /\ UNCHANGED <<order, lapsed, credits, charged, lock, rec>>

-----------------------------------------------------------------------------
(* _settle_recharge: one transaction under the order's row lock. Each of   *)
(* its outcomes changes order, credits and att or, when it raises, rolls   *)
(* everything back.                                                        *)

CloseAttempt(a) == att' = [att EXCEPT ![a].status = "settled"]

\* The order is already paid: only the attempt is closed.
Confirms(o, a) == order[o] = "success" /\ att[a].status \in SettleableStatuses
Confirm(o, a) == Confirms(o, a) /\ CloseAttempt(a) /\ UNCHANGED <<order, credits>>

\* The channel succeeded: order paid, wallet credited, attempt closed.
Credits(o, a, ok) ==
    ok /\ order[o] \in PayableStatuses(ok) /\ att[a].status \in SettleableStatuses
Credit(o, a, ok) ==
    /\ Credits(o, a, ok)
    /\ order' = [order EXCEPT ![o] = "success"]
    /\ credits' = [credits EXCEPT ![o] = @ + 1]
    /\ CloseAttempt(a)

\* The channel declined and the order has not lapsed: the order may be retried.
Fails(o, ok) == ~ok /\ order[o] \in PayableStatuses(ok) /\ ~lapsed[o]
FailOrder(o, ok) ==
    /\ Fails(o, ok)
    /\ order' = [order EXCEPT ![o] = "failed"]
    /\ UNCHANGED <<credits, att>>

\* Everything else raises. That covers the lapsed order: the UPDATE to
\* 'expired' is followed by a raise inside the transaction, which undoes it.
Rejects(o, a, ok) ==
    ~(Confirms(o, a) \/ Credits(o, a, ok) \/ Fails(o, ok))

SettleRecharge(w) ==
    LET o == req[w].order
        a == req[w].att
        ok == req[w].ok IN
    /\ req[w].pc = "settle"
    /\ \/ Confirm(o, a) /\ Answer(w, IF ok THEN "success" ELSE "failed")
       \/ Credit(o, a, ok) /\ Answer(w, "success")
       \/ FailOrder(o, ok) /\ Answer(w, "failed")
       \/ Rejects(o, a, ok) /\ Answer(w, "rejected") /\ UNCHANGED db
    /\ UNCHANGED <<lapsed, charged, lock, rec>>

\* The finally clause: a token-checked DEL; a Redis failure is only logged.
ReleaseLock(w) ==
    LET o == req[w].order IN
    /\ req[w].pc = "release"
    /\ lock' \in {lock, [lock EXCEPT ![o] = IF @ = w THEN Nobody ELSE @]}
    /\ req' = [req EXCEPT ![w] = IdleRequest]
    /\ UNCHANGED <<order, lapsed, credits, att, charged, rec>>

\* A database or pool error at any step: the request raises.
StepFails(w) ==
    /\ req[w].pc \in Steps \ {"idle", "release"}
    /\ Answer(w, "error")
    /\ UNCHANGED <<order, lapsed, credits, att, charged, lock, rec>>

\* The process dies: no finally clause, the lock is left to its TTL.
Crash(w) ==
    /\ req[w].pc # "idle"
    /\ req' = [req EXCEPT ![w] = IdleRequest]
    /\ UNCHANGED <<order, lapsed, credits, att, charged, lock, rec>>

-----------------------------------------------------------------------------
(* The recovery loop, settle_recoverable_attempts, every 300 s.            *)

\* Fault: the loop only looks for recorded answers.
MarkNothing(r) ==
    /\ rec[r].pc = "idle"
    /\ rec' = [rec EXCEPT ![r].pc = "select"]
    /\ UNCHANGED <<order, lapsed, credits, att, charged, lock, req>>

\* Attempts in processing for more than 300 s are put aside for a human.
MarkStale(r) ==
    /\ rec[r].pc = "idle"
    /\ att' = [a \in Attempts |->
                 IF att[a].status = "processing" /\ att[a].old
                 THEN [att[a] EXCEPT !.status = "manual_review", !.old = FALSE]
                 ELSE att[a]]
    /\ rec' = [rec EXCEPT ![r].pc = "select"]
    /\ UNCHANGED <<order, lapsed, credits, charged, lock, req>>

\* Fault: every unfinished attempt is treated as recoverable.
SelectAnyActive(r) ==
    /\ rec[r].pc = "select"
    /\ rec' = [rec EXCEPT ![r] =
                 [pc |-> "settle", batch |-> {a \in Attempts : att[a].status \in ActiveStatuses}]]
    /\ UNCHANGED <<order, lapsed, credits, att, charged, lock, req>>

\* The SELECT that follows, a statement of its own. (Its LIMIT 50 is above the
\* number of attempts of a model.)
SelectRecoverable(r) ==
    /\ rec[r].pc = "select"
    /\ rec' = [rec EXCEPT ![r] =
                 [pc |-> "settle",
                  batch |-> {a \in Attempts : att[a].status = "channel_succeeded"}]]
    /\ UNCHANGED <<order, lapsed, credits, att, charged, lock, req>>

\* _settle_attempt on one row of the batch, which was read before: the rows
\* are not locked, another loop or the live request may have settled it.
SettleRow(r, a) ==
    LET o == att[a].order IN
    /\ rec[r].pc = "settle"
    /\ a \in rec[r].batch
    /\ \/ Confirm(o, a)
       \/ Credit(o, a, TRUE)
       \/ Rejects(o, a, TRUE) /\ UNCHANGED db
    /\ rec' = [rec EXCEPT ![r].batch = @ \ {a}]
    /\ UNCHANGED <<lapsed, charged, lock, req>>

\* The row's settlement raises a database error, is logged and skipped.
RowFails(r, a) ==
    /\ rec[r].pc = "settle"
    /\ a \in rec[r].batch
    /\ rec' = [rec EXCEPT ![r].batch = @ \ {a}]
    /\ UNCHANGED <<order, lapsed, credits, att, charged, lock, req>>

\* Every row has been tried; the loop sleeps.
EndPass(r) ==
    /\ rec[r].pc = "settle" /\ rec[r].batch = {}
    /\ rec' = [rec EXCEPT ![r] = IdleLoop]
    /\ UNCHANGED <<order, lapsed, credits, att, charged, lock, req>>

\* The instance restarts in the middle of a pass, or a statement fails.
PassAborts(r) ==
    /\ rec[r].pc # "idle"
    /\ rec' = [rec EXCEPT ![r] = IdleLoop]
    /\ UNCHANGED <<order, lapsed, credits, att, charged, lock, req>>

-----------------------------------------------------------------------------
(* Time. *)

\* The lock's TTL runs out, or Redis loses the key.
LockExpires(o) ==
    /\ lock[o] # Nobody
    /\ LockMayLapse \/ req[lock[o]].order # o
    /\ lock' = [lock EXCEPT ![o] = Nobody]
    /\ UNCHANGED <<order, lapsed, credits, att, charged, req, rec>>

\* expire_at (30 minutes after creation) passes.
OrderLapses(o) ==
    /\ ~lapsed[o]
    /\ lapsed' = [lapsed EXCEPT ![o] = TRUE]
    /\ UNCHANGED <<order, credits, att, charged, lock, req, rec>>

\* 300 s pass over an attempt in processing.
AttemptAges(a) ==
    /\ att[a].status = "processing" /\ ~att[a].old
    /\ SlowRequests \/ ~InHand(a)
    /\ att' = [att EXCEPT ![a].old = TRUE]
    /\ UNCHANGED <<order, lapsed, credits, charged, lock, req, rec>>

RequestStep(w) ==
    \/ LoadOrder(w) \/ BeginAttempt(w)
    \/ ChannelPays(w) \/ ChannelDeclines(w) \/ ChannelTimesOut(w)
    \/ RecordChannelResult(w) \/ SettleRecharge(w) \/ ReleaseLock(w)

Next ==
    \/ \E w \in Workers :
          \/ \E o \in Orders : AcquireLock(w, o)
          \/ RequestStep(w) \/ StepFails(w) \/ Crash(w)
    \/ \E r \in Recoverers :
          \/ MarkStale(r) \/ SelectRecoverable(r) \/ EndPass(r) \/ PassAborts(r)
          \/ \E a \in Attempts : SettleRow(r, a) \/ RowFails(r, a)
    \/ \E o \in Orders : LockExpires(o) \/ OrderLapses(o)
    \/ \E a \in Attempts : AttemptAges(a)

Spec == Init /\ [][Next]_vars

(***************************************************************************)
(* Fairness. Time passes; the 300 s loop runs for ever and each of its     *)
(* statements ends (asyncio.sleep, command_timeout). Strong fairness of    *)
(* the SELECT and of a row's settlement says that restarts and database    *)
(* errors (PassAborts, RowFails) do not strike every single pass. A        *)
(* request's own steps end as well: each has a timeout. Clients need not   *)
(* come back.                                                              *)
(***************************************************************************)
Fairness ==
    /\ \A r \in Recoverers :
          /\ WF_vars(MarkStale(r)) /\ SF_vars(SelectRecoverable(r)) /\ WF_vars(EndPass(r))
          /\ \A a \in Attempts : SF_vars(SettleRow(r, a) /\ att'[a].status = "settled")
    /\ \A w \in Workers : WF_vars(RequestStep(w))
    /\ \A a \in Attempts : WF_vars(AttemptAges(a))
    /\ \A o \in Orders : WF_vars(LockExpires(o))

FairSpec == Spec /\ Fairness

-----------------------------------------------------------------------------
(* Properties. *)

\* Every variable has its type (the columns and fields of the code).
TypeOK ==
    /\ order \in [Orders -> OrderStatuses]
    /\ lapsed \in [Orders -> BOOLEAN]
    /\ credits \in [Orders -> Nat]
    /\ att \in [Attempts -> AttemptRows]
    /\ charged \subseteq Attempts
    /\ lock \in [Orders -> Workers \cup {Nobody}]
    /\ req \in [Workers -> Requests]
    /\ rec \in [Recoverers -> Loops]

\* However requests, recovery loops, retries and crashes interleave, an order
\* is paid exactly when the wallet has been credited for it, and once.
CreditedOnce ==
    \A o \in Orders : credits[o] = IF order[o] = "success" THEN 1 ELSE 0

\* No order is paid, and no wallet credited, without a charge of the channel
\* that was settled for that order.
CreditIsBacked ==
    \A o \in Orders : order[o] = "success" =>
        \E a \in charged : att[a].order = o /\ att[a].status = "settled"

\* A charge never disappears from the books: its attempt is unfinished,
\* recoverable, settled or under review, but not recorded as refused, and a
\* request that knows of the charge has not turned its attempt loose.
ChargeIsOnRecord ==
    \A a \in charged : att[a].status \in
        {"processing", "channel_succeeded", "settled", "manual_review"}

\* A step that pays an order settles, in the same step, an attempt of the
\* order that the channel charged and whose answer was recorded before.
PaidByRecordedCharge ==
    [][\A o \in Orders : order[o] # "success" /\ order'[o] = "success" =>
          \E a \in charged : /\ att[a].order = o
                             /\ att[a].status = "channel_succeeded"
                             /\ att'[a].status = "settled"]_vars

\* A paid order stays paid, an attempt whose charge is recorded can only be settled,
\* and one that was refused, settled or put under review never changes again: a
\* late answer cannot reopen it.
FinalStaysFinal ==
    [][/\ \A o \in Orders : order[o] = "success" => order'[o] = "success"
       /\ \A a \in Attempts :
             /\ att[a].status \in {"channel_failed", "settled", "manual_review"} =>
                   att'[a].status = att[a].status
             /\ att[a].status = "channel_succeeded" =>
                   att'[a].status \in {"channel_succeeded", "settled"}]_vars

\* Decisions rest on what the channel answered, and they stand.
DecisionsStand == PaidByRecordedCharge /\ FinalStaysFinal

\* No attempt waits for ever, even if every request dies: a recorded charge is
\* settled (it can become nothing else, FinalStaysFinal), and an attempt without
\* an answer does not block its order.
AttemptsConclude ==
    \A a \in Attempts : []<>(att[a].status \notin {"processing", "channel_succeeded"})

-----------------------------------------------------------------------------
(* The abstract specification that this one implements.                    *)

PaymentsOf(o) == {a \in charged : att[a].order = o}

Ideal == INSTANCE IdealRecharge WITH
    Payments <- Attempts,
    collected <- [o \in Orders |-> PaymentsOf(o)],
    credits <- credits

\* Requests, attempts, locks, retries and recovery together credit an order at
\* most once, and only after the channel collected a payment for it.
ImplementsIdeal == Ideal!Spec

-----------------------------------------------------------------------------
(* The inductive invariant behind the safety properties.                   *)

\* What the status of an attempt says of its charge.
AttemptInv ==
    \A a \in Attempts :
        /\ att[a].status = "free" <=> att[a].order = Nobody
        /\ att[a].status = "free" => a \notin charged
        /\ att[a].status \in {"channel_succeeded", "settled"} => a \in charged
        /\ att[a].status = "channel_failed" => a \notin charged

\* What a request knows of its attempt at each step.
RequestInv ==
    \A w \in Workers :
        LET q == req[w] IN
        /\ q.pc # "idle" => q.order \in Orders
        /\ q.pc \in {"call", "record", "settle"} =>
              q.att \in Attempts /\ att[q.att].order = q.order
        /\ q.pc \in {"call", "record"} =>
              att[q.att].status \in {"processing", "manual_review"}
        /\ q.pc = "call" => q.att \notin charged
        /\ q.pc = "record" => (q.ok <=> q.att \in charged)
        /\ q.pc = "settle" =>
              att[q.att].status \in
                (IF q.ok THEN {"channel_succeeded", "settled"} ELSE {"channel_failed"})

\* An attempt is called and recorded by the one request that created it.
OwnAttempt ==
    \A v, w \in Workers :
        /\ req[v].pc \in {"call", "record"} /\ req[w].pc \in {"call", "record"}
        /\ req[v].att = req[w].att
        => v = w

\* The rows of a recovery batch may have been settled since, nothing else.
BatchInv ==
    \A r \in Recoverers : \A a \in rec[r].batch :
        att[a].status \in {"channel_succeeded", "settled"}

Inductive ==
    /\ TypeOK /\ AttemptInv /\ RequestInv /\ OwnAttempt /\ BatchInv
    /\ CreditedOnce /\ CreditIsBacked

(***************************************************************************)
(* What the comments of the code claim and the code does not do; see the   *)
(* findings.                                                               *)
(***************************************************************************)

\* service.py:398-400: the order lock is no money defence, the re-check under
\* FOR UPDATE prevents the double charge. The re-check comes after the channel
\* call, and begin_channel_attempt does not look at the order.
SettledChargesOnce ==
    \A a, b \in charged :
        att[a].order = att[b].order /\ att[a].status = "settled"
            /\ att[b].status = "settled" => a = b

\* service.py:416 and :395: a lapsed order is marked expired by the settlement
\* that finds it lapsed.
LapsedIsMarked ==
    [][\A w \in Workers :
          LET o == req[w].order IN
          req[w].pc = "settle" /\ ~req[w].ok /\ req'[w].reply = "rejected"
              /\ order[o] \in {"pending", "failed"} /\ lapsed[o]
          => order'[o] = "expired"]_vars
=============================================================================
