------------------------------- MODULE Refund -------------------------------
(***************************************************************************)
(* Refunding a consumption order: app/payment/refund.py (process_refund    *)
(* and what it calls), the refund side of app/payment/attempts.py and the  *)
(* idempotency key of the caller.                                          *)
(*                                                                         *)
(* As in Recharge, a database transaction is one action (it holds the      *)
(* order row FOR UPDATE). The gate allow_consumption_refund is open, as it *)
(* is for POST /admin/refund: with it closed no payment order is refunded. *)
(***************************************************************************)
EXTENDS Naturals, FiniteSets, Functions

CONSTANTS
    Orders,        \* paid consumption orders
    Amount,        \* what each of them cost
    Keys,          \* idempotency keys of callers
    Workers,       \* requests that may run at the same time
    Recoverers,    \* settlement loops
    Attempts,      \* identifiers of refund attempts; a bound on how many are made
    Nobody,        \* no worker, attempt, order or key
    SlowRequests   \* TRUE: a live request may outlast the 300 s staleness limit

ASSUME RefundAssumption ==
    /\ Amount \in [Orders -> Nat \ {0}]
    /\ Nobody \notin Orders \cup Keys \cup Workers \cup Attempts
    /\ SlowRequests \in BOOLEAN

VARIABLES
    order,      \* status of each order row
    refunded,   \* sum of its refund orders (the wallet was credited as much)
    att,        \* the payment_attempts rows of operation refund
    returned,   \* attempts whose money the channel has sent back
    idem,       \* Redis: payment:idem:refund:{user}:{digest}
    lock,       \* Redis: refund:{order_no}
    req,        \* the running requests
    rec         \* the recovery loops

vars == <<order, refunded, att, returned, idem, lock, req, rec>>
db == <<order, refunded, att>>

Rest == 0       \* the amount of a request that asks for all that remains

ActiveStatuses == {"processing", "channel_succeeded"}
RefundableStatuses == {"success", "partial_refunded"}
OrderStatuses == RefundableStatuses \cup {"refunded"}
AttemptStatuses == {"free", "processing", "channel_succeeded", "channel_failed",
                    "settled", "manual_review"}
Steps == {"idle", "lock", "load", "begin", "call", "record", "settle", "store", "fail",
          "release"}

FreeAttempt == [status |-> "free", order |-> Nobody, amount |-> 0, key |-> Nobody,
                old |-> FALSE]
IdleRequest == [pc |-> "idle", order |-> Nobody, key |-> Nobody, amount |-> 0,
                att |-> Nobody, ok |-> FALSE, done |-> FALSE]
IdleLoop == [pc |-> "idle", batch |-> {}, att |-> Nobody]

ActiveAttempts(o) == {a \in Attempts : att[a].order = o /\ att[a].status \in ActiveStatuses}
InHand(a) == \E w \in Workers : req[w].att = a /\ req[w].pc \in {"call", "record", "settle"}
Remaining(o) == Amount[o] - refunded[o]

Init ==
    /\ order = [o \in Orders |-> "success"]
    /\ refunded = [o \in Orders |-> 0]
    /\ att = [a \in Attempts |-> FreeAttempt]
    /\ returned = {}
    /\ idem = [k \in Keys |-> "none"]
    /\ lock = [o \in Orders |-> Nobody]
    /\ req = [w \in Workers |-> IdleRequest]
    /\ rec = [r \in Recoverers |-> IdleLoop]

-----------------------------------------------------------------------------
(* The steps of process_refund.                                            *)

Go(w, pc) == req' = [req EXCEPT ![w].pc = pc]

\* _claim_refund_idempotency: SET NX "processing". A key in progress refuses the
\* request, a key with a result replays it; neither changes anything.
ClaimKey(w, o, k, amount) ==
    /\ req[w].pc = "idle"
    /\ idem[k] = "none"
    /\ idem' = [idem EXCEPT ![k] = "processing"]
    /\ req' = [req EXCEPT ![w] = [IdleRequest EXCEPT !.pc = "lock", !.order = o, !.key = k,
                                                     !.amount = amount]]
    /\ UNCHANGED <<order, refunded, att, returned, lock, rec>>

\* The 30 s lock of the order; a taken one gives the key back and refuses.
AcquireLock(w) ==
    LET o == req[w].order IN
    /\ req[w].pc = "lock"
    /\ \/ /\ lock[o] = Nobody
          /\ lock' = [lock EXCEPT ![o] = w]
          /\ Go(w, "load")
          /\ UNCHANGED idem
       \/ /\ lock[o] # Nobody
          /\ idem' = [idem EXCEPT ![req[w].key] = "none"]
          /\ req' = [req EXCEPT ![w] = IdleRequest]
          /\ UNCHANGED lock
    /\ UNCHANGED <<order, refunded, att, returned, rec>>

\* _decide_refund: what a request for this amount may be given.
Refundable(o, amount) ==
    /\ order[o] \in RefundableStatuses
    /\ amount > 0
    /\ amount <= Remaining(o)

\* _load_refund_order and the first decision, on a snapshot.
LoadOrder(w) ==
    LET o == req[w].order
        amount == IF req[w].amount = Rest THEN Remaining(o) ELSE req[w].amount IN
    /\ req[w].pc = "load"
    /\ \/ /\ Refundable(o, amount)
          /\ req' = [req EXCEPT ![w] = [@ EXCEPT !.pc = "begin", !.amount = amount]]
       \/ ~Refundable(o, amount) /\ Go(w, "fail")
    /\ UNCHANGED <<order, refunded, att, returned, idem, lock, rec>>

\* Fault: the amount is not clamped to what remains of the order.
UnclampedQuota(o, amount) == amount

\* _clamp_refund_quota: what the new attempt may refund.
ClampedQuota(o, amount) == IF amount <= Remaining(o) THEN amount ELSE Remaining(o)

\* begin_channel_attempt: reuse the order's active attempt, whoever made it, or
\* reserve a new one within what the order has left.
BeginAttempt(w) ==
    LET o == req[w].order IN
    /\ req[w].pc = "begin"
    /\ \/ \E a \in ActiveAttempts(o) :
             /\ UNCHANGED att
             /\ \/ att[a].status = "processing" /\ Go(w, "fail")
                \/ /\ att[a].status = "channel_succeeded"
                   /\ req' = [req EXCEPT ![w] = [@ EXCEPT !.pc = "settle", !.att = a,
                                                         !.done = TRUE]]
       \/ /\ ActiveAttempts(o) = {}
          /\ order[o] \in RefundableStatuses /\ Remaining(o) > 0
          /\ \E a \in Attempts :
                /\ att[a].status = "free"
                /\ att' = [att EXCEPT ![a] =
                             [status |-> "processing", order |-> o, key |-> req[w].key,
                              amount |-> ClampedQuota(o, req[w].amount), old |-> FALSE]]
                /\ req' = [req EXCEPT ![w] = [@ EXCEPT !.pc = "call", !.att = a]]
       \/ /\ ActiveAttempts(o) = {}
          /\ ~(order[o] \in RefundableStatuses /\ Remaining(o) > 0)
          /\ Go(w, "fail") /\ UNCHANGED att
    /\ UNCHANGED <<order, refunded, returned, idem, lock, rec>>

\* The channel refunds and says so.
ChannelRefunds(w) ==
    /\ req[w].pc = "call"
    /\ returned' = returned \cup {req[w].att}
    /\ req' = [req EXCEPT ![w] = [@ EXCEPT !.pc = "record", !.ok = TRUE]]
    /\ UNCHANGED <<order, refunded, att, idem, lock, rec>>

ChannelDeclines(w) ==
    /\ req[w].pc = "call"
    /\ Go(w, "record")
    /\ UNCHANGED <<order, refunded, att, returned, idem, lock, rec>>

\* Fault: a timeout is recorded as a refusal.
TimeoutAsDecline(w) ==
    /\ req[w].pc = "call"
    /\ returned' \in {returned, returned \cup {req[w].att}}
    /\ Go(w, "record")
    /\ UNCHANGED <<order, refunded, att, idem, lock, rec>>

\* No answer within 10 s: the money may or may not have been sent back.
ChannelTimesOut(w) ==
    /\ req[w].pc = "call"
    /\ returned' \in {returned, returned \cup {req[w].att}}
    /\ Go(w, "fail")
    /\ UNCHANGED <<order, refunded, att, idem, lock, rec>>

\* Fault: the answer is acted on without being recorded.
RecordSkipped(w) ==
    /\ req[w].pc = "record"
    /\ req' = [req EXCEPT ![w] = [@ EXCEPT !.pc = "settle", !.done = TRUE]]
    /\ UNCHANGED <<order, refunded, att, returned, idem, lock, rec>>

\* Fault: a status that the CHECK constraint of the table does not know.
RecordMisspelt(w) ==
    LET status == IF req[w].ok THEN "channel_succeeded" ELSE "failed" IN
    /\ req[w].pc = "record"
    /\ att' = [att EXCEPT ![req[w].att] = [@ EXCEPT !.status = status]]
    /\ Go(w, "fail")
    /\ UNCHANGED <<order, refunded, returned, idem, lock, rec>>

\* record_channel_result. Whether the channel paid is remembered when the
\* record fails; a refusal raises with the key to be given back.
RecordChannelResult(w) ==
    LET a == req[w].att
        ok == req[w].ok
        status == IF ok THEN "channel_succeeded" ELSE "channel_failed" IN
    /\ req[w].pc = "record"
    /\ \/ /\ att[a].status = "processing"
          /\ att' = [att EXCEPT ![a] = [@ EXCEPT !.status = status, !.old = FALSE]]
          /\ req' = [req EXCEPT ![w] = [@ EXCEPT !.pc = IF ok THEN "settle" ELSE "fail",
                                                 !.done = ok]]
       \/ /\ req' = [req EXCEPT ![w] = [@ EXCEPT !.pc = "fail", !.done = ok]]
          /\ UNCHANGED att   \* also: the UPDATE itself fails
    /\ UNCHANGED <<order, refunded, returned, idem, lock, rec>>

\* mark_attempt_settled, the last statement of the transaction.
Settleable(a) == att[a].status \in {"processing", "channel_succeeded"}

\* Fault: the settlement trusts the decision made before the channel call.
SettleUnchecked(a) ==
    LET o == att[a].order IN
    /\ refunded' = [refunded EXCEPT ![o] = @ + att[a].amount]
    /\ order' = [order EXCEPT ![o] = IF refunded'[o] >= Amount[o] THEN "refunded"
                                     ELSE "partial_refunded"]
    /\ att' = [att EXCEPT ![a].status = "settled"]

\* _settle_refund: decide again under the row lock; refund order, order status,
\* wallet, ledger row and attempt change together.
SettleRefund(a) ==
    LET o == att[a].order IN
    /\ Refundable(o, att[a].amount)
    /\ Settleable(a)
    /\ refunded' = [refunded EXCEPT ![o] = @ + att[a].amount]
    /\ order' = [order EXCEPT ![o] = IF refunded'[o] >= Amount[o] THEN "refunded"
                                     ELSE "partial_refunded"]
    /\ att' = [att EXCEPT ![a].status = "settled"]

RejectRefund(a) ==
    /\ ~(Refundable(att[a].order, att[a].amount) /\ Settleable(a))
    /\ UNCHANGED db

Settle(w) ==
    /\ req[w].pc = "settle"
    /\ \/ SettleRefund(req[w].att) /\ Go(w, "store")
       \/ RejectRefund(req[w].att) /\ Go(w, "fail")
    /\ UNCHANGED <<returned, idem, lock, rec>>

\* The result replaces "processing" under the caller's own key; a Redis failure
\* is logged and leaves "processing".
StoreResult(w) ==
    /\ req[w].pc = "store"
    /\ idem' \in {idem, [idem EXCEPT ![req[w].key] = "done"]}
    /\ Go(w, "release")
    /\ UNCHANGED <<order, refunded, att, returned, lock, rec>>

\* Fault: the key is given back whatever happened.
GiveKeyBack(w) ==
    /\ req[w].pc = "fail"
    /\ idem' = [idem EXCEPT ![req[w].key] = "none"]
    /\ Go(w, "release")
    /\ UNCHANGED <<order, refunded, att, returned, lock, rec>>

\* The except clause: the key is given back unless the channel is known to have
\* paid (or Redis fails).
HandleError(w) ==
    /\ req[w].pc = "fail"
    /\ \/ req[w].done /\ UNCHANGED idem
       \/ ~req[w].done /\ idem' \in {idem, [idem EXCEPT ![req[w].key] = "none"]}
    /\ Go(w, "release")
    /\ UNCHANGED <<order, refunded, att, returned, lock, rec>>

ReleaseLock(w) ==
    LET o == req[w].order IN
    /\ req[w].pc = "release"
    /\ lock' \in {lock, [lock EXCEPT ![o] = IF @ = w THEN Nobody ELSE @]}
    /\ req' = [req EXCEPT ![w] = IdleRequest]
    /\ UNCHANGED <<order, refunded, att, returned, idem, rec>>

\* A database or pool error before or after the channel call.
StepFails(w) ==
    /\ req[w].pc \in {"load", "begin", "settle"}
    /\ Go(w, "fail")
    /\ UNCHANGED <<order, refunded, att, returned, idem, lock, rec>>

Crash(w) ==
    /\ req[w].pc # "idle"
    /\ req' = [req EXCEPT ![w] = IdleRequest]
    /\ UNCHANGED <<order, refunded, att, returned, idem, lock, rec>>

-----------------------------------------------------------------------------
(* The recovery loop on refund attempts.                                   *)

MarkStale(r) ==
    /\ rec[r].pc = "idle"
    /\ att' = [a \in Attempts |->
                 IF att[a].status = "processing" /\ att[a].old
                 THEN [att[a] EXCEPT !.status = "manual_review", !.old = FALSE]
                 ELSE att[a]]
    /\ rec' = [rec EXCEPT ![r].pc = "select"]
    /\ UNCHANGED <<order, refunded, returned, idem, lock, req>>

\* Fault: every unfinished attempt is treated as recoverable.
SelectAnyActive(r) ==
    /\ rec[r].pc = "select"
    /\ rec' = [rec EXCEPT ![r] = [pc |-> "settle", att |-> Nobody,
                 batch |-> {a \in Attempts : att[a].status \in ActiveStatuses}]]
    /\ UNCHANGED <<order, refunded, att, returned, idem, lock, req>>

SelectRecoverable(r) ==
    /\ rec[r].pc = "select"
    /\ rec' = [rec EXCEPT ![r] = [pc |-> "settle", att |-> Nobody,
                 batch |-> {a \in Attempts : att[a].status = "channel_succeeded"}]]
    /\ UNCHANGED <<order, refunded, att, returned, idem, lock, req>>

\* _settle_attempt; after a settlement the result is still to be stored.
SettleRow(r, a) ==
    /\ rec[r].pc = "settle" /\ a \in rec[r].batch
    /\ \/ /\ SettleRefund(a)
          /\ rec' = [rec EXCEPT ![r] = [pc |-> "store", att |-> a,
                                        batch |-> rec[r].batch \ {a}]]
       \/ RejectRefund(a) /\ rec' = [rec EXCEPT ![r].batch = @ \ {a}]
    /\ UNCHANGED <<returned, idem, lock, req>>

\* The result is written under the key the attempt was made with.
StoreRow(r) ==
    /\ rec[r].pc = "store"
    /\ idem' \in {idem, [idem EXCEPT ![att[rec[r].att].key] = "done"]}
    /\ rec' = [rec EXCEPT ![r].pc = "settle"]
    /\ UNCHANGED <<order, refunded, att, returned, lock, req>>

RowFails(r, a) ==
    /\ rec[r].pc = "settle" /\ a \in rec[r].batch
    /\ rec' = [rec EXCEPT ![r].batch = @ \ {a}]
    /\ UNCHANGED <<order, refunded, att, returned, idem, lock, req>>

EndPass(r) ==
    /\ rec[r].pc = "settle" /\ rec[r].batch = {}
    /\ rec' = [rec EXCEPT ![r] = IdleLoop]
    /\ UNCHANGED <<order, refunded, att, returned, idem, lock, req>>

PassAborts(r) ==
    /\ rec[r].pc # "idle"
    /\ rec' = [rec EXCEPT ![r] = IdleLoop]
    /\ UNCHANGED <<order, refunded, att, returned, idem, lock, req>>

-----------------------------------------------------------------------------
(* Time. *)

\* The lock's 30 s run out or Redis loses it, at any time.
LockExpires(o) ==
    /\ lock[o] # Nobody
    /\ lock' = [lock EXCEPT ![o] = Nobody]
    /\ UNCHANGED <<order, refunded, att, returned, idem, req, rec>>

AttemptAges(a) ==
    /\ att[a].status = "processing" /\ ~att[a].old
    /\ SlowRequests \/ ~InHand(a)
    /\ att' = [att EXCEPT ![a].old = TRUE]
    /\ UNCHANGED <<order, refunded, returned, idem, lock, req, rec>>

RequestStep(w) ==
    \/ AcquireLock(w) \/ LoadOrder(w) \/ BeginAttempt(w)
    \/ ChannelRefunds(w) \/ ChannelDeclines(w) \/ ChannelTimesOut(w)
    \/ RecordChannelResult(w) \/ Settle(w) \/ StoreResult(w) \/ HandleError(w)
    \/ ReleaseLock(w)

\* What callers ask for: a positive amount or the rest.
Wanted(o) == {Rest} \cup 1..Amount[o]

Next ==
    \/ \E w \in Workers :
          \/ \E o \in Orders, k \in Keys : \E n \in Wanted(o) : ClaimKey(w, o, k, n)
          \/ RequestStep(w) \/ StepFails(w) \/ Crash(w)
    \/ \E r \in Recoverers :
          \/ MarkStale(r) \/ SelectRecoverable(r) \/ StoreRow(r) \/ EndPass(r) \/ PassAborts(r)
          \/ \E a \in Attempts : SettleRow(r, a) \/ RowFails(r, a)
    \/ \E o \in Orders : LockExpires(o)
    \/ \E a \in Attempts : AttemptAges(a)

Spec == Init /\ [][Next]_vars

-----------------------------------------------------------------------------
(* Properties. *)

Amounts == [a \in Attempts |-> att[a].amount]
Total(S) == SumFunctionOnSet(Amounts, S)
SettledOf(o) == {a \in Attempts : att[a].order = o /\ att[a].status = "settled"}

TypeOK ==
    /\ order \in [Orders -> OrderStatuses]
    /\ refunded \in [Orders -> Nat]
    /\ att \in [Attempts -> [status : AttemptStatuses, order : Orders \cup {Nobody},
                             amount : Nat, key : Keys \cup {Nobody}, old : BOOLEAN]]
    /\ returned \subseteq Attempts
    /\ idem \in [Keys -> {"none", "processing", "done"}]
    /\ lock \in [Orders -> Workers \cup {Nobody}]
    /\ req \in [Workers -> [pc : Steps, order : Orders \cup {Nobody},
                            key : Keys \cup {Nobody}, amount : Nat,
                            att : Attempts \cup {Nobody}, ok : BOOLEAN, done : BOOLEAN]]
    /\ rec \in [Recoverers -> [pc : {"idle", "select", "settle", "store"},
                               batch : SUBSET Attempts, att : Attempts \cup {Nobody}]]

\* Concurrent refunds, partial ones included, never give back more than an order
\* cost, and the order's status says how much has been given back.
RefundWithinOrder ==
    \A o \in Orders :
        /\ refunded[o] <= Amount[o]
        /\ order[o] = CASE refunded[o] = 0 -> "success"
                        [] refunded[o] = Amount[o] -> "refunded"
                        [] OTHER -> "partial_refunded"

\* What an attempt in progress has reserved still fits into its order when it
\* comes to be settled, so a refund the channel carried out is never rejected.
ReservationFits ==
    \A o \in Orders : \A a \in ActiveAttempts(o) : refunded[o] + att[a].amount <= Amount[o]

\* The books and the channel agree: what was credited for an order is the sum of
\* its settled attempts, each of which the channel carried out.
BooksMatchChannel ==
    \A o \in Orders :
        /\ refunded[o] = Total(SettledOf(o))
        /\ SettledOf(o) \subseteq returned

\* A refund the channel carried out is never recorded as refused.
ReturnIsOnRecord ==
    \A a \in returned : att[a].status \in
        {"processing", "channel_succeeded", "settled", "manual_review"}

\* A caller's key is good for one settled refund, with retries, crashes, lapsing
\* locks and the recovery loop.
KeySettledOnce ==
    \A a, b \in Attempts :
        /\ att[a].status = "settled" /\ att[b].status = "settled"
        /\ att[a].key = att[b].key
        => a = b

\* Order, attempts, channel and keys agree on what was given back.
RefundBooks ==
    /\ TypeOK /\ RefundWithinOrder /\ ReservationFits /\ BooksMatchChannel
    /\ ReturnIsOnRecord /\ KeySettledOnce

(* What the comments claim and the code does not do; see the findings. *)

\* refund.py:350-353: a retry under the same key must not reach the channel again
\* after the channel has refunded.
KeyReturnedOnce ==
    \A a, b \in returned : att[a].key = att[b].key => a = b
=============================================================================
