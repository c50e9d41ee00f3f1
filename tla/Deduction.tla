----------------------------- MODULE Deduction -----------------------------
(***************************************************************************)
(* Charging token usage to wallets: app/payment/deduction.py (the task     *)
(* that each answer spawns), app/payment/deferred.py (placeholders and     *)
(* their settlement) and the wallet operations of app/payment/_ledger.py.  *)
(*                                                                         *)
(* A transaction is two actions here: reading the wallet FOR UPDATE, which *)
(* takes the row lock, and the commit, which gives it back; an abort gives *)
(* it back as well. The Redis lock wallet:{user} is separate and may lapse.*)
(***************************************************************************)
EXTENDS Integers, Sequences, FiniteSets

CONSTANTS
    Users,
    Charges,       \* uses of tokens to be charged, one task each
    UserOf, Cost,  \* whose they are, and their price
    Openings,      \* balances a wallet has, or will have when it is created
    Settlers,      \* settlement and maintenance loops of all instances
    MaxFails,      \* SETTLE_NO_WALLET_MAX_FAILS
    MaxTopUps,     \* bound: recharges per user
    Unlocked       \* no charge, no settler

ASSUME DeductionAssumption ==
    /\ UserOf \in [Charges -> Users]
    /\ Cost \in [Charges -> Nat \ {0}]
    /\ Openings \subseteq Int
    /\ MaxFails \in Nat \ {0} /\ MaxTopUps \in Nat
    /\ Charges \cap Settlers = {} /\ Unlocked \notin Charges \cup Settlers

VARIABLES
    has,       \* users with a row in user_wallets
    opening,   \* history: the balance each wallet starts with
    balance,   \* user_wallets.balance (of a user without a row: to be)
    ledger,    \* transaction_logs of each user, oldest first
    order,     \* payment_orders row of each charge
    aged,      \* placeholders older than 60 s
    fails,     \* Redis: deferred_no_wallet_fails:{order_no}
    topups,    \* recharges so far
    lock,      \* Redis: wallet:{user}
    row,       \* who holds the row lock of a wallet
    task,      \* the charging tasks
    loop       \* the settlement loops

deductionVars == <<has, opening, balance, ledger, order, aged, fails, topups, lock, row, task, loop>>
books == <<has, opening, balance, ledger, order, topups>>

Actors == Charges \cup Settlers
OrderStatuses == {"none", "pending", "success", "failed"}
TaskSteps == {"lock", "defer", "read", "apply", "release", "done"}
LoopSteps == {"idle", "rows", "read", "apply", "void", "release"}

IdleLoop == [pc |-> "idle", batch |-> {}, row |-> Unlocked, before |-> 0]

DeductionInit ==
    /\ has \in SUBSET Users
    /\ opening \in [Users -> Openings]
    /\ balance = opening
    /\ ledger = [u \in Users |-> <<>>]
    /\ order = [c \in Charges |-> [status |-> "none", amount |-> 0]]
    /\ aged = {}
    /\ fails = [c \in Charges |-> 0]
    /\ topups = [u \in Users |-> 0]
    /\ lock = [u \in Users |-> Unlocked]
    /\ row = [u \in Users |-> Unlocked]
    /\ task = [c \in Charges |-> [pc |-> "lock", before |-> 0]]
    /\ loop = [s \in Settlers |-> IdleLoop]

TaskGoes(c, pc) == task' = [task EXCEPT ![c].pc = pc]
LoopGoes(s, pc) == loop' = [loop EXCEPT ![s].pc = pc]
FreeRow(p) == row' = [u \in Users |-> IF row[u] = p THEN Unlocked ELSE row[u]]

\* Fault: a balance that is not positive is treated like one that falls short.
Unclamped(price, b) == IF b < price THEN b ELSE price

\* Fault: only a positive balance limits what is taken.
FullWhenEmpty(price, b) == IF 0 < b /\ b < price THEN b ELSE price

\* What a balance of b yields towards a price; nothing below zero.
ActualDeduct(price, b) == IF b <= 0 THEN 0 ELSE IF b < price THEN b ELSE price

\* Fault: the log is written with the price and not with what was taken.
EntryAtCost(c, amount, b) == [by |-> c, before |-> b, after |-> b - Cost[c]]

Entry(c, amount, b) == [by |-> c, before |-> b, after |-> b - amount]

\* The wallet change and its log, on the balance read again under the row lock.
Take(c, amount) ==
    LET u == UserOf[c] IN
    /\ balance' = [balance EXCEPT ![u] = @ - amount]
    /\ ledger' = [ledger EXCEPT ![u] = Append(@, Entry(c, amount, balance[u]))]

-----------------------------------------------------------------------------
(* deduct_token_cost. *)

\* _acquire_wallet_lock: three tries, then the charge is deferred.
AcquireWalletLock(c) ==
    LET u == UserOf[c] IN
    /\ task[c].pc = "lock"
    /\ \/ lock[u] = Unlocked /\ lock' = [lock EXCEPT ![u] = c] /\ TaskGoes(c, "read")
       \/ lock[u] # Unlocked /\ UNCHANGED lock /\ TaskGoes(c, "defer")
    /\ UNCHANGED <<books, aged, fails, row, loop>>

\* defer_deduction: a placeholder at today's price; the wallet is not touched.
DeferDeduction(c) ==
    /\ task[c].pc = "defer"
    /\ order' = [order EXCEPT ![c] = [status |-> "pending", amount |-> Cost[c]]]
    /\ TaskGoes(c, "done")
    /\ UNCHANGED <<has, opening, balance, ledger, topups, aged, fails, lock, row, loop>>

\* Fault: the balance is read without FOR UPDATE.
UnlockedRead(c) ==
    /\ task[c].pc = "read"
    /\ task' = [task EXCEPT ![c] = [pc |-> "apply", before |-> balance[UserOf[c]]]]
    /\ UNCHANGED <<books, aged, fails, lock, row, loop>>

\* SELECT ... FOR UPDATE, which waits for the row; a missing wallet is inserted,
\* and an insert waits for a concurrent one in the same way.
ReadWallet(c) ==
    LET u == UserOf[c] IN
    /\ task[c].pc = "read" /\ row[u] = Unlocked
    /\ row' = [row EXCEPT ![u] = c]
    /\ task' = [task EXCEPT ![c] = [pc |-> "apply", before |-> balance[u]]]
    /\ UNCHANGED <<books, aged, fails, lock, loop>>

\* The rest of _apply_token_deduction: nothing to take and no order, or order,
\* balance and log in one commit.
ApplyDeduction(c) ==
    LET u == UserOf[c]
        amount == ActualDeduct(Cost[c], task[c].before) IN
    /\ task[c].pc = "apply"
    /\ has' = has \cup {u}
    /\ \/ amount = 0 /\ UNCHANGED <<balance, ledger, order>>
       \/ /\ amount # 0
          /\ Take(c, amount)
          /\ order' = [order EXCEPT ![c] = [status |-> "success", amount |-> amount]]
    /\ FreeRow(c)
    /\ TaskGoes(c, "release")
    /\ UNCHANGED <<opening, topups, aged, fails, lock, loop>>

\* _release_lock, only by the holder; a Redis error leaves the lock to its TTL.
ReleaseWalletLock(c) ==
    LET u == UserOf[c] IN
    /\ task[c].pc = "release"
    /\ lock' \in {lock, [lock EXCEPT ![u] = IF @ = c THEN Unlocked ELSE @]}
    /\ TaskGoes(c, "done")
    /\ UNCHANGED <<books, aged, fails, row, loop>>

\* A Redis or database error: the transaction rolls back and the charge is lost.
DeductionFails(c) ==
    /\ \/ task[c].pc \in {"lock", "defer"} /\ TaskGoes(c, "done")
       \/ task[c].pc \in {"read", "apply"} /\ TaskGoes(c, "release")
    /\ FreeRow(c)
    /\ UNCHANGED <<books, aged, fails, lock, loop>>

\* The process dies; its database session ends, its Redis lock stays.
TaskDies(c) ==
    /\ task[c].pc # "done"
    /\ TaskGoes(c, "done")
    /\ FreeRow(c)
    /\ UNCHANGED <<books, aged, fails, lock, loop>>

-----------------------------------------------------------------------------
(* settle_pending_deductions. *)

Pending == {c \in Charges : order[c].status = "pending"}

\* The SELECT of placeholders that are old enough.
SelectPending(s) ==
    /\ loop[s].pc = "idle"
    /\ loop' = [loop EXCEPT ![s] = [@ EXCEPT !.pc = "rows", !.batch = Pending \cap aged]]
    /\ UNCHANGED <<books, aged, fails, lock, row, task>>

\* _settle_one takes the wallet lock in a single try; a busy wallet waits for
\* the next round.
TryRow(s, c) ==
    LET u == UserOf[c] IN
    /\ loop[s].pc = "rows" /\ c \in loop[s].batch
    /\ \/ /\ lock[u] = Unlocked
          /\ lock' = [lock EXCEPT ![u] = s]
          /\ loop' = [loop EXCEPT ![s] = [pc |-> "read", row |-> c, before |-> 0,
                                          batch |-> loop[s].batch \ {c}]]
       \/ /\ lock[u] # Unlocked
          /\ loop' = [loop EXCEPT ![s].batch = @ \ {c}]
          /\ UNCHANGED lock
    /\ UNCHANGED <<books, aged, fails, row, task>>

LockWalletRow(s) ==
    LET u == UserOf[loop[s].row] IN
    /\ loop[s].pc = "read" /\ u \in has /\ row[u] = Unlocked
    /\ row' = [row EXCEPT ![u] = s]
    /\ loop' = [loop EXCEPT ![s] = [@ EXCEPT !.pc = "apply", !.before = balance[u]]]
    /\ UNCHANGED <<books, aged, fails, lock, task>>

\* No wallet: _bump_settle_fail counts the round.
Counted(c) == [fails EXCEPT ![c] = IF @ < MaxFails THEN @ + 1 ELSE MaxFails]

\* The placeholder is voided when the count reaches the limit.
CountMissingWallet(s) ==
    LET c == loop[s].row IN
    /\ loop[s].pc = "read" /\ UserOf[c] \notin has
    /\ fails' = Counted(c)
    /\ LoopGoes(s, IF fails'[c] = MaxFails THEN "void" ELSE "release")
    /\ UNCHANGED <<books, aged, lock, row, task>>

\* A Redis error counts as nothing, also when it strikes after the increment.
CountFails(s) ==
    LET c == loop[s].row IN
    /\ loop[s].pc = "read" /\ UserOf[c] \notin has
    /\ fails' \in {fails, Counted(c)}
    /\ LoopGoes(s, "release")
    /\ UNCHANGED <<books, aged, lock, row, task>>

\* Fault: the UPDATE forgets that the placeholder may have been settled.
VoidAnyway(s) ==
    /\ loop[s].pc = "void"
    /\ order' = [order EXCEPT ![loop[s].row].status = "failed"]
    /\ LoopGoes(s, "release")
    /\ UNCHANGED <<has, opening, balance, ledger, topups, aged, fails, lock, row, task>>

\* _void_order, on a connection of its own.
VoidOrder(s) ==
    LET c == loop[s].row IN
    /\ loop[s].pc = "void"
    /\ order' = IF c \in Pending THEN [order EXCEPT ![c].status = "failed"] ELSE order
    /\ LoopGoes(s, "release")
    /\ UNCHANGED <<has, opening, balance, ledger, topups, aged, fails, lock, row, task>>

\* Fault: the number of updated rows is not looked at.
SettleAgain(c) == TRUE

\* UPDATE ... WHERE status = 'pending' finds the placeholder.
StillPending(c) == order[c].status = "pending"

\* The rest of _settle_one: order, balance and log in one commit. A wallet with
\* nothing in it settles the placeholder at zero, without a log.
SettlePlaceholder(s) ==
    LET c == loop[s].row
        amount == ActualDeduct(Cost[c], loop[s].before) IN
    /\ loop[s].pc = "apply" /\ StillPending(c)
    /\ order' = [order EXCEPT ![c] = [status |-> "success", amount |-> amount]]
    /\ \/ amount = 0 /\ UNCHANGED <<balance, ledger>>
       \/ amount # 0 /\ Take(c, amount)
    /\ FreeRow(s)
    /\ LoopGoes(s, "release")
    /\ UNCHANGED <<has, opening, topups, aged, fails, lock, task>>

\* Settled by another loop: the transaction rolls back.
SettledByOther(s) ==
    /\ loop[s].pc = "apply" /\ ~StillPending(loop[s].row)
    /\ FreeRow(s)
    /\ LoopGoes(s, "release")
    /\ UNCHANGED <<books, aged, fails, lock, task>>

ReleaseRow(s) ==
    LET u == UserOf[loop[s].row] IN
    /\ loop[s].pc = "release"
    /\ lock' \in {lock, [lock EXCEPT ![u] = IF @ = s THEN Unlocked ELSE @]}
    /\ loop' = [loop EXCEPT ![s] = [@ EXCEPT !.pc = "rows", !.row = Unlocked, !.before = 0]]
    /\ UNCHANGED <<books, aged, fails, row, task>>

EndRound(s) ==
    /\ loop[s].pc = "rows" /\ loop[s].batch = {}
    /\ loop' = [loop EXCEPT ![s] = IdleLoop]
    /\ UNCHANGED <<books, aged, fails, lock, row, task>>

\* An error while settling a row: rollback, then the next row.
RowFails(s) ==
    /\ loop[s].pc \in {"read", "apply", "void"}
    /\ FreeRow(s)
    /\ LoopGoes(s, "release")
    /\ UNCHANGED <<books, aged, fails, lock, task>>

LoopDies(s) ==
    /\ loop[s].pc # "idle"
    /\ loop' = [loop EXCEPT ![s] = IdleLoop]
    /\ FreeRow(s)
    /\ UNCHANGED <<books, aged, fails, lock, task>>

-----------------------------------------------------------------------------
(* The surroundings. *)

\* _locked_wallet_change of a recharge: it waits for the row and creates it.
TopUp(u) ==
    /\ topups[u] < MaxTopUps /\ row[u] = Unlocked
    /\ has' = has \cup {u}
    /\ balance' = [balance EXCEPT ![u] = @ + 1]
    /\ ledger' = [ledger EXCEPT ![u] = Append(@, [by |-> Unlocked, before |-> balance[u],
                                                  after |-> balance[u] + 1])]
    /\ topups' = [topups EXCEPT ![u] = @ + 1]
    /\ UNCHANGED <<opening, order, aged, fails, lock, row, task, loop>>

\* Fault: the key is set without a time to live.
LockStays(u) == FALSE /\ UNCHANGED deductionVars

\* The 10 s of a wallet lock run out, or Redis loses it.
LockExpires(u) ==
    /\ lock[u] # Unlocked
    /\ lock' = [lock EXCEPT ![u] = Unlocked]
    /\ UNCHANGED <<books, aged, fails, row, task, loop>>

PlaceholderAges(c) ==
    /\ c \in Pending \ aged
    /\ aged' = aged \cup {c}
    /\ UNCHANGED <<books, fails, lock, row, task, loop>>

TaskStep(c) ==
    \/ AcquireWalletLock(c) \/ DeferDeduction(c) \/ ReadWallet(c) \/ ApplyDeduction(c)
    \/ ReleaseWalletLock(c)

LoopStep(s) ==
    \/ LockWalletRow(s) \/ CountMissingWallet(s) \/ VoidOrder(s) \/ SettlePlaceholder(s)
    \/ SettledByOther(s) \/ ReleaseRow(s) \/ EndRound(s)

DeductionNext ==
    \/ \E c \in Charges :
          TaskStep(c) \/ DeductionFails(c) \/ TaskDies(c) \/ PlaceholderAges(c)
    \/ \E s \in Settlers :
          \/ SelectPending(s) \/ LoopStep(s) \/ RowFails(s) \/ LoopDies(s) \/ CountFails(s)
          \/ \E c \in Charges : TryRow(s, c)
    \/ \E u \in Users : TopUp(u) \/ LockExpires(u)

DeductionSpec == DeductionInit /\ [][DeductionNext]_deductionVars

\* An error or the end of a process, where it makes a difference.
DeductionFailure ==
    \/ \E c \in Charges : (DeductionFails(c) \/ TaskDies(c)) /\ ~TaskStep(c)
    \/ \E s \in Settlers :
          (RowFails(s) \/ LoopDies(s) \/ (CountFails(s) /\ fails' = fails)) /\ ~LoopStep(s)

\* Statements end, placeholders age, locks lapse, the loops come round. Failures
\* come to an end, at any time; nothing makes a charging task start or end well.
DeductionFairness ==
    /\ \A c \in Charges : WF_deductionVars(TaskStep(c)) /\ WF_deductionVars(PlaceholderAges(c))
    /\ \A u \in Users : WF_deductionVars(LockExpires(u))
    /\ \A s \in Settlers :
          /\ WF_deductionVars(SelectPending(s)) /\ WF_deductionVars(LoopStep(s))
          /\ WF_deductionVars(\E c \in Charges : TryRow(s, c))
    /\ <>[][~DeductionFailure]_deductionVars

DeductionFairSpec == DeductionSpec /\ DeductionFairness

-----------------------------------------------------------------------------
(* Properties. *)

DeductionTypeOK ==
    /\ has \subseteq Users /\ opening \in [Users -> Openings]
    /\ balance \in [Users -> Int]
    /\ ledger \in [Users -> Seq([by : Charges \cup {Unlocked}, before : Int, after : Int])]
    /\ order \in [Charges -> [status : OrderStatuses, amount : Nat]]
    /\ aged \subseteq Charges
    /\ fails \in [Charges -> 0..MaxFails]
    /\ topups \in [Users -> 0..MaxTopUps]
    /\ lock \in [Users -> Actors \cup {Unlocked}]
    /\ row \in [Users -> Actors \cup {Unlocked}]
    /\ task \in [Charges -> [pc : TaskSteps, before : Int]]
    /\ loop \in [Settlers -> [pc : LoopSteps, batch : SUBSET Charges,
                              row : Charges \cup {Unlocked}, before : Int]]

\* No interleaving of charges, settlements and lapsing locks takes a wallet below
\* zero, or further below zero when it started there.
NoOverdraft ==
    \A u \in Users : balance[u] >= 0 \/ balance[u] >= opening[u]

\* The log of a wallet is a chain: each entry starts from the balance where the
\* one before ended, and the last one ends at the wallet's balance.
LedgerChains ==
    \A u \in Users :
        LET log == ledger[u] IN
        /\ log = <<>> => balance[u] = opening[u]
        /\ log # <<>> => log[1].before = opening[u] /\ log[Len(log)].after = balance[u]
        /\ \A i \in 1..(Len(log) - 1) : log[i].after = log[i + 1].before

EntriesOf(c) == {i \in 1..Len(ledger[UserOf[c]]) : ledger[UserOf[c]][i].by = c}

\* A charge is taken from the wallet once if its order is booked with an amount,
\* by that amount, and not at all otherwise.
ChargedOnce ==
    \A c \in Charges :
        LET log == ledger[UserOf[c]] IN
        IF order[c].status = "success" /\ order[c].amount > 0
        THEN \E i \in EntriesOf(c) :
                /\ EntriesOf(c) = {i}
                /\ log[i].before - log[i].after = order[c].amount
        ELSE EntriesOf(c) = {}

\* What wallet, log and order say of a charge agrees, whatever interleaves: no
\* overdraft, an unbroken log, and each charge booked once.
LedgerIsSound == DeductionTypeOK /\ NoOverdraft /\ LedgerChains /\ ChargedOnce

\* A deferred charge does not stay a placeholder for ever.
DeferredIsDecided ==
    \A c \in Charges : []<>(order[c].status # "pending")

Ideal == INSTANCE IdealWallet WITH
    paid <- [c \in Charges |-> CASE order[c].status = "success" -> "paid"
                                 [] order[c].status = "failed" -> "void"
                                 [] OTHER -> "open"]

\* Charging implements the wallet that takes each charge at most once, as far as
\* the balance goes at that moment.
ImplementsIdeal == Ideal!Spec
=============================================================================
