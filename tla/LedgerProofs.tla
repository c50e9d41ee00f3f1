---------------------------- MODULE LedgerProofs ----------------------------
(***************************************************************************)
(* Proofs about the three parts of MCLedger, which share no state: the     *)
(* charging of tokens, the journal of changes and the circuit breaker.     *)
(***************************************************************************)
EXTENDS Deduction, CdcPipeline, CircuitBreaker, SetFacts, SequenceTheorems, FiniteSetTheorems, TLAPS

-----------------------------------------------------------------------------
(* Deduction, for every number of users, charges, loops and recharges, and *)
(* for every price and opening balance.                                    *)

LogRows == [by : Charges \cup {Unlocked}, before : Int, after : Int]
OrderRows == [status : OrderStatuses, amount : Nat]
TaskRows == [pc : TaskSteps, before : Int]
LoopRows == [pc : LoopSteps, batch : SUBSET Charges, row : Charges \cup {Unlocked},
             before : Int]

\* The type invariant in its two halves: what is booked, and who does what.
BookTypes ==
    /\ has \subseteq Users /\ opening \in [Users -> Openings]
    /\ balance \in [Users -> Int]
    /\ ledger \in [Users -> Seq(LogRows)]
    /\ order \in [Charges -> OrderRows]

ActorTypes ==
    /\ aged \subseteq Charges
    /\ fails \in [Charges -> 0..MaxFails]
    /\ topups \in [Users -> 0..MaxTopUps]
    /\ lock \in [Users -> Actors \cup {Unlocked}]
    /\ row \in [Users -> Actors \cup {Unlocked}]
    /\ task \in [Charges -> TaskRows]
    /\ loop \in [Settlers -> LoopRows]

\* A task still at work has no order yet; about to charge, it holds the row of the
\* wallet and so still knows its balance.
TaskSound(c) ==
    /\ task[c].pc \in {"lock", "defer", "read", "apply"} => order[c].status = "none"
    /\ task[c].pc = "apply" => row[UserOf[c]] = c /\ task[c].before = balance[UserOf[c]]

\* What a loop has selected was deferred, so that its task is past deciding; about
\* to settle, the loop holds the row of the wallet as well.
LoopSound(s) ==
    LET c == loop[s].row IN
    /\ \A d \in loop[s].batch : order[d].status # "none"
    /\ loop[s].pc \in {"read", "apply", "void", "release"} =>
         c \in Charges /\ order[c].status # "none"
    /\ loop[s].pc = "apply" => row[UserOf[c]] = s /\ loop[s].before = balance[UserOf[c]]

ActorsSound == (\A c \in Charges : TaskSound(c)) /\ (\A s \in Settlers : LoopSound(s))

Inductive ==
    /\ BookTypes /\ ActorTypes
    /\ ActorsSound
    /\ NoOverdraft /\ LedgerChains /\ ChargedOnce

-----------------------------------------------------------------------------
(* What the steps do to the books, whoever takes them.                     *)

StillOpen(c) == order[c].status \in {"none", "pending"}

BooksRest == UNCHANGED <<opening, balance, ledger, order>>

Defers(c) ==
    /\ order[c].status = "none"
    /\ order' = [order EXCEPT ![c] = [status |-> "pending", amount |-> Cost[c]]]
    /\ UNCHANGED <<opening, balance, ledger>>

Voids(c) ==
    /\ order[c].status = "pending"
    /\ order' = [order EXCEPT ![c].status = "failed"]
    /\ UNCHANGED <<opening, balance, ledger>>

Pays(c, amount) ==
    /\ StillOpen(c)
    /\ amount = ActualDeduct(Cost[c], balance[UserOf[c]])
    /\ order' = [order EXCEPT ![c] = [status |-> "success", amount |-> amount]]
    /\ IF amount = 0 THEN UNCHANGED <<balance, ledger>> ELSE Take(c, amount)
    /\ UNCHANGED opening

Grows(u) ==
    /\ balance' = [balance EXCEPT ![u] = @ + 1]
    /\ ledger' = [ledger EXCEPT ![u] = Append(@, [by |-> Unlocked, before |-> balance[u],
                                                  after |-> balance[u] + 1])]
    /\ UNCHANGED <<opening, order>>

BookStep ==
    \/ BooksRest
    \/ \E c \in Charges : Defers(c) \/ Voids(c) \/ \E amount \in Nat : Pays(c, amount)
    \/ \E u \in Users : Grows(u)

LEMMA TypesSplit == DeductionTypeOK <=> BookTypes /\ ActorTypes
  BY DEF DeductionTypeOK, BookTypes, ActorTypes, LogRows, OrderRows, TaskRows, LoopRows

\* What is taken is a natural number and leaves a wallet with something in it at
\* zero or above; nothing is taken from one without.
LEMMA DeductBounds ==
  ASSUME NEW price \in Nat, NEW b \in Int
  PROVE  /\ ActualDeduct(price, b) \in Nat
         /\ ActualDeduct(price, b) # 0 => b > 0 /\ b - ActualDeduct(price, b) >= 0
  BY DEF ActualDeduct

LEMMA InitInductive == DeductionInit => Inductive
  <1> SUFFICES ASSUME DeductionInit PROVE Inductive
    OBVIOUS
  <1> USE DeductionAssumption DEF DeductionInit
  <1>1. BookTypes
    <2>1. balance \in [Users -> Int]
      OBVIOUS
    <2>2. <<>> \in Seq(LogRows)
      OBVIOUS
    <2> QED BY <2>1, <2>2 DEF BookTypes, OrderRows, OrderStatuses
  <1>2. ActorTypes
    BY DEF ActorTypes, TaskRows, TaskSteps, LoopRows, LoopSteps, IdleLoop
  <1>3. ActorsSound
    BY DEF ActorsSound, TaskSound, LoopSound, IdleLoop
  <1>4. NoOverdraft
    <2>1. \A u \in Users : balance[u] = opening[u] /\ balance[u] \in Int
      BY <1>1 DEF BookTypes
    <2> QED BY <2>1 DEF NoOverdraft
  <1>5. LedgerChains
    BY DEF LedgerChains
  <1>6. ChargedOnce
    BY DEF ChargedOnce, EntriesOf
  <1> QED BY <1>1, <1>2, <1>3, <1>4, <1>5, <1>6 DEF Inductive

-----------------------------------------------------------------------------
(* Every step is one of these.                                             *)

LEMMA StepShape ==
  ASSUME Inductive, DeductionNext
  PROVE  BookStep
  <1> USE DEF BookStep
  <1>1. ASSUME NEW c \in Charges, TaskStep(c)
        PROVE  BookStep
    <2>1. CASE AcquireWalletLock(c) \/ ReadWallet(c) \/ ReleaseWalletLock(c)
      BY <2>1 DEF AcquireWalletLock, ReadWallet, ReleaseWalletLock, books, BooksRest
    <2>2. CASE DeferDeduction(c)
      BY <2>2 DEF DeferDeduction, Defers, Inductive, ActorsSound, TaskSound
    <2>3. CASE ApplyDeduction(c)
      <3> DEFINE amount == ActualDeduct(Cost[c], task[c].before)
      <3>1. /\ order[c].status = "none" /\ task[c].before = balance[UserOf[c]]
            /\ UserOf[c] \in Users /\ balance[UserOf[c]] \in Int
        BY <2>3, DeductionAssumption
           DEF ApplyDeduction, Inductive, ActorsSound, TaskSound, BookTypes
      <3>2. amount \in Nat
        BY <3>1, DeductBounds, DeductionAssumption
      <3>3. CASE amount = 0
        BY <2>3, <3>3 DEF ApplyDeduction, BooksRest
      <3>4. CASE amount # 0
        <4>1. Pays(c, amount)
          BY <2>3, <3>1, <3>4 DEF ApplyDeduction, Pays, StillOpen
        <4> QED BY <3>2, <4>1
      <3> QED BY <3>3, <3>4
    <2> QED BY <1>1, <2>1, <2>2, <2>3 DEF TaskStep
  <1>2. ASSUME NEW c \in Charges, DeductionFails(c) \/ TaskDies(c) \/ PlaceholderAges(c)
        PROVE  BookStep
    BY <1>2 DEF DeductionFails, TaskDies, PlaceholderAges, books, BooksRest
  <1>3. ASSUME NEW s \in Settlers, LoopStep(s)
        PROVE  BookStep
    <2>1. CASE LockWalletRow(s) \/ CountMissingWallet(s) \/ SettledByOther(s) \/ ReleaseRow(s)
               \/ EndRound(s)
      BY <2>1 DEF LockWalletRow, CountMissingWallet, SettledByOther, ReleaseRow, EndRound, books,
                  BooksRest
    <2>2. CASE VoidOrder(s)
      <3>1. loop[s].row \in Charges
        BY <2>2 DEF VoidOrder, Inductive, ActorsSound, LoopSound
      <3>2. CASE loop[s].row \in Pending
        BY <2>2, <3>1, <3>2 DEF VoidOrder, Pending, Voids
      <3>3. CASE loop[s].row \notin Pending
        BY <2>2, <3>3 DEF VoidOrder, BooksRest
      <3> QED BY <3>2, <3>3
    <2>3. CASE SettlePlaceholder(s)
      <3> DEFINE c == loop[s].row
                 amount == ActualDeduct(Cost[c], loop[s].before)
      <3>1. /\ c \in Charges /\ order[c].status = "pending"
            /\ loop[s].before = balance[UserOf[c]]
        BY <2>3 DEF SettlePlaceholder, StillPending, Inductive, ActorsSound, LoopSound
      <3>2. amount \in Nat
        <4>1. balance[UserOf[c]] \in Int /\ Cost[c] \in Nat
          BY <3>1, DeductionAssumption DEF Inductive, BookTypes
        <4> QED BY <3>1, <4>1, DeductBounds
      <3>3. Pays(c, amount)
        BY <2>3, <3>1 DEF SettlePlaceholder, Pays, StillOpen
      <3> QED BY <3>1, <3>2, <3>3
    <2> QED BY <1>3, <2>1, <2>2, <2>3 DEF LoopStep
  <1>4. ASSUME NEW s \in Settlers,
               \/ SelectPending(s) \/ RowFails(s) \/ LoopDies(s) \/ CountFails(s)
               \/ \E c \in Charges : TryRow(s, c)
        PROVE  BookStep
    BY <1>4 DEF SelectPending, RowFails, LoopDies, CountFails, TryRow, books, BooksRest
  <1>5. ASSUME NEW u \in Users, TopUp(u) \/ LockExpires(u)
        PROVE  BookStep
    BY <1>5 DEF TopUp, LockExpires, Grows, books, BooksRest
  <1> QED BY <1>1, <1>2, <1>3, <1>4, <1>5 DEF DeductionNext

-----------------------------------------------------------------------------
(* A log that grows by one entry.                                          *)

Chain(log, from, to) ==
    /\ log = <<>> => to = from
    /\ log # <<>> => log[1].before = from /\ log[Len(log)].after = to
    /\ \A i \in 1..(Len(log) - 1) : log[i].after = log[i + 1].before

EntriesBy(log, c) == {i \in 1..Len(log) : log[i].by = c}

\* An entry that starts where the log ended continues it.
LEMMA ChainGrows ==
  ASSUME NEW log \in Seq(LogRows), NEW e \in LogRows, NEW from, Chain(log, from, e.before)
  PROVE  Chain(Append(log, e), from, e.after)
  <1> DEFINE new == Append(log, e)
             n == Len(log)
  <1>1. /\ new # <<>> /\ Len(new) = n + 1 /\ n \in Nat
        /\ \A i \in 1..n : new[i] = log[i]
        /\ new[n + 1] = e
    BY AppendProperties
  <1>2. new[1].before = from
    <2>1. CASE n = 0
      <3>1. log = <<>>
        BY <2>1
      <3> QED BY <1>1, <2>1, <3>1 DEF Chain
    <2>2. CASE n # 0
      <3>1. log # <<>> /\ 1 \in 1..n
        BY <1>1, <2>2
      <3> QED BY <1>1, <3>1 DEF Chain
    <2> QED BY <2>1, <2>2
  <1>3. ASSUME NEW i \in 1..n
        PROVE  new[i].after = new[i + 1].before
    <2>1. CASE i = n
      <3>1. log # <<>>
        BY <1>1, <2>1, <1>3
      <3> QED BY <1>1, <2>1, <3>1 DEF Chain
    <2>2. CASE i # n
      <3>1. i \in 1..(n - 1) /\ i + 1 \in 1..n
        BY <1>1, <2>2, <1>3
      <3> QED BY <1>1, <3>1 DEF Chain
    <2> QED BY <2>1, <2>2
  <1> HIDE DEF new
  <1> QED BY <1>1, <1>2, <1>3 DEF Chain, new

\* It is an entry of its author, and of nobody else.
LEMMA EntriesGrow ==
  ASSUME NEW log \in Seq(LogRows), NEW e \in LogRows, NEW c
  PROVE  /\ e.by = c => EntriesBy(Append(log, e), c) = EntriesBy(log, c) \cup {Len(log) + 1}
         /\ e.by # c => EntriesBy(Append(log, e), c) = EntriesBy(log, c)
  <1> DEFINE new == Append(log, e)
             n == Len(log)
  <1>1. /\ Len(new) = n + 1 /\ n \in Nat
        /\ \A i \in 1..n : new[i] = log[i]
        /\ new[n + 1] = e
    BY AppendProperties
  <1> HIDE DEF new
  <1>2. 1..(n + 1) = (1..n) \cup {n + 1}
    BY <1>1
  <1>3. EntriesBy(new, c) = {i \in 1..n : log[i].by = c} \cup {i \in {n + 1} : e.by = c}
    BY <1>1, <1>2 DEF EntriesBy
  <1> QED BY <1>3 DEF EntriesBy, new

-----------------------------------------------------------------------------
(* The books stay sound.                                                   *)

BooksSound == NoOverdraft /\ LedgerChains /\ ChargedOnce

\* The three properties, said of one wallet or of one charge.
Solvent(u) == balance[u] >= 0 \/ balance[u] >= opening[u]
Logged(u) == Chain(ledger[u], opening[u], balance[u])

Booked(log, status, amount, c) ==
    IF status = "success" /\ amount > 0
    THEN \E i \in EntriesBy(log, c) :
            /\ EntriesBy(log, c) = {i}
            /\ log[i].before - log[i].after = amount
    ELSE EntriesBy(log, c) = {}

LEMMA BooksPiecewise ==
    /\ NoOverdraft <=> \A u \in Users : Solvent(u)
    /\ LedgerChains <=> \A u \in Users : Logged(u)
    /\ ChargedOnce <=> \A c \in Charges :
          Booked(ledger[UserOf[c]], order[c].status, order[c].amount, c)
  BY DEF NoOverdraft, Solvent, LedgerChains, Logged, Chain, ChargedOnce, Booked, EntriesOf,
         EntriesBy

\* What is booked of a charge survives an entry of somebody else.
LEMMA BookedKept ==
  ASSUME NEW log \in Seq(LogRows), NEW e \in LogRows, NEW c, NEW status, NEW amount,
         e.by # c, Booked(log, status, amount, c)
  PROVE  Booked(Append(log, e), status, amount, c)
  <1>1. EntriesBy(Append(log, e), c) = EntriesBy(log, c)
    BY EntriesGrow
  <1>2. \A i \in EntriesBy(log, c) : Append(log, e)[i] = log[i]
    BY AppendProperties DEF EntriesBy
  <1> QED BY <1>1, <1>2 DEF Booked

\* Its own entry books it.
LEMMA BookedByEntry ==
  ASSUME NEW log \in Seq(LogRows), NEW e \in LogRows, NEW amount \in Nat, amount > 0,
         NEW c, e.by = c, EntriesBy(log, c) = {}, e.before - e.after = amount
  PROVE  Booked(Append(log, e), "success", amount, c)
  <1>1. EntriesBy(Append(log, e), c) = {Len(log) + 1}
    <2>1. EntriesBy(Append(log, e), c) = EntriesBy(log, c) \cup {Len(log) + 1}
      BY EntriesGrow
    <2> QED BY <2>1
  <1>2. Append(log, e)[Len(log) + 1] = e
    BY AppendProperties
  <1> QED BY <1>1, <1>2 DEF Booked

\* Payments: the wallet keeps what it has to keep, and log and order tell the
\* same.
LEMMA PaysKeeps ==
  ASSUME Inductive, NEW c \in Charges, NEW amount \in Nat, Pays(c, amount)
  PROVE  /\ balance' \in [Users -> Int] /\ ledger' \in [Users -> Seq(LogRows)]
         /\ order' \in [Charges -> OrderRows]
         /\ BooksSound'
  <1> DEFINE u == UserOf[c]
             e == Entry(c, amount, balance[u])
  <1>1. /\ u \in Users /\ Cost[c] \in Nat /\ balance[u] \in Int
        /\ balance \in [Users -> Int] /\ ledger \in [Users -> Seq(LogRows)]
        /\ order \in [Charges -> OrderRows]
    BY DeductionAssumption DEF Inductive, BookTypes
  <1>2. order' \in [Charges -> OrderRows]
    BY <1>1 DEF Pays, OrderRows, OrderStatuses
  <1>3. /\ \A v \in Users : Solvent(v) /\ Logged(v)
        /\ \A d \in Charges : Booked(ledger[UserOf[d]], order[d].status, order[d].amount, d)
    BY BooksPiecewise DEF Inductive
  <1>4. EntriesBy(ledger[u], c) = {}
    BY <1>3 DEF Booked, Pays, StillOpen
  <1>5. /\ order'[c].status = "success" /\ order'[c].amount = amount
        /\ \A d \in Charges : d # c => order'[d] = order[d]
    BY <1>1 DEF Pays
  <1>6. CASE amount = 0
    <2>1. UNCHANGED <<opening, balance, ledger>>
      BY <1>6 DEF Pays
    <2>2. NoOverdraft' /\ LedgerChains'
      BY <2>1 DEF Inductive, NoOverdraft, LedgerChains
    <2>3. \A d \in Charges : Booked(ledger[UserOf[d]], order'[d].status, order'[d].amount, d)
      <3> TAKE d \in Charges
      <3>1. CASE d = c
        BY <1>4, <1>5, <1>6, <3>1 DEF Booked
      <3>2. CASE d # c
        BY <1>3, <1>5, <3>2
      <3> QED BY <3>1, <3>2
    <2>4. ChargedOnce'
      BY <2>1, <2>3 DEF ChargedOnce, Booked, EntriesOf, EntriesBy
    <2> QED BY <1>1, <1>2, <2>1, <2>2, <2>4 DEF BooksSound
  <1>7. CASE amount # 0
    <2>1. /\ balance' = [balance EXCEPT ![u] = balance[u] - amount]
          /\ ledger' = [ledger EXCEPT ![u] = Append(ledger[u], e)]
          /\ opening' = opening
      BY <1>7 DEF Pays, Take
    <2>2. /\ e \in LogRows /\ e.by = c /\ e.before = balance[u] /\ e.after = balance[u] - amount
          /\ e.before - e.after = amount
      BY <1>1 DEF Entry, LogRows
    <2>3. Append(ledger[u], e) \in Seq(LogRows)
      BY <1>1, <2>2, AppendProperties
    <2> HIDE DEF e
    <2>4. balance' \in [Users -> Int] /\ ledger' \in [Users -> Seq(LogRows)]
      BY <1>1, <2>1, <2>3
    <2>5. /\ balance'[u] = balance[u] - amount /\ ledger'[u] = Append(ledger[u], e)
          /\ \A v \in Users : v # u => balance'[v] = balance[v] /\ ledger'[v] = ledger[v]
      BY <1>1, <2>1
    <2>6. balance[u] - amount >= 0
      BY <1>1, <1>7, DeductBounds DEF Pays
    <2>7. \A v \in Users : balance'[v] >= 0 \/ balance'[v] >= opening[v]
      BY <1>3, <2>5, <2>6 DEF Solvent
    <2>8. \A v \in Users : Chain(ledger'[v], opening[v], balance'[v])
      <3> TAKE v \in Users
      <3>1. Chain(ledger[v], opening[v], balance[v])
        BY <1>3 DEF Logged
      <3>2. CASE v = u
        BY <1>1, <2>2, <2>5, <3>1, <3>2, ChainGrows
      <3>3. CASE v # u
        BY <2>5, <3>1, <3>3
      <3> QED BY <3>2, <3>3
    <2>9. \A d \in Charges : Booked(ledger'[UserOf[d]], order'[d].status, order'[d].amount, d)
      <3> TAKE d \in Charges
      <3>1. UserOf[d] \in Users
        BY DeductionAssumption
      <3>2. CASE d = c
        <4>1. amount > 0
          BY <1>7
        <4>2. Booked(Append(ledger[u], e), "success", amount, c)
          BY <1>1, <1>4, <2>2, <4>1, BookedByEntry
        <4>3. UserOf[d] = u /\ d = c
          BY <3>2, <1>1
        <4> QED BY <1>5, <2>5, <4>2, <4>3
      <3>3. CASE d # c /\ UserOf[d] = u
        <4>1. order'[d] = order[d] /\ Booked(ledger[u], order[d].status, order[d].amount, d)
          BY <1>3, <1>5, <3>3
        <4>2. ledger[u] \in Seq(LogRows) /\ e.by # d
          BY <1>1, <2>2, <3>3
        <4>3. Booked(Append(ledger[u], e), order[d].status, order[d].amount, d)
          BY <2>2, <4>1, <4>2, BookedKept
        <4> QED BY <2>5, <3>3, <4>1, <4>3
      <3>4. CASE d # c /\ UserOf[d] # u
        BY <1>3, <1>5, <2>5, <3>1, <3>4
      <3> QED BY <3>2, <3>3, <3>4
    <2>10. BooksSound'
      BY <2>1, <2>7, <2>8, <2>9
         DEF BooksSound, NoOverdraft, LedgerChains, Chain, ChargedOnce, Booked, EntriesOf, EntriesBy
    <2> QED BY <1>2, <2>4, <2>10
  <1> QED BY <1>6, <1>7

\* Recharges: an entry of nobody's charge, and a balance that grows.
LEMMA GrowsKeeps ==
  ASSUME Inductive, NEW u \in Users, Grows(u)
  PROVE  /\ balance' \in [Users -> Int] /\ ledger' \in [Users -> Seq(LogRows)]
         /\ order' \in [Charges -> OrderRows]
         /\ BooksSound'
  <1> DEFINE e == [by |-> Unlocked, before |-> balance[u], after |-> balance[u] + 1]
  <1>1. /\ balance[u] \in Int /\ opening[u] \in Int
        /\ balance \in [Users -> Int] /\ ledger \in [Users -> Seq(LogRows)]
        /\ order \in [Charges -> OrderRows]
    BY DeductionAssumption DEF Inductive, BookTypes
  <1>2. /\ \A v \in Users : Solvent(v) /\ Logged(v)
        /\ \A d \in Charges : Booked(ledger[UserOf[d]], order[d].status, order[d].amount, d)
    BY BooksPiecewise DEF Inductive
  <1>3. /\ balance' = [balance EXCEPT ![u] = balance[u] + 1]
        /\ ledger' = [ledger EXCEPT ![u] = Append(ledger[u], e)]
        /\ UNCHANGED <<opening, order>>
    BY DEF Grows
  <1>4. /\ u \in Users /\ e \in LogRows /\ e.before = balance[u] /\ e.after = balance[u] + 1
        /\ \A d \in Charges : e.by # d
    BY <1>1, DeductionAssumption DEF LogRows
  <1>5. Append(ledger[u], e) \in Seq(LogRows)
    BY <1>1, <1>4, AppendProperties
  <1> HIDE DEF e
  <1>6. balance' \in [Users -> Int] /\ ledger' \in [Users -> Seq(LogRows)]
    BY <1>1, <1>3, <1>5
  <1>7. /\ balance'[u] = balance[u] + 1 /\ ledger'[u] = Append(ledger[u], e)
        /\ \A v \in Users : v # u => balance'[v] = balance[v] /\ ledger'[v] = ledger[v]
    BY <1>1, <1>3
  <1>8. \A v \in Users : balance'[v] >= 0 \/ balance'[v] >= opening[v]
    <2> TAKE v \in Users
    <2>1. balance[v] >= 0 \/ balance[v] >= opening[v]
      BY <1>2 DEF Solvent
    <2>2. CASE v = u
      BY <1>1, <1>7, <2>1, <2>2
    <2>3. CASE v # u
      BY <1>7, <2>1, <2>3
    <2> QED BY <2>2, <2>3
  <1>9. \A v \in Users : Chain(ledger'[v], opening[v], balance'[v])
    <2> TAKE v \in Users
    <2>1. Chain(ledger[v], opening[v], balance[v])
      BY <1>2 DEF Logged
    <2>2. CASE v = u
      <3>1. ledger[u] \in Seq(LogRows)
        BY <1>1
      <3>2. Chain(Append(ledger[u], e), opening[u], e.after)
        BY <1>4, <2>1, <2>2, <3>1, ChainGrows
      <3> QED BY <1>4, <1>7, <2>2, <3>2
    <2>3. CASE v # u
      BY <1>7, <2>1, <2>3
    <2> QED BY <2>2, <2>3
  <1>10. \A d \in Charges : Booked(ledger'[UserOf[d]], order[d].status, order[d].amount, d)
    <2> TAKE d \in Charges
    <2>1. UserOf[d] \in Users
      BY DeductionAssumption
    <2>2. CASE UserOf[d] = u
      <3>1. ledger[u] \in Seq(LogRows) /\ e.by # d
        BY <1>1, <1>4
      <3>2. Booked(Append(ledger[u], e), order[d].status, order[d].amount, d)
        BY <1>2, <1>4, <2>2, <3>1, BookedKept
      <3> QED BY <1>7, <2>2, <3>2
    <2>3. CASE UserOf[d] # u
      BY <1>2, <1>7, <2>1, <2>3
    <2> QED BY <2>2, <2>3
  <1>11. BooksSound'
    BY <1>3, <1>8, <1>9, <1>10
       DEF BooksSound, NoOverdraft, LedgerChains, Chain, ChargedOnce, Booked, EntriesOf, EntriesBy
  <1> QED BY <1>1, <1>3, <1>6, <1>11

\* Placeholders: an order that is neither booked before nor after.
LEMMA MarksKeep ==
  ASSUME Inductive, NEW c \in Charges, Defers(c) \/ Voids(c)
  PROVE  order' \in [Charges -> OrderRows] /\ BooksSound'
  <1>1. order \in [Charges -> OrderRows] /\ Cost[c] \in Nat
    BY DeductionAssumption DEF Inductive, BookTypes
  <1>2. /\ order' \in [Charges -> OrderRows]
        /\ order[c].status # "success" /\ order'[c].status # "success"
        /\ \A d \in Charges : d # c => order'[d] = order[d]
    BY <1>1 DEF Defers, Voids, OrderRows, OrderStatuses
  <1>3. UNCHANGED <<opening, balance, ledger>>
    BY DEF Defers, Voids
  <1>4. \A d \in Charges : Booked(ledger[UserOf[d]], order[d].status, order[d].amount, d)
    BY BooksPiecewise DEF Inductive
  <1>5. \A d \in Charges : Booked(ledger[UserOf[d]], order'[d].status, order'[d].amount, d)
    <2> TAKE d \in Charges
    <2>1. CASE d = c
      BY <1>2, <1>4, <2>1 DEF Booked
    <2>2. CASE d # c
      BY <1>2, <1>4, <2>2
    <2> QED BY <2>1, <2>2
  <1>6. ChargedOnce'
    BY <1>3, <1>5 DEF ChargedOnce, Booked, EntriesOf, EntriesBy
  <1>7. NoOverdraft' /\ LedgerChains'
    BY <1>3 DEF Inductive, NoOverdraft, LedgerChains
  <1> QED BY <1>2, <1>6, <1>7 DEF BooksSound

LEMMA BooksKept ==
  ASSUME Inductive, BookStep, has' \subseteq Users
  PROVE  BookTypes' /\ BooksSound'
  <1>1. UNCHANGED opening
    BY DEF BookStep, BooksRest, Defers, Voids, Pays, Grows
  <1>2. /\ balance' \in [Users -> Int] /\ ledger' \in [Users -> Seq(LogRows)]
        /\ order' \in [Charges -> OrderRows]
        /\ BooksSound'
    <2>1. CASE BooksRest
      BY <2>1 DEF BooksRest, Inductive, BookTypes, BooksSound, NoOverdraft, LedgerChains, ChargedOnce,
                  EntriesOf
    <2>2. CASE \E c \in Charges : Defers(c) \/ Voids(c)
      <3> PICK c \in Charges : Defers(c) \/ Voids(c)
        BY <2>2
      <3>1. UNCHANGED <<balance, ledger>>
        BY DEF Defers, Voids
      <3> QED BY <3>1, MarksKeep DEF Inductive, BookTypes
    <2>3. CASE \E c \in Charges : \E amount \in Nat : Pays(c, amount)
      BY <2>3, PaysKeeps
    <2>4. CASE \E u \in Users : Grows(u)
      BY <2>4, GrowsKeeps
    <2> QED BY <2>1, <2>2, <2>3, <2>4 DEF BookStep
  <1> QED BY <1>1, <1>2 DEF Inductive, BookTypes

-----------------------------------------------------------------------------
(* The actors stay sound.                                                  *)

\* A step of one actor disturbs no other: it changes no wallet whose row another
\* one holds, frees no such row, decides nothing that another task is still to
\* decide, and nothing that was decided is forgotten.
LEMMA OthersSound ==
  ASSUME Inductive, NEW p,
         \A c \in Charges : c # p => task'[c] = task[c],
         \A s \in Settlers : s # p => loop'[s] = loop[s],
         \A u \in Users : row[u] \notin {p, Unlocked} => row'[u] = row[u] /\ balance'[u] = balance[u],
         \A c \in Charges : c # p /\ order[c].status = "none" => order'[c].status = "none",
         \A c \in Charges : order[c].status # "none" => order'[c].status # "none"
  PROVE  /\ \A c \in Charges : c # p => TaskSound(c)'
         /\ \A s \in Settlers : s # p => LoopSound(s)'
  <1>1. ASSUME NEW c \in Charges, c # p
        PROVE  TaskSound(c)'
    <2>1. TaskSound(c) /\ UserOf[c] \in Users /\ c # Unlocked
      BY DeductionAssumption DEF Inductive, ActorsSound
    <2> QED BY <1>1, <2>1 DEF TaskSound
  <1>2. ASSUME NEW s \in Settlers, s # p
        PROVE  LoopSound(s)'
    <2>1. /\ LoopSound(s) /\ s # Unlocked /\ loop[s].batch \subseteq Charges
          /\ loop'[s] = loop[s]
      BY <1>2, DeductionAssumption DEF Inductive, ActorsSound, ActorTypes, LoopRows
    <2>2. loop[s].pc = "apply" => UserOf[loop[s].row] \in Users
      BY <2>1, DeductionAssumption DEF LoopSound
    <2> QED BY <1>2, <2>1, <2>2 DEF LoopSound
  <1> QED BY <1>1, <1>2

LEMMA RowFreed ==
  ASSUME Inductive, NEW p \in Actors, FreeRow(p)
  PROVE  /\ row' \in [Users -> Actors \cup {Unlocked}]
         /\ \A u \in Users : row[u] # p => row'[u] = row[u]
  BY DEF Inductive, ActorTypes, FreeRow

LEMMA TaskMoved ==
  ASSUME Inductive, NEW c \in Charges, NEW pc \in TaskSteps, TaskGoes(c, pc)
  PROVE  /\ task' \in [Charges -> TaskRows] /\ task'[c].pc = pc
         /\ \A d \in Charges : d # c => task'[d] = task[d]
  <1> DEFINE q == [task[c] EXCEPT !.pc = pc]
  <1>1. task \in [Charges -> TaskRows] /\ task[c] \in TaskRows
    BY DEF Inductive, ActorTypes
  <1>2. q \in TaskRows /\ q.pc = pc
    BY <1>1 DEF TaskRows
  <1>3. task' = [task EXCEPT ![c] = q]
    BY DEF TaskGoes
  <1> HIDE DEF q
  <1> QED BY <1>1, <1>2, <1>3

LEMMA LoopMoved ==
  ASSUME Inductive, NEW s \in Settlers, NEW pc \in LoopSteps, LoopGoes(s, pc)
  PROVE  /\ loop' \in [Settlers -> LoopRows] /\ loop'[s].pc = pc
         /\ loop'[s].row = loop[s].row /\ loop'[s].batch = loop[s].batch
         /\ \A r \in Settlers : r # s => loop'[r] = loop[r]
  <1> DEFINE q == [loop[s] EXCEPT !.pc = pc]
  <1>1. loop \in [Settlers -> LoopRows] /\ loop[s] \in LoopRows
    BY DEF Inductive, ActorTypes
  <1>2. q \in LoopRows /\ q.pc = pc /\ q.row = loop[s].row /\ q.batch = loop[s].batch
    BY <1>1 DEF LoopRows
  <1>3. loop' = [loop EXCEPT ![s] = q]
    BY DEF LoopGoes
  <1> HIDE DEF q
  <1> QED BY <1>1, <1>2, <1>3

\* The steps of a charging task.
LEMMA TaskKeeps ==
  ASSUME Inductive, NEW c \in Charges, TaskStep(c) \/ DeductionFails(c) \/ TaskDies(c)
  PROVE  ActorTypes' /\ ActorsSound' /\ has' \subseteq Users
  <1> DEFINE u == UserOf[c]
  <1>1. /\ u \in Users /\ c \in Actors /\ c # Unlocked /\ c \notin Settlers
        /\ TaskSound(c) /\ balance[u] \in Int /\ Cost[c] \in Nat
    BY DeductionAssumption DEF Inductive, ActorsSound, BookTypes, Actors
  <1>2. /\ balance \in [Users -> Int] /\ order \in [Charges -> OrderRows] /\ has \subseteq Users
        /\ aged \subseteq Charges /\ fails \in [Charges -> 0..MaxFails]
        /\ topups \in [Users -> 0..MaxTopUps]
        /\ lock \in [Users -> Actors \cup {Unlocked}]
        /\ row \in [Users -> Actors \cup {Unlocked}]
        /\ task \in [Charges -> TaskRows] /\ loop \in [Settlers -> LoopRows]
    BY DEF Inductive, BookTypes, ActorTypes
  <1>3. UNCHANGED <<aged, fails, topups, loop>>
    BY DEF TaskStep, AcquireWalletLock, DeferDeduction, ReadWallet, ApplyDeduction,
           ReleaseWalletLock, DeductionFails, TaskDies, books
  <1>4. /\ has' \subseteq Users
        /\ lock' \in [Users -> Actors \cup {Unlocked}]
    BY <1>1, <1>2 DEF TaskStep, AcquireWalletLock, DeferDeduction, ReadWallet, ApplyDeduction,
           ReleaseWalletLock, DeductionFails, TaskDies, books
  <1>5. /\ row' \in [Users -> Actors \cup {Unlocked}]
        /\ \A v \in Users : row[v] \notin {c, Unlocked} => row'[v] = row[v]
    <2>1. CASE ReadWallet(c)
      BY <1>1, <1>2, <2>1 DEF ReadWallet
    <2>2. CASE FreeRow(c)
      BY <1>1, <2>2, RowFreed
    <2>3. CASE UNCHANGED row
      BY <1>2, <2>3
    <2> QED BY <2>1, <2>2, <2>3 DEF TaskStep, AcquireWalletLock, DeferDeduction, ApplyDeduction,
           ReleaseWalletLock, DeductionFails, TaskDies
  <1>6. /\ \A v \in Users : row[v] # c => balance'[v] = balance[v]
        /\ \A d \in Charges : d # c => order'[d] = order[d]
        /\ order[c].status # "none" => order'[c].status # "none"
    <2>1. CASE DeferDeduction(c)
      BY <1>2, <2>1 DEF DeferDeduction
    <2>2. CASE ApplyDeduction(c)
      <3>1. row[u] = c
        BY <1>1, <2>2 DEF ApplyDeduction, TaskSound
      <3> QED BY <1>2, <2>2, <3>1 DEF ApplyDeduction, Take
    <2>3. CASE UNCHANGED <<balance, order>>
      BY <2>3
    <2> QED BY <2>1, <2>2, <2>3 DEF TaskStep, AcquireWalletLock, ReadWallet, ReleaseWalletLock,
           DeductionFails, TaskDies, books
  <1>7. /\ task' \in [Charges -> TaskRows] /\ TaskSound(c)'
        /\ \A d \in Charges : d # c => task'[d] = task[d]
    <2>1. CASE ReadWallet(c)
      <3> DEFINE q == [pc |-> "apply", before |-> balance[u]]
      <3>1. q \in TaskRows /\ q.pc = "apply" /\ q.before = balance[u]
        BY <1>1 DEF TaskRows, TaskSteps
      <3>2. /\ task' = [task EXCEPT ![c] = q] /\ row' = [row EXCEPT ![u] = c]
            /\ UNCHANGED <<balance, order>> /\ task[c].pc = "read"
        BY <2>1 DEF ReadWallet, books
      <3> HIDE DEF q
      <3> QED BY <1>1, <1>2, <3>1, <3>2 DEF TaskSound
    <2>2. CASE AcquireWalletLock(c)
      <3>1. PICK pc \in {"read", "defer"} : TaskGoes(c, pc)
        BY <2>2 DEF AcquireWalletLock
      <3>2. pc \in TaskSteps
        BY DEF TaskSteps
      <3>3. /\ task' \in [Charges -> TaskRows] /\ task'[c].pc = pc
            /\ \A d \in Charges : d # c => task'[d] = task[d]
        BY <3>1, <3>2, TaskMoved
      <3>4. order' = order /\ order[c].status = "none"
        BY <1>1, <2>2 DEF AcquireWalletLock, books, TaskSound
      <3> QED BY <3>3, <3>4 DEF TaskSound
    <2>3. CASE \E pc \in {"release", "done"} : TaskGoes(c, pc)
      <3> PICK pc \in {"release", "done"} : TaskGoes(c, pc)
        BY <2>3
      <3>1. pc \in TaskSteps
        BY DEF TaskSteps
      <3>2. /\ task' \in [Charges -> TaskRows] /\ task'[c].pc = pc
            /\ \A d \in Charges : d # c => task'[d] = task[d]
        BY <3>1, TaskMoved
      <3> QED BY <3>2 DEF TaskSound
    <2> QED BY <2>1, <2>2, <2>3 DEF TaskStep, DeferDeduction, ApplyDeduction, ReleaseWalletLock,
           DeductionFails, TaskDies
  <1>8. ActorTypes'
    BY <1>2, <1>3, <1>4, <1>5, <1>7 DEF ActorTypes
  <1>9. \A d \in Charges : d # c => TaskSound(d)'
    BY <1>3, <1>5, <1>6, <1>7, OthersSound
  <1>10. \A s \in Settlers : LoopSound(s)'
    BY <1>1, <1>3, <1>5, <1>6, <1>7, OthersSound
  <1> QED BY <1>4, <1>7, <1>8, <1>9, <1>10 DEF ActorsSound

LoopMoves(s) ==
    \/ LoopStep(s) \/ SelectPending(s) \/ RowFails(s) \/ LoopDies(s) \/ CountFails(s)
    \/ \E c \in Charges : TryRow(s, c)

\* The steps of a settlement loop.
LEMMA LoopKeeps ==
  ASSUME Inductive, NEW s \in Settlers, LoopMoves(s)
  PROVE  ActorTypes' /\ ActorsSound' /\ has' \subseteq Users
  <1> DEFINE c == loop[s].row
             u == UserOf[c]
  <1>1. /\ s \in Actors /\ s # Unlocked /\ s \notin Charges
        /\ LoopSound(s) /\ loop[s] \in LoopRows
        /\ c \in Charges => u \in Users /\ balance[u] \in Int
    BY DeductionAssumption DEF Inductive, ActorsSound, BookTypes, ActorTypes, Actors
  <1>2. /\ balance \in [Users -> Int] /\ order \in [Charges -> OrderRows] /\ has \subseteq Users
        /\ aged \subseteq Charges /\ fails \in [Charges -> 0..MaxFails]
        /\ topups \in [Users -> 0..MaxTopUps]
        /\ lock \in [Users -> Actors \cup {Unlocked}]
        /\ row \in [Users -> Actors \cup {Unlocked}]
        /\ task \in [Charges -> TaskRows] /\ loop \in [Settlers -> LoopRows]
    BY DEF Inductive, BookTypes, ActorTypes
  <1>3. UNCHANGED <<has, aged, topups, task>>
    BY DEF LoopMoves, LoopStep, LockWalletRow, CountMissingWallet, VoidOrder, SettlePlaceholder,
           SettledByOther, ReleaseRow, EndRound, SelectPending, RowFails, LoopDies, CountFails,
           TryRow, books
  <1>4. lock' \in [Users -> Actors \cup {Unlocked}]
    BY <1>1, <1>2 DEF LoopMoves, LoopStep, LockWalletRow, CountMissingWallet, VoidOrder,
           SettlePlaceholder, SettledByOther, ReleaseRow, EndRound, SelectPending, RowFails,
           LoopDies, CountFails, TryRow
  <1>5. fails' \in [Charges -> 0..MaxFails]
    <2>1. CASE CountMissingWallet(s) \/ CountFails(s)
      <3>1. \A n \in 0..MaxFails : (IF n < MaxFails THEN n + 1 ELSE MaxFails) \in 0..MaxFails
        BY DeductionAssumption
      <3>2. Counted(c) \in [Charges -> 0..MaxFails]
        BY <1>2, <3>1 DEF Counted
      <3> QED BY <1>2, <2>1, <3>2 DEF CountMissingWallet, CountFails
    <2>2. CASE ~(CountMissingWallet(s) \/ CountFails(s))
      BY <1>2, <2>2 DEF LoopMoves, LoopStep, LockWalletRow, VoidOrder, SettlePlaceholder,
             SettledByOther, ReleaseRow, EndRound, SelectPending, RowFails, LoopDies, TryRow
    <2> QED BY <2>1, <2>2
  <1>6. /\ row' \in [Users -> Actors \cup {Unlocked}]
        /\ \A v \in Users : row[v] \notin {s, Unlocked} => row'[v] = row[v]
    <2>1. CASE LockWalletRow(s)
      BY <1>1, <1>2, <2>1 DEF LockWalletRow
    <2>2. CASE FreeRow(s)
      BY <1>1, <2>2, RowFreed
    <2>3. CASE UNCHANGED row
      BY <1>2, <2>3
    <2> QED BY <2>1, <2>2, <2>3 DEF LoopMoves, LoopStep, CountMissingWallet, VoidOrder,
           SettlePlaceholder, SettledByOther, ReleaseRow, EndRound, SelectPending, RowFails,
           LoopDies, CountFails, TryRow
  <1>7. /\ \A v \in Users : row[v] # s => balance'[v] = balance[v]
        /\ \A d \in Charges : order'[d].status = "none" <=> order[d].status = "none"
    <2>1. CASE VoidOrder(s)
      BY <1>2, <2>1 DEF VoidOrder, Pending, OrderRows
    <2>2. CASE SettlePlaceholder(s)
      <3>1. c \in Charges /\ row[u] = s /\ order[c].status = "pending"
        BY <1>1, <2>2 DEF SettlePlaceholder, StillPending, LoopSound
      <3> QED BY <1>2, <2>2, <3>1 DEF SettlePlaceholder, Take
    <2>3. CASE UNCHANGED <<balance, order>>
      BY <2>3
    <2> QED BY <2>1, <2>2, <2>3 DEF LoopMoves, LoopStep, LockWalletRow, CountMissingWallet,
           SettledByOther, ReleaseRow, EndRound, SelectPending, RowFails, LoopDies, CountFails,
           TryRow, books
  <1>8. /\ loop' \in [Settlers -> LoopRows] /\ LoopSound(s)'
        /\ \A r \in Settlers : r # s => loop'[r] = loop[r]
    <2>1. CASE \E pc \in {"void", "release"} : LoopGoes(s, pc) /\ loop[s].pc \in {"read", "apply", "void"}
      <3> PICK pc \in {"void", "release"} : LoopGoes(s, pc)
        BY <2>1
      <3>1. pc \in LoopSteps
        BY DEF LoopSteps
      <3>2. /\ loop' \in [Settlers -> LoopRows] /\ loop'[s].pc = pc
            /\ loop'[s].row = c /\ loop'[s].batch = loop[s].batch
            /\ \A r \in Settlers : r # s => loop'[r] = loop[r]
        BY <3>1, LoopMoved
      <3>3. c \in Charges /\ loop[s].batch \subseteq Charges
        BY <1>1, <2>1 DEF LoopSound, LoopRows
      <3> QED BY <1>1, <1>7, <2>1, <3>2, <3>3 DEF LoopSound
    <2>2. CASE LockWalletRow(s)
      <3> DEFINE q == [loop[s] EXCEPT !.pc = "apply", !.before = balance[u]]
      <3>1. c \in Charges /\ UNCHANGED <<balance, order>> /\ row' = [row EXCEPT ![u] = s]
        BY <1>1, <2>2 DEF LockWalletRow, LoopSound, books
      <3>2. q \in LoopRows /\ q.row = c /\ q.batch = loop[s].batch /\ q.before = balance[u]
        BY <1>1, <3>1 DEF LoopRows, LoopSteps
      <3>3. loop' = [loop EXCEPT ![s] = q]
        BY <2>2 DEF LockWalletRow
      <3> HIDE DEF q
      <3> QED BY <1>1, <1>2, <2>2, <3>1, <3>2, <3>3 DEF LockWalletRow, LoopSound
    <2>3. CASE \E d \in Charges : TryRow(s, d)
      <3> PICK d \in Charges : TryRow(s, d)
        BY <2>3
      <3>1. PICK rest \in SUBSET Charges : rest = loop[s].batch \ {d}
        BY <1>1 DEF LoopRows
      <3>2. d \in loop[s].batch /\ UNCHANGED order
        BY DEF TryRow, books
      <3>3. PICK q \in LoopRows : /\ loop' = [loop EXCEPT ![s] = q] /\ q.batch = rest
                                  /\ \/ q.pc = "read" /\ q.row = d
                                     \/ q.pc = "rows"
        <4>1. CASE lock[UserOf[d]] = Unlocked
          <5> DEFINE q == [pc |-> "read", row |-> d, before |-> 0, batch |-> rest]
          <5>1. q \in LoopRows /\ q.batch = rest /\ q.pc = "read" /\ q.row = d
            BY DEF LoopRows, LoopSteps
          <5>2. loop' = [loop EXCEPT ![s] = q]
            BY <3>1, <4>1 DEF TryRow
          <5> HIDE DEF q
          <5> QED BY <5>1, <5>2
        <4>2. CASE lock[UserOf[d]] # Unlocked
          <5> DEFINE q == [loop[s] EXCEPT !.batch = rest]
          <5>1. q \in LoopRows /\ q.batch = rest /\ q.pc = "rows"
            BY <1>1 DEF LoopRows, TryRow
          <5>2. loop' = [loop EXCEPT ![s] = q]
            BY <3>1, <4>2 DEF TryRow
          <5> HIDE DEF q
          <5> QED BY <5>1, <5>2
        <4> QED BY <4>1, <4>2
      <3> QED BY <1>1, <1>2, <3>1, <3>2, <3>3 DEF LoopSound
    <2>4. CASE SelectPending(s)
      <3> DEFINE q == [loop[s] EXCEPT !.pc = "rows", !.batch = Pending \cap aged]
      <3>1. q \in LoopRows /\ q.pc = "rows" /\ q.batch = Pending \cap aged
        BY <1>1, <1>2 DEF LoopRows, LoopSteps, Pending
      <3>2. loop' = [loop EXCEPT ![s] = q] /\ UNCHANGED order
        BY <2>4 DEF SelectPending, books
      <3>3. \A d \in q.batch : order[d].status # "none"
        BY <3>1 DEF Pending
      <3> HIDE DEF q
      <3>4. loop' \in [Settlers -> LoopRows] /\ loop'[s] = q
            /\ \A r \in Settlers : r # s => loop'[r] = loop[r]
        BY <1>2, <3>1, <3>2
      <3> QED BY <3>1, <3>2, <3>3, <3>4 DEF LoopSound
    <2>5. CASE ReleaseRow(s)
      <3> PICK zero \in Int : zero = 0
        OBVIOUS
      <3> DEFINE q == [loop[s] EXCEPT !.pc = "rows", !.row = Unlocked, !.before = zero]
      <3>1. q \in LoopRows /\ q.pc = "rows" /\ q.batch = loop[s].batch
        BY <1>1 DEF LoopRows, LoopSteps
      <3>2. loop' = [loop EXCEPT ![s] = q] /\ UNCHANGED order
        BY <2>5 DEF ReleaseRow, books
      <3> HIDE DEF q
      <3> QED BY <1>1, <1>2, <3>1, <3>2 DEF LoopSound
    <2>6. CASE loop' = [loop EXCEPT ![s] = IdleLoop]
      <3>1. IdleLoop \in LoopRows /\ IdleLoop.pc = "idle" /\ IdleLoop.batch = {}
        BY DEF LoopRows, LoopSteps, IdleLoop
      <3> QED BY <1>2, <2>6, <3>1 DEF LoopSound
    <2>7. CASE CountMissingWallet(s) \/ CountFails(s)
      <3>1. \E pc \in {"void", "release"} : LoopGoes(s, pc)
        BY <2>7 DEF CountMissingWallet, CountFails
      <3> QED BY <2>1, <2>7, <3>1 DEF CountMissingWallet, CountFails
    <2> QED BY <2>1, <2>2, <2>3, <2>4, <2>5, <2>6, <2>7
         DEF LoopMoves, LoopStep, VoidOrder, SettlePlaceholder, SettledByOther, EndRound, RowFails,
             LoopDies
  <1>9. ActorTypes'
    BY <1>2, <1>3, <1>4, <1>5, <1>6, <1>8 DEF ActorTypes
  <1>10. \A r \in Settlers : r # s => LoopSound(r)'
    BY <1>3, <1>6, <1>7, <1>8, OthersSound
  <1>11. \A d \in Charges : TaskSound(d)'
    BY <1>1, <1>3, <1>6, <1>7, <1>8, OthersSound
  <1> QED BY <1>2, <1>3, <1>8, <1>9, <1>10, <1>11 DEF ActorsSound

\* Recharges, lapsing locks and ageing placeholders.
LEMMA SurroundingsKeep ==
  ASSUME Inductive,
         (\E u \in Users : TopUp(u) \/ LockExpires(u)) \/ (\E c \in Charges : PlaceholderAges(c))
  PROVE  ActorTypes' /\ ActorsSound' /\ has' \subseteq Users
  <1>1. /\ balance \in [Users -> Int] /\ has \subseteq Users
        /\ aged \subseteq Charges /\ fails \in [Charges -> 0..MaxFails]
        /\ topups \in [Users -> 0..MaxTopUps]
        /\ lock \in [Users -> Actors \cup {Unlocked}]
        /\ row \in [Users -> Actors \cup {Unlocked}]
        /\ task \in [Charges -> TaskRows] /\ loop \in [Settlers -> LoopRows]
    BY DEF Inductive, BookTypes, ActorTypes
  <1>2. UNCHANGED <<order, fails, row, task, loop>>
    BY DEF TopUp, LockExpires, PlaceholderAges, books
  <1>3. has' \subseteq Users /\ lock' \in [Users -> Actors \cup {Unlocked}]
    BY <1>1 DEF TopUp, LockExpires, PlaceholderAges, books
  <1>4. aged' \subseteq Charges
    BY <1>1 DEF TopUp, LockExpires, PlaceholderAges, books, Pending
  <1>5. topups' \in [Users -> 0..MaxTopUps]
    <2>1. CASE \E u \in Users : TopUp(u)
      <3> PICK u \in Users : TopUp(u)
        BY <2>1
      <3>1. topups[u] + 1 \in 0..MaxTopUps
        BY <1>1, DeductionAssumption DEF TopUp
      <3>2. topups' = [topups EXCEPT ![u] = topups[u] + 1]
        BY DEF TopUp
      <3> QED BY <1>1, <3>1, <3>2
    <2>2. CASE UNCHANGED topups
      BY <1>1, <2>2
    <2> QED BY <2>1, <2>2 DEF LockExpires, PlaceholderAges, books
  <1>6. \A v \in Users : row[v] # Unlocked => balance'[v] = balance[v]
    BY <1>1 DEF TopUp, LockExpires, PlaceholderAges, books
  <1>7. /\ \A c \in Charges : c # Unlocked => TaskSound(c)'
        /\ \A s \in Settlers : s # Unlocked => LoopSound(s)'
    <2>1. \A v \in Users : row[v] \notin {Unlocked, Unlocked} =>
             row'[v] = row[v] /\ balance'[v] = balance[v]
      BY <1>2, <1>6
    <2> QED BY <1>2, <2>1, OthersSound
  <1>8. ActorsSound'
    BY <1>7, DeductionAssumption DEF ActorsSound
  <1>9. ActorTypes'
    BY <1>1, <1>2, <1>3, <1>4, <1>5 DEF ActorTypes
  <1> QED BY <1>3, <1>8, <1>9

-----------------------------------------------------------------------------
(* The theorems.                                                           *)

\* Every step of the specification preserves the inductive invariant.
LEMMA NextInductive == Inductive /\ [DeductionNext]_deductionVars => Inductive'
  <1> SUFFICES ASSUME Inductive, [DeductionNext]_deductionVars PROVE Inductive'
    OBVIOUS
  <1>1. CASE DeductionNext
    <2>1. ActorTypes' /\ ActorsSound' /\ has' \subseteq Users
      <3>1. ASSUME NEW c \in Charges, TaskStep(c) \/ DeductionFails(c) \/ TaskDies(c)
            PROVE  ActorTypes' /\ ActorsSound' /\ has' \subseteq Users
        BY <3>1, TaskKeeps
      <3>2. ASSUME NEW s \in Settlers, LoopMoves(s)
            PROVE  ActorTypes' /\ ActorsSound' /\ has' \subseteq Users
        BY <3>2, LoopKeeps
      <3> QED BY <1>1, <3>1, <3>2, SurroundingsKeep DEF DeductionNext, LoopMoves
    <2>2. BookTypes' /\ BooksSound'
      BY <1>1, <2>1, StepShape, BooksKept
    <2> QED BY <2>1, <2>2 DEF Inductive, BooksSound
  <1>2. CASE UNCHANGED deductionVars
    <2>1. ActorTypes' /\ ActorsSound' /\ has' \subseteq Users
      BY <1>2 DEF deductionVars, Inductive, BookTypes, ActorTypes, ActorsSound, TaskSound, LoopSound
    <2>2. BookStep
      BY <1>2 DEF deductionVars, BookStep, BooksRest
    <2> QED BY <2>1, <2>2, BooksKept DEF Inductive, BooksSound
  <1> QED BY <1>1, <1>2

LEMMA Invariance == DeductionSpec => []Inductive
  BY InitInductive, NextInductive, PTL DEF DeductionSpec

\* Balance, log and order agree on every charge, in every state.
THEOREM LedgerAlwaysSound == DeductionSpec => []LedgerIsSound
  <1>1. Inductive => LedgerIsSound
    BY TypesSplit DEF Inductive, LedgerIsSound
  <1> QED BY <1>1, Invariance, PTL

\* No interleaving takes a wallet below zero, or further below where it started.
THEOREM NeverOverdrawn == DeductionSpec => []NoOverdraft
  BY LedgerAlwaysSound, PTL DEF LedgerIsSound

\* A charge is in the log once, by the amount of its order, or not at all.
THEOREM NeverChargedTwice == DeductionSpec => []ChargedOnce
  BY LedgerAlwaysSound, PTL DEF LedgerIsSound

\* What was decided about a charge: a paid or a voided one stays what it is, with
\* the amount it was paid with.
DecidedStays ==
    \A c \in Charges : order[c].status \in {"success", "failed"} => order'[c] = order[c]

\* A charge that was paid or voided is never touched again, by task or loop.
THEOREM DecisionsAreFinal == DeductionSpec => [][DecidedStays]_deductionVars
  <1>1. Inductive /\ [DeductionNext]_deductionVars => [DecidedStays]_deductionVars
    <2> SUFFICES ASSUME Inductive, DeductionNext PROVE DecidedStays
      OBVIOUS
    <2>1. order \in [Charges -> OrderRows]
      BY DEF Inductive, BookTypes
    <2> QED BY <2>1, StepShape
         DEF BookStep, BooksRest, Defers, Voids, Pays, Grows, StillOpen, DecidedStays
  <1> QED BY <1>1, Invariance, PTL DEF DeductionSpec

\* Charging implements the ideal wallet: a charge is taken at most once, as far as
\* the balance goes at that moment, whoever takes it.
THEOREM ChargingImplementsIdeal == DeductionSpec => ImplementsIdeal
  <1> DEFINE paid == [c \in Charges |-> CASE order[c].status = "success" -> "paid"
                                          [] order[c].status = "failed" -> "void"
                                          [] OTHER -> "open"]
  <1>1. DeductionInit => Ideal!Init
    BY DEF DeductionInit, Ideal!Init
  <1>2. Inductive /\ [DeductionNext]_deductionVars => [Ideal!Next]_(Ideal!vars)
    <2> SUFFICES ASSUME Inductive, [DeductionNext]_deductionVars PROVE [Ideal!Next]_(Ideal!vars)
      OBVIOUS
    <2>1. order \in [Charges -> OrderRows] /\ balance \in [Users -> Int]
      BY DEF Inductive, BookTypes
    <2>2. CASE UNCHANGED deductionVars
      BY <2>2 DEF deductionVars, Ideal!vars
    <2>3. CASE BooksRest
      BY <2>3 DEF BooksRest, Ideal!vars
    <2>4. ASSUME NEW c \in Charges, Defers(c)
          PROVE  UNCHANGED Ideal!vars
      <3>1. paid' = paid
        BY <2>1, <2>4 DEF Defers
      <3> QED BY <2>4, <3>1 DEF Defers, Ideal!vars
    <2>5. ASSUME NEW c \in Charges, Voids(c)
          PROVE  Ideal!Next
      <3>1. paid[c] = "open" /\ paid' = [paid EXCEPT ![c] = "void"]
        <4>1. /\ order[c].status = "pending" /\ order'[c].status = "failed"
              /\ \A d \in Charges : d # c => order'[d] = order[d]
          BY <2>1, <2>5 DEF Voids, OrderRows
        <4> QED BY <4>1
      <3> QED BY <2>5, <3>1 DEF Voids, Ideal!Void, Ideal!Next
    <2>6. ASSUME NEW c \in Charges, NEW amount \in Nat, Pays(c, amount)
          PROVE  Ideal!Next
      <3>1. paid[c] = "open" /\ paid' = [paid EXCEPT ![c] = "paid"]
        BY <2>1, <2>6 DEF Pays, StillOpen
      <3>2. amount = Ideal!Taken(Cost[c], balance[UserOf[c]])
        BY <2>6 DEF Pays, ActualDeduct, Ideal!Taken
      <3>3. balance' = [balance EXCEPT ![UserOf[c]] = balance[UserOf[c]] - amount]
        <4>1. CASE amount = 0
          <5>1. balance[UserOf[c]] \in Int
            BY <2>1, DeductionAssumption
          <5>2. balance[UserOf[c]] - amount = balance[UserOf[c]]
            BY <4>1, <5>1
          <5> QED BY <2>1, <2>6, <4>1, <5>2 DEF Pays
        <4>2. CASE amount # 0
          BY <2>6, <4>2 DEF Pays, Take
        <4> QED BY <4>1, <4>2
      <3>4. Ideal!Pay(c)
        BY <3>1, <3>2, <3>3 DEF Ideal!Pay
      <3> QED BY <3>4 DEF Ideal!Next
    <2>7. ASSUME NEW u \in Users, Grows(u)
          PROVE  Ideal!Next
      BY <2>7 DEF Grows, Ideal!TopUp, Ideal!Next
    <2> QED BY <2>2, <2>3, <2>4, <2>5, <2>6, <2>7, StepShape DEF BookStep
  <1> QED BY <1>1, <1>2, Invariance, PTL DEF DeductionSpec, ImplementsIdeal, Ideal!Spec

-----------------------------------------------------------------------------
(* CdcPipeline, for every number of transactions, events and workers and   *)
(* every size of a batch.  What concerns cursors is proved for batches that *)
(* stay within one file of the journal (~MayRotate): with rotation the     *)
(* code passes events that are not on disk (AdvancedIsSynced).             *)

WorkRows == [pc : {"down", "idle", "write", "sync", "polled", "save", "saved"},
             cursor : Cursors, leads : BOOLEAN, batch : SUBSET Events]

Ended == {"committed", "aborted"}

\* A cursor is closed: every transaction up to it has ended, and what they have
\* committed up to it is on disk. Such a cursor stays closed.
Closed(c) ==
    /\ \A s \in Txs : s <= c[1] => tx[s] \in Ended
    /\ \A e \in Visible : ~Above(e, c) => e \in synced

\* The rows in hand are the first ones behind the cursor, and will remain so: no
\* open transaction can put another one among them.
Prefix(w) ==
    LET batch == work[w].batch IN
    /\ batch # {}
    /\ \A f \in batch : \A s \in Txs : s <= f[1] => tx[s] \in Ended
    /\ \A e \in Visible, f \in batch : Above(e, work[w].cursor) /\ ~Above(e, f) => e \in batch

WorkerSound(w) ==
    /\ work[w].pc # "down" => Closed(work[w].cursor)
    /\ work[w].pc \in {"write", "sync"} => Prefix(w)

CursorsClosed == Closed(checkpoint) /\ \A w \in Workers : WorkerSound(w)

\* Rows in hand and in the journal belong to committed transactions.
BatchCommitted == \A w \in Workers : \A e \in work[w].batch : tx[e[1]] = "committed"

Known == CdcTypeOK /\ BatchCommitted /\ OnlyCommittedJournaled

-----------------------------------------------------------------------------
(* The order of events.                                                    *)

LEMMA Parts ==
    /\ \A c \in Cursors : c[1] \in Nat /\ c[2] \in Nat
    /\ \A e \in Events : e \in Cursors /\ e[1] \in Txs
    /\ Origin \in Cursors /\ Origin[1] = 0 /\ Origin[2] = 0
    /\ \A e, f \in Cursors : e[1] = f[1] /\ e[2] = f[2] => e = f
  BY CdcAssumption DEF Cursors, Events, Txs, Origin

LEMMA AboveIsOrder ==
  ASSUME NEW a \in Cursors, NEW b \in Cursors, NEW c \in Cursors
  PROVE  /\ ~Above(a, a)
         /\ ~Above(a, b) /\ ~Above(b, c) => ~Above(a, c)
         /\ ~Above(a, b) /\ ~Above(b, a) => a = b
         /\ ~Above(a, b) => a[1] <= b[1]
         /\ Above(a, b) => ~Above(b, a)
  <1>1. /\ a[1] \in Nat /\ a[2] \in Nat /\ b[1] \in Nat /\ b[2] \in Nat
        /\ c[1] \in Nat /\ c[2] \in Nat
    BY Parts
  <1>2. ~Above(a, b) /\ ~Above(b, a) => a[1] = b[1] /\ a[2] = b[2]
    BY <1>1 DEF Above
  <1>3. ~Above(a, b) /\ ~Above(b, a) => a = b
    BY <1>2, Parts
  <1> QED BY <1>1, <1>3 DEF Above

\* A set of events that is not empty has a last and a first one.
LEMMA LastExists ==
  ASSUME NEW S \in SUBSET Events, S # {}
  PROVE  LastOf(S) \in S /\ \A f \in S : ~Above(f, LastOf(S))
  <1>1. \A e \in S : e[1] \in 1..MaxTx /\ e[2] \in 1..MaxId
    BY DEF Events, Txs
  <1> DEFINE A == {MaxTx - e[1] : e \in S}
  <1>2. A \subseteq Nat /\ A # {}
    <2>1. \A k \in 1..MaxTx : MaxTx - k \in Nat
      BY CdcAssumption
    <2> QED BY <1>1, <2>1
  <1>3. PICK n \in A : \A k \in A : n <= k
    BY <1>2, LeastNat
  <1>4. PICK g \in S : n = MaxTx - g[1]
    BY <1>3
  <1>5. \A f \in S : f[1] <= g[1]
    <2> TAKE f \in S
    <2>1. MaxTx - g[1] <= MaxTx - f[1]
      BY <1>3, <1>4
    <2>2. MaxTx \in Nat /\ f[1] \in Nat /\ g[1] \in Nat
      BY <1>1, CdcAssumption
    <2> QED BY <2>1, <2>2
  <1> DEFINE T == {e \in S : e[1] = g[1]}
             B == {MaxId - e[2] : e \in T}
  <1>6. B \subseteq Nat /\ B # {}
    <2>1. \A k \in 1..MaxId : MaxId - k \in Nat
      BY CdcAssumption
    <2> QED BY <1>1, <2>1
  <1>7. PICK m \in B : \A k \in B : m <= k
    BY <1>6, LeastNat
  <1>8. PICK h \in T : m = MaxId - h[2]
    BY <1>7
  <1>9. \A f \in S : f[1] = h[1] => f[2] <= h[2]
    <2> TAKE f \in S
    <2> HAVE f[1] = h[1]
    <2>1. MaxId - h[2] <= MaxId - f[2]
      BY <1>7, <1>8
    <2>2. MaxId \in Nat /\ f[2] \in Nat /\ h[2] \in Nat
      BY <1>1, CdcAssumption
    <2> QED BY <2>1, <2>2
  <1>10. h \in S /\ \A f \in S : ~Above(f, h)
    BY <1>1, <1>5, <1>8, <1>9 DEF Above
  <1> QED BY <1>10 DEF LastOf

LEMMA FirstExists ==
  ASSUME NEW S \in SUBSET Events, S # {}
  PROVE  \E h \in S : \A f \in S : ~Above(h, f)
  <1>1. \A e \in S : e[1] \in Nat /\ e[2] \in Nat
    BY DEF Events, Txs
  <1> DEFINE A == {e[1] : e \in S}
  <1>2. A \subseteq Nat /\ A # {}
    BY <1>1
  <1>3. PICK n \in A : \A k \in A : n <= k
    BY <1>2, LeastNat
  <1>4. PICK g \in S : n = g[1]
    BY <1>3
  <1>5. \A f \in S : g[1] <= f[1]
    BY <1>1, <1>3, <1>4
  <1> DEFINE T == {e \in S : e[1] = g[1]}
             B == {e[2] : e \in T}
  <1>6. B \subseteq Nat /\ B # {}
    BY <1>1
  <1>7. PICK m \in B : \A k \in B : m <= k
    BY <1>6, LeastNat
  <1>8. PICK h \in T : m = h[2]
    BY <1>7
  <1>9. \A f \in S : f[1] = h[1] => h[2] <= f[2]
    BY <1>1, <1>7, <1>8
  <1> QED BY <1>1, <1>5, <1>8, <1>9 DEF Above

\* A batch begins with the first row and leaves none out.
LEMMA BatchIsPrefix ==
  ASSUME NEW S \in SUBSET Events, S # {}
  PROVE  LET B == FirstOf(S, BatchSize) IN
         /\ B # {} /\ B \subseteq S
         /\ \A e \in S, f \in B : ~Above(e, f) => e \in B
  <1> DEFINE Before(e) == {f \in S : Above(e, f)}
             B == FirstOf(S, BatchSize)
  <1>1. B = {e \in S : Cardinality(Before(e)) < BatchSize}
    BY DEF FirstOf
  <1>2. IsFiniteSet(Events)
    <2>1. IsFiniteSet(1..MaxTx) /\ IsFiniteSet(1..MaxId)
      BY FS_Interval, CdcAssumption
    <2> QED BY <2>1, FS_Product DEF Events, Txs
  <1>3. IsFiniteSet(S)
    BY <1>2, FS_Subset
  <1>4. \A e \in S : IsFiniteSet(Before(e)) /\ Cardinality(Before(e)) \in Nat
    <2> TAKE e \in S
    <2>1. Before(e) \subseteq S
      OBVIOUS
    <2> HIDE DEF Before
    <2> QED BY <1>3, <2>1, FS_Subset, FS_CardinalityType
  <1>5. B # {}
    <2>1. PICK h \in S : \A f \in S : ~Above(h, f)
      BY FirstExists
    <2>2. Before(h) = {}
      BY <2>1
    <2>3. Cardinality(Before(h)) = 0
      BY <2>2, FS_EmptySet
    <2> QED BY <1>1, <2>3, CdcAssumption
  <1>6. ASSUME NEW e \in S, NEW f \in B, ~Above(e, f)
        PROVE  e \in B
    <2>1. f \in S /\ Cardinality(Before(f)) < BatchSize
      BY <1>1
    <2>2. Before(e) \subseteq Before(f)
      <3> SUFFICES ASSUME NEW g \in S, Above(e, g) PROVE Above(f, g)
        OBVIOUS
      <3>1. e \in Cursors /\ f \in Cursors /\ g \in Cursors
        BY <2>1, Parts
      <3> QED BY <1>6, <3>1, AboveIsOrder
    <2>3. Cardinality(Before(e)) <= Cardinality(Before(f))
      <3> HIDE DEF Before
      <3> QED BY <1>4, <2>1, <2>2, FS_Subset
    <2>4. BatchSize \in Nat
      BY CdcAssumption
    <2>5. Cardinality(Before(e)) < BatchSize
      <3> HIDE DEF Before
      <3> QED BY <1>4, <2>1, <2>3, <2>4
    <2> HIDE DEF Before
    <2> QED BY <1>1, <2>5
  <1> QED BY <1>1, <1>5, <1>6

-----------------------------------------------------------------------------
(* What no step undoes.                                                    *)

\* What has ended stays as it is, new rows belong to open transactions, and
\* nothing leaves the disk.
Steady ==
    /\ \A s \in Txs : tx[s] \in Ended => tx'[s] = tx[s]
    /\ \A e \in table' : e \in table \/ tx[e[1]] = "active"
    /\ table' \subseteq Events
    /\ synced \subseteq synced'

LEMMA StepSteady ==
  ASSUME CdcTypeOK, [CdcNext]_cdcVars
  PROVE  Steady
  <1> USE DEF CdcTypeOK
  <1>1. CASE \E t \in Txs : BeginTx(t) \/ CommitTx(t) \/ AbortTx(t)
    BY <1>1 DEF BeginTx, CommitTx, AbortTx, Steady, Ended, journal
  <1>2. CASE \E t \in Txs : Capture(t)
    <2> PICK t \in Txs : Capture(t)
      BY <1>2
    <2>1. <<t, seq + 1>> \in Events
      <3>1. seq + 1 \in 1..MaxId
        BY CdcAssumption DEF Capture
      <3> QED BY <3>1 DEF Events
    <2>2. \A e \in table' : e \in table \/ e = <<t, seq + 1>>
      BY DEF Capture
    <2>3. <<t, seq + 1>>[1] = t
      OBVIOUS
    <2>4. tx[t] = "active" /\ UNCHANGED <<tx, synced>>
      BY DEF Capture, journal
    <2> QED BY <2>1, <2>2, <2>3, <2>4 DEF Steady
  <1>3. CASE \E w \in Workers : StartWorker(w) \/ TryLock(w) \/ LoseLead(w) \/ WorkerStep(w)
                                \/ Crash(w)
    <2>1. UNCHANGED tx /\ table' \subseteq table
      BY <1>3 DEF StartWorker, TryLock, LoseLead, WorkerStep, Poll, WriteLines, SyncAndAdvance, Skip,
             NotDue, CompareCheckpoint, ReplaceCheckpoint, CleanUp, Crash, source
    <2>2. synced \subseteq synced'
      BY <1>3 DEF StartWorker, TryLock, LoseLead, WorkerStep, Poll, WriteLines, SyncAndAdvance, Skip,
             NotDue, CompareCheckpoint, ReplaceCheckpoint, CleanUp, Crash, journal
    <2> QED BY <2>1, <2>2 DEF Steady
  <1>4. CASE LeadExpires \/ WriteBack \/ HostCrash
    BY <1>4 DEF LeadExpires, WriteBack, HostCrash, Steady, source, journal
  <1>5. CASE UNCHANGED cdcVars
    BY <1>5 DEF cdcVars, Steady
  <1> QED BY <1>1, <1>2, <1>3, <1>4, <1>5 DEF CdcNext

LEMMA ClosedKept ==
  ASSUME Steady, NEW c \in Cursors, Closed(c)
  PROVE  Closed(c)'
  <1>1. \A s \in Txs : s <= c[1] => tx'[s] \in Ended
    BY DEF Steady, Closed
  <1>2. ASSUME NEW e \in table', tx'[e[1]] = "committed", ~Above(e, c)
        PROVE  e \in synced'
    <2>1. e \in Events /\ e \in Cursors /\ e[1] \in Txs /\ e[1] <= c[1]
      BY <1>2, Parts, AboveIsOrder DEF Steady
    <2>2. tx[e[1]] \in Ended /\ tx'[e[1]] = tx[e[1]]
      BY <2>1 DEF Steady, Closed
    <2>3. e \in Visible
      BY <1>2, <2>2 DEF Visible, Steady, Ended
    <2> QED BY <1>2, <2>3 DEF Closed, Steady
  <1> QED BY <1>1, <1>2 DEF Closed, Visible

LEMMA PrefixKept ==
  ASSUME CdcTypeOK, Steady, NEW w \in Workers, Prefix(w),
         work'[w].batch = work[w].batch, work'[w].cursor = work[w].cursor
  PROVE  Prefix(w)'
  <1> DEFINE batch == work[w].batch
  <1>1. \A f \in batch : \A s \in Txs : s <= f[1] => tx'[s] \in Ended
    BY DEF Steady, Prefix
  <1>2. ASSUME NEW e \in table', NEW f \in batch, tx'[e[1]] = "committed",
               Above(e, work[w].cursor), ~Above(e, f)
        PROVE  e \in batch
    <2>1. /\ f \in Events /\ f \in Cursors
          /\ e \in Events /\ e \in Cursors /\ e[1] \in Txs /\ e[1] <= f[1]
      BY <1>2, Parts, AboveIsOrder DEF Steady, CdcTypeOK
    <2>2. tx[e[1]] \in Ended /\ tx'[e[1]] = tx[e[1]]
      BY <2>1 DEF Steady, Prefix
    <2>3. e \in Visible
      BY <1>2, <2>2 DEF Visible, Steady, Ended
    <2> QED BY <1>2, <2>3 DEF Prefix
  <1> QED BY <1>1, <1>2 DEF Prefix, Visible

-----------------------------------------------------------------------------
(* What a step makes of the worker that takes it.                          *)

\* It goes on with its cursor; rows in hand stay the same or are dropped.
GoesOn(p, q) ==
    /\ q.cursor = p.cursor /\ q.batch \in {p.batch, {}}
    /\ q.pc # "down" => p.pc # "down"
    /\ q.pc \in {"write", "sync"} => p.pc \in {"write", "sync"} /\ q.batch = p.batch

Starts(q) == q.pc = "idle" /\ q.cursor = checkpoint /\ q.batch = {}

Stops(q) == q.pc = "down" /\ q.batch = {}

Fetches(p, q) ==
    LET rows == ReadableAfter(p.cursor) IN
    /\ q.pc = "write" /\ q.cursor = p.cursor /\ p.pc = "idle"
    /\ rows # {} /\ q.batch = FirstOf(rows, BatchSize)

Advances(p, q) ==
    /\ p.pc = "sync" /\ q.pc = "polled" /\ p.batch # {}
    /\ q.batch = {} /\ q.cursor = LastOf(p.batch)
    /\ ~MayRotate => p.batch \subseteq synced'

WorkerMoves(w) == StartWorker(w) \/ TryLock(w) \/ LoseLead(w) \/ WorkerStep(w) \/ Crash(w)

LEMMA Moved ==
  ASSUME CdcTypeOK, NEW w \in Workers, NEW q \in WorkRows, work' = [work EXCEPT ![w] = q]
  PROVE  /\ work' \in [Workers -> WorkRows] /\ work'[w] = q
         /\ \A v \in Workers : v # w => work'[v] = work[v]
  BY DEF CdcTypeOK, WorkRows

LEMMA WorkerShape ==
  ASSUME Known, NEW w \in Workers, WorkerMoves(w)
  PROVE  \E q \in WorkRows :
            /\ work' = [work EXCEPT ![w] = q]
            /\ \/ GoesOn(work[w], q) \/ Starts(q) \/ Stops(q)
               \/ Fetches(work[w], q) \/ Advances(work[w], q)
  <1> DEFINE p == work[w]
             Goal == \E q \in WorkRows :
                       /\ work' = [work EXCEPT ![w] = q]
                       /\ \/ GoesOn(work[w], q) \/ Starts(q) \/ Stops(q)
                          \/ Fetches(work[w], q) \/ Advances(work[w], q)
  <1>1. p \in WorkRows /\ checkpoint \in Cursors
    BY DEF Known, CdcTypeOK, WorkRows
  <1>2. ASSUME NEW pc \in {"idle", "polled", "save", "saved"}, Goes(w, pc), p.pc # "down"
        PROVE  Goal
    <2> DEFINE q == [p EXCEPT !.pc = pc]
    <2>1. q \in WorkRows /\ GoesOn(p, q)
      BY <1>1, <1>2 DEF WorkRows, GoesOn
    <2>2. work' = [work EXCEPT ![w] = q]
      BY <1>2 DEF Goes
    <2> HIDE DEF q
    <2> QED BY <2>1, <2>2
  <1>3. CASE StartWorker(w)
    <2> DEFINE q == [Down EXCEPT !.pc = "idle", !.cursor = checkpoint]
    <2>1. q \in WorkRows /\ Starts(q)
      BY <1>1, Parts DEF WorkRows, Starts, Down
    <2>2. work' = [work EXCEPT ![w] = q]
      BY <1>3 DEF StartWorker
    <2> HIDE DEF q
    <2> QED BY <2>1, <2>2
  <1>4. ASSUME NEW leads \in BOOLEAN, work' = [work EXCEPT ![w].leads = leads]
        PROVE  Goal
    <2> DEFINE q == [p EXCEPT !.leads = leads]
    <2>1. q \in WorkRows /\ GoesOn(p, q)
      BY <1>1 DEF WorkRows, GoesOn
    <2>2. work' = [work EXCEPT ![w] = q]
      BY <1>4
    <2> HIDE DEF q
    <2> QED BY <2>1, <2>2
  <1>5. CASE Crash(w)
    <2>1. Down \in WorkRows /\ Stops(Down)
      BY Parts DEF WorkRows, Stops, Down
    <2> QED BY <1>5, <2>1 DEF Crash
  <1>6. CASE Poll(w)
    <2>1. CASE Goes(w, "polled")
      BY <1>2, <1>6, <2>1 DEF Poll
    <2>2. CASE ~Goes(w, "polled")
      <3> DEFINE rows == ReadableAfter(p.cursor)
      <3>1. PICK batch : batch = FirstOf(rows, BatchSize)
        OBVIOUS
      <3>2. rows \in SUBSET Events
        BY DEF ReadableAfter, Visible, Known, CdcTypeOK
      <3>3. rows # {} /\ p.pc = "idle" /\ work' = [work EXCEPT ![w] = [p EXCEPT !.pc = "write", !.batch = batch]]
        BY <1>6, <2>2, <3>1 DEF Poll
      <3>4. batch \in SUBSET Events
        BY <3>1, <3>2, <3>3, BatchIsPrefix
      <3> DEFINE q == [p EXCEPT !.pc = "write", !.batch = batch]
      <3>5. q \in WorkRows /\ q.pc = "write" /\ q.cursor = p.cursor /\ q.batch = batch
        BY <1>1, <3>4 DEF WorkRows
      <3>6. work' = [work EXCEPT ![w] = q]
        BY <3>3
      <3> HIDE DEF q
      <3>7. Fetches(p, q)
        BY <3>1, <3>3, <3>5 DEF Fetches
      <3> QED BY <3>5, <3>6, <3>7
    <2> QED BY <2>1, <2>2
  <1>7. CASE WriteLines(w)
    <2>1. CASE Goes(w, "sync")
      <3> DEFINE q == [p EXCEPT !.pc = "sync"]
      <3>1. q \in WorkRows /\ GoesOn(p, q)
        BY <1>1, <1>7 DEF WorkRows, GoesOn, WriteLines
      <3>2. work' = [work EXCEPT ![w] = q]
        BY <2>1 DEF Goes
      <3> HIDE DEF q
      <3> QED BY <3>1, <3>2
    <2>2. CASE ~Goes(w, "sync")
      <3> DEFINE q == [p EXCEPT !.pc = "polled", !.batch = {}]
      <3>1. q \in WorkRows /\ GoesOn(p, q)
        BY <1>1, <1>7 DEF WorkRows, GoesOn, WriteLines
      <3>2. work' = [work EXCEPT ![w] = q]
        BY <1>7, <2>2 DEF WriteLines
      <3> HIDE DEF q
      <3> QED BY <3>1, <3>2
    <2> QED BY <2>1, <2>2
  <1>8. CASE SyncAndAdvance(w)
    <2>1. PICK last : last = LastOf(p.batch)
      OBVIOUS
    <2>2. /\ p.pc = "sync"
          /\ work' = [work EXCEPT ![w] = [p EXCEPT !.pc = "polled", !.batch = {}, !.cursor = last]]
      BY <1>8, <2>1 DEF SyncAndAdvance
    <2>3. p.batch # {} /\ p.batch \in SUBSET Events
      BY <1>1, <1>8 DEF SyncAndAdvance, WorkRows
    <2>4. last \in Cursors
      BY <2>1, <2>3, LastExists, Parts
    <2> DEFINE q == [p EXCEPT !.pc = "polled", !.batch = {}, !.cursor = last]
    <2>5. q \in WorkRows /\ q.pc = "polled" /\ q.batch = {} /\ q.cursor = last
      BY <1>1, <2>4 DEF WorkRows
    <2>6. work' = [work EXCEPT ![w] = q]
      BY <2>2
    <2> HIDE DEF q
    <2>7. ~MayRotate => p.batch \subseteq synced'
      BY <1>8 DEF SyncAndAdvance
    <2>8. Advances(p, q)
      BY <2>1, <2>2, <2>3, <2>5, <2>7 DEF Advances
    <2> QED BY <2>5, <2>6, <2>8
  <1>9. CASE Skip(w) \/ NotDue(w) \/ CompareCheckpoint(w) \/ ReplaceCheckpoint(w) \/ CleanUp(w)
    <2>1. p.pc # "down" /\ \E pc \in {"idle", "polled", "save", "saved"} : Goes(w, pc)
      BY <1>9 DEF Skip, NotDue, CompareCheckpoint, ReplaceCheckpoint, CleanUp
    <2> QED BY <1>2, <2>1
  <1>10. CASE TryLock(w) \/ LoseLead(w)
    BY <1>4, <1>10 DEF TryLock, LoseLead
  <1> QED BY <1>3, <1>5, <1>6, <1>7, <1>8, <1>9, <1>10 DEF WorkerMoves, WorkerStep

-----------------------------------------------------------------------------
(* What is known of rows, with rotation or without.                        *)

LEMMA InitKnown == CdcInit => Known
  <1> SUFFICES ASSUME CdcInit PROVE Known
    OBVIOUS
  <1>1. Down \in WorkRows /\ Down.batch = {}
    BY Parts DEF WorkRows, Down
  <1>2. CdcTypeOK
    BY <1>1, Parts, CdcAssumption DEF CdcInit, CdcTypeOK, WorkRows
  <1>3. BatchCommitted /\ OnlyCommittedJournaled
    BY <1>1 DEF CdcInit, BatchCommitted, OnlyCommittedJournaled
  <1> QED BY <1>2, <1>3 DEF Known

LEMMA WorkerKeepsKnown ==
  ASSUME Known, NEW w \in Workers, WorkerMoves(w)
  PROVE  Known'
  <1> USE DEF Known
  <1>1. /\ tx \in [Txs -> {"none", "active", "committed", "aborted"}]
        /\ seq \in 0..MaxId /\ table \subseteq Events
        /\ synced \subseteq Events /\ cached \subseteq Events
        /\ checkpoint \in Cursors /\ leader \in Workers \cup {NoWorker}
        /\ work \in [Workers -> WorkRows]
    BY DEF CdcTypeOK, WorkRows
  <1>2. UNCHANGED <<tx, seq>>
    BY DEF WorkerMoves, StartWorker, TryLock, LoseLead, WorkerStep, Poll, WriteLines, SyncAndAdvance,
           Skip, NotDue, CompareCheckpoint, ReplaceCheckpoint, CleanUp, Crash, source
  <1>3. table' \subseteq Events /\ leader' \in Workers \cup {NoWorker}
    BY <1>1 DEF WorkerMoves, StartWorker, TryLock, LoseLead, WorkerStep, Poll, WriteLines,
           SyncAndAdvance, Skip, NotDue, CompareCheckpoint, ReplaceCheckpoint, CleanUp, Crash
  <1>4. checkpoint' \in Cursors
    <2>1. work[w].cursor \in Cursors
      BY <1>1 DEF WorkRows
    <2> QED BY <1>1, <2>1 DEF WorkerMoves, StartWorker, TryLock, LoseLead, WorkerStep, Poll, WriteLines,
           SyncAndAdvance, Skip, NotDue, CompareCheckpoint, ReplaceCheckpoint, CleanUp, Crash, journal
  <1>5. synced' \cup cached' \subseteq synced \cup cached \cup work[w].batch
    BY DEF WorkerMoves, StartWorker, TryLock, LoseLead, WorkerStep, Poll, WriteLines, SyncAndAdvance,
           Skip, NotDue, CompareCheckpoint, ReplaceCheckpoint, CleanUp, Crash, journal
  <1>6. \A e \in work[w].batch : e \in Events /\ tx[e[1]] = "committed"
    BY <1>1 DEF WorkRows, BatchCommitted
  <1>7. /\ work' \in [Workers -> WorkRows]
        /\ \A v \in Workers : v # w => work'[v] = work[v]
        /\ \A e \in work'[w].batch : tx[e[1]] = "committed"
    <2>1. PICK q \in WorkRows :
            /\ work' = [work EXCEPT ![w] = q]
            /\ \/ GoesOn(work[w], q) \/ Starts(q) \/ Stops(q)
               \/ Fetches(work[w], q) \/ Advances(work[w], q)
      BY WorkerShape
    <2>2. \A e \in q.batch : tx[e[1]] = "committed"
      <3>1. CASE Fetches(work[w], q)
        <4> DEFINE rows == ReadableAfter(work[w].cursor)
        <4>1. rows \in SUBSET Events /\ \A e \in rows : tx[e[1]] = "committed"
          BY <1>1 DEF ReadableAfter, Visible
        <4>2. rows # {} /\ q.batch = FirstOf(rows, BatchSize)
          BY <3>1 DEF Fetches
        <4> HIDE DEF rows
        <4>3. q.batch \subseteq rows
          BY <4>1, <4>2, BatchIsPrefix
        <4> QED BY <4>1, <4>3
      <3>2. CASE q.batch \in {work[w].batch, {}}
        BY <1>6, <3>2
      <3> QED BY <2>1, <3>1, <3>2 DEF GoesOn, Starts, Stops, Advances
    <2> QED BY <2>1, <2>2, Moved
  <1>8. synced' \subseteq Events /\ cached' \subseteq Events
    BY <1>1, <1>5, <1>6
  <1>9. CdcTypeOK'
    BY <1>1, <1>2, <1>3, <1>4, <1>7, <1>8 DEF CdcTypeOK, WorkRows
  <1>10. OnlyCommittedJournaled'
    BY <1>2, <1>5, <1>6 DEF OnlyCommittedJournaled
  <1>11. BatchCommitted'
    BY <1>2, <1>7 DEF BatchCommitted
  <1> QED BY <1>9, <1>10, <1>11

LEMMA NextKnown == Known /\ [CdcNext]_cdcVars => Known'
  <1> SUFFICES ASSUME Known, [CdcNext]_cdcVars PROVE Known'
    OBVIOUS
  <1>1. /\ tx \in [Txs -> {"none", "active", "committed", "aborted"}]
        /\ seq \in 0..MaxId /\ table \subseteq Events
        /\ synced \subseteq Events /\ cached \subseteq Events
        /\ checkpoint \in Cursors /\ leader \in Workers \cup {NoWorker}
        /\ work \in [Workers -> WorkRows]
        /\ BatchCommitted /\ OnlyCommittedJournaled
        /\ Steady
    BY StepSteady DEF Known, CdcTypeOK, WorkRows
  <1>2. ASSUME NEW w \in Workers, WorkerMoves(w)
        PROVE  Known'
    BY <1>2, WorkerKeepsKnown
  <1>3. ASSUME NEW t \in Txs, BeginTx(t) \/ Capture(t) \/ CommitTx(t) \/ AbortTx(t)
        PROVE  Known'
    <2>1. UNCHANGED <<synced, cached, checkpoint, leader, work>>
      BY <1>3 DEF BeginTx, Capture, CommitTx, AbortTx, journal
    <2>2. /\ tx' \in [Txs -> {"none", "active", "committed", "aborted"}]
          /\ seq' \in 0..MaxId
      BY <1>1, <1>3, CdcAssumption DEF BeginTx, Capture, CommitTx, AbortTx
    <2>3. CdcTypeOK'
      BY <1>1, <2>1, <2>2 DEF CdcTypeOK, WorkRows, Steady
    <2>4. \A e \in Events : tx[e[1]] = "committed" => tx'[e[1]] = "committed"
      BY <1>1, Parts DEF Steady, Ended
    <2>5. BatchCommitted'
      BY <1>1, <2>1, <2>4 DEF BatchCommitted, WorkRows
    <2>6. OnlyCommittedJournaled'
      BY <1>1, <2>1, <2>4 DEF OnlyCommittedJournaled
    <2> QED BY <2>3, <2>5, <2>6 DEF Known
  <1>4. CASE LeadExpires \/ WriteBack
    BY <1>1, <1>4 DEF LeadExpires, WriteBack, Known, CdcTypeOK, WorkRows, BatchCommitted,
                      OnlyCommittedJournaled, source, journal
  <1>5. CASE HostCrash
    <2>1. Down \in WorkRows /\ Down.batch = {}
      BY Parts DEF WorkRows, Down
    <2>2. work' \in [Workers -> WorkRows] /\ \A w \in Workers : work'[w].batch = {}
      BY <1>5, <2>1 DEF HostCrash
    <2>3. UNCHANGED <<tx, seq, table, synced, checkpoint, leader>> /\ cached' = {}
      BY <1>5 DEF HostCrash, source
    <2> QED BY <1>1, <2>2, <2>3 DEF Known, CdcTypeOK, WorkRows, BatchCommitted, OnlyCommittedJournaled
  <1>6. CASE UNCHANGED cdcVars
    BY <1>1, <1>6 DEF cdcVars, Known, CdcTypeOK, WorkRows, BatchCommitted, OnlyCommittedJournaled
  <1> QED BY <1>2, <1>3, <1>4, <1>5, <1>6 DEF CdcNext, WorkerMoves

LEMMA AlwaysKnown == CdcSpec => []Known
  BY InitKnown, NextKnown, PTL DEF CdcSpec

-----------------------------------------------------------------------------
(* Cursors stay closed, as long as a batch stays within one file.          *)

\* The last row of a batch in hand is a closed cursor once the batch is on disk.
LEMMA AdvanceIsClosed ==
  ASSUME CdcTypeOK, Steady, UNCHANGED tx, NEW w \in Workers, Closed(work[w].cursor), Prefix(w),
         work[w].batch \subseteq synced', NEW last, last = LastOf(work[w].batch)
  PROVE  Closed(last)'
  <1> DEFINE batch == work[w].batch
             cursor == work[w].cursor
  <1>1. cursor \in Cursors /\ batch \in SUBSET Events /\ batch # {}
    BY DEF CdcTypeOK, Prefix
  <1>2. last \in batch /\ last \in Cursors
    BY <1>1, LastExists, Parts
  <1>3. \A s \in Txs : s <= last[1] => tx'[s] \in Ended
    BY <1>2 DEF Prefix
  <1>4. ASSUME NEW e \in table', tx'[e[1]] = "committed", ~Above(e, last)
        PROVE  e \in synced'
    <2>1. e \in Events /\ e \in Cursors /\ e[1] \in Txs /\ e[1] <= last[1]
      BY <1>2, <1>4, Parts, AboveIsOrder DEF Steady
    <2>2. tx[e[1]] \in Ended
      BY <1>2, <2>1 DEF Prefix
    <2>3. e \in Visible
      BY <1>4, <2>2 DEF Visible, Steady, Ended
    <2>4. CASE Above(e, cursor)
      BY <1>2, <1>4, <2>3, <2>4 DEF Prefix
    <2>5. CASE ~Above(e, cursor)
      BY <2>3, <2>5 DEF Closed, Steady
    <2> QED BY <2>4, <2>5
  <1> QED BY <1>3, <1>4 DEF Closed, Visible

\* The rows of a query are such a batch.
LEMMA FetchIsPrefix ==
  ASSUME CdcTypeOK, Steady, UNCHANGED <<tx, table>>, NEW w \in Workers, Fetches(work[w], work'[w])
  PROVE  Prefix(w)'
  <1> DEFINE rows == ReadableAfter(work[w].cursor)
  <1>1. /\ rows \in SUBSET Events
        /\ \A e \in rows : \A s \in Txs : s <= e[1] => tx[s] \in Ended
    BY DEF ReadableAfter, Visible, CdcTypeOK, BelowXmin, Ended
  <1>2. PICK batch : batch = FirstOf(rows, BatchSize)
    OBVIOUS
  <1>3. rows # {} /\ work'[w].batch = batch /\ work'[w].cursor = work[w].cursor
    BY <1>2 DEF Fetches
  <1>4. batch # {} /\ batch \subseteq rows /\ \A e \in rows, f \in batch : ~Above(e, f) => e \in batch
    <2> HIDE DEF rows
    <2> QED BY <1>1, <1>2, <1>3, BatchIsPrefix
  <1>5. ASSUME NEW e \in Visible, NEW f \in batch, Above(e, work[w].cursor), ~Above(e, f)
        PROVE  e \in batch
    <2>1. /\ f \in Events /\ f \in Cursors /\ e \in Events /\ e \in Cursors
          /\ e[1] \in Txs /\ f[1] \in Txs /\ e[1] <= f[1]
      BY <1>1, <1>4, <1>5, Parts, AboveIsOrder DEF Visible, CdcTypeOK
    <2>2. \A s \in Txs : s <= e[1] => s <= f[1]
      BY <2>1 DEF Txs
    <2>3. BelowXmin(e[1])
      BY <1>1, <1>4, <2>2 DEF BelowXmin, Ended
    <2>4. e \in rows
      BY <1>5, <2>3 DEF ReadableAfter
    <2> QED BY <1>4, <1>5, <2>4
  <1> QED BY <1>1, <1>3, <1>4, <1>5 DEF Prefix, Visible

LEMMA InitClosed == CdcInit => CursorsClosed
  <1> SUFFICES ASSUME CdcInit PROVE CursorsClosed
    OBVIOUS
  <1>1. \A s \in Txs : ~(s <= Origin[1])
    BY DEF Txs, Origin
  <1>2. Closed(checkpoint)
    BY <1>1 DEF CdcInit, Closed, Visible
  <1>3. \A w \in Workers : WorkerSound(w)
    BY DEF CdcInit, WorkerSound, Down
  <1> QED BY <1>2, <1>3 DEF CursorsClosed

\* Whoever stands still stays sound.
LEMMA RestSound ==
  ASSUME CdcTypeOK, Steady, NEW w \in Workers, WorkerSound(w), work'[w] = work[w]
  PROVE  WorkerSound(w)'
  <1>1. work[w].cursor \in Cursors
    BY DEF CdcTypeOK
  <1> QED BY <1>1, ClosedKept, PrefixKept DEF WorkerSound

LEMMA NextClosed == ~MayRotate /\ Known /\ CursorsClosed /\ [CdcNext]_cdcVars => CursorsClosed'
  <1> SUFFICES ASSUME ~MayRotate, Known, CursorsClosed, [CdcNext]_cdcVars PROVE CursorsClosed'
    OBVIOUS
  <1>1. CdcTypeOK /\ Steady
    BY StepSteady DEF Known
  <1>2. Closed(checkpoint) /\ checkpoint \in Cursors /\ Closed(checkpoint)'
    <2>1. Closed(checkpoint) /\ checkpoint \in Cursors
      BY <1>1 DEF CursorsClosed, CdcTypeOK
    <2>2. CASE UNCHANGED checkpoint
      BY <1>1, <2>1, <2>2, ClosedKept DEF Closed
    <2>3. ASSUME NEW w \in Workers, ReplaceCheckpoint(w), checkpoint' = work[w].cursor
          PROVE  Closed(checkpoint)'
      <3>1. Closed(work[w].cursor) /\ work[w].cursor \in Cursors
        BY <1>1, <2>3 DEF CursorsClosed, WorkerSound, ReplaceCheckpoint, CdcTypeOK
      <3>2. PICK c \in Cursors : c = work[w].cursor
        BY <3>1
      <3>3. Closed(c)'
        BY <1>1, <3>1, <3>2, ClosedKept
      <3> QED BY <2>3, <3>2, <3>3 DEF Closed
    <2>4. UNCHANGED checkpoint \/ \E w \in Workers : ReplaceCheckpoint(w) /\ checkpoint' = work[w].cursor
      BY DEF CdcNext, cdcVars, BeginTx, Capture, CommitTx, AbortTx, StartWorker, TryLock, LoseLead,
             WorkerStep, Poll, WriteLines, SyncAndAdvance, Skip, NotDue, CompareCheckpoint,
             ReplaceCheckpoint, CleanUp, Crash, LeadExpires, WriteBack, HostCrash, journal
    <2> QED BY <2>1, <2>2, <2>3, <2>4
  <1>3. ASSUME NEW w \in Workers, WorkerMoves(w)
        PROVE  \A v \in Workers : WorkerSound(v)'
    <2>1. PICK q \in WorkRows :
            /\ work' = [work EXCEPT ![w] = q]
            /\ \/ GoesOn(work[w], q) \/ Starts(q) \/ Stops(q)
               \/ Fetches(work[w], q) \/ Advances(work[w], q)
      BY <1>3, WorkerShape
    <2>2. work'[w] = q /\ \A v \in Workers : v # w => work'[v] = work[v]
      BY <1>1, <2>1, Moved
    <2>3. \A v \in Workers : v # w => WorkerSound(v)'
      BY <1>1, <2>2, RestSound DEF CursorsClosed
    <2>4. WorkerSound(w) /\ work[w].cursor \in Cursors /\ UNCHANGED tx
      BY <1>1, <1>3 DEF CursorsClosed, CdcTypeOK, WorkerMoves, StartWorker, TryLock, LoseLead,
             WorkerStep, Poll, WriteLines, SyncAndAdvance, Skip, NotDue, CompareCheckpoint,
             ReplaceCheckpoint, CleanUp, Crash, source
    <2>5. WorkerSound(w)'
      <3>1. CASE GoesOn(work[w], q)
        <4>1. PICK c \in Cursors : c = work[w].cursor
          BY <2>4
        <4>2. q.pc # "down" => q.cursor = c /\ Closed(c)'
          BY <1>1, <2>4, <3>1, <4>1, ClosedKept DEF WorkerSound, GoesOn
        <4>3. q.pc \in {"write", "sync"} => Prefix(w)'
          BY <1>1, <2>2, <2>4, <3>1, PrefixKept DEF GoesOn, WorkerSound
        <4> QED BY <2>2, <4>2, <4>3 DEF WorkerSound, Closed
      <3>2. CASE Starts(q)
        <4>1. PICK c \in Cursors : c = checkpoint
          BY <1>2
        <4>2. Closed(c)'
          BY <1>1, <1>2, <4>1, ClosedKept
        <4> QED BY <2>2, <3>2, <4>1, <4>2 DEF Starts, WorkerSound, Closed
      <3>3. CASE Stops(q)
        BY <2>2, <3>3 DEF Stops, WorkerSound
      <3>4. CASE Fetches(work[w], q)
        <4>1. work[w].pc = "idle" /\ q.cursor = work[w].cursor /\ q.pc = "write"
          BY <3>4 DEF Fetches
        <4>2. PICK c \in Cursors : c = work[w].cursor
          BY <2>4
        <4>3. Closed(c)'
          BY <1>1, <2>4, <4>1, <4>2, ClosedKept DEF WorkerSound
        <4>4. UNCHANGED table
          <5>1. q.pc = "write" /\ work'[w].pc = "write"
            BY <2>2, <4>1
          <5> QED BY <1>1, <1>3, <4>1, <5>1 DEF WorkerMoves, StartWorker, TryLock, LoseLead, WorkerStep,
                 Poll, WriteLines, SyncAndAdvance, Skip, NotDue, CompareCheckpoint, ReplaceCheckpoint,
                 CleanUp, Crash
        <4>5. Prefix(w)'
          BY <1>1, <2>2, <2>4, <3>4, <4>4, FetchIsPrefix
        <4> QED BY <2>2, <4>1, <4>2, <4>3, <4>5 DEF WorkerSound, Closed
      <3>5. CASE Advances(work[w], q)
        <4>1. Closed(work[w].cursor) /\ Prefix(w) /\ work[w].batch \subseteq synced'
          BY <2>4, <3>5 DEF Advances, WorkerSound
        <4>2. PICK c : c = LastOf(work[w].batch)
          OBVIOUS
        <4>3. Closed(c)'
          BY <1>1, <2>4, <4>1, <4>2, AdvanceIsClosed
        <4> QED BY <2>2, <3>5, <4>2, <4>3 DEF Advances, WorkerSound, Closed
      <3> QED BY <2>1, <3>1, <3>2, <3>3, <3>4, <3>5
    <2> QED BY <2>3, <2>5
  <1>4. CASE HostCrash
    <2>1. \A w \in Workers : work'[w].pc = "down"
      BY <1>4 DEF HostCrash, Down
    <2> QED BY <1>2, <2>1 DEF CursorsClosed, WorkerSound
  <1>5. CASE UNCHANGED work
    <2>1. \A w \in Workers : WorkerSound(w)'
      BY <1>1, <1>5, RestSound DEF CursorsClosed
    <2> QED BY <1>2, <2>1 DEF CursorsClosed
  <1>6. UNCHANGED work \/ HostCrash \/ \E w \in Workers : WorkerMoves(w)
    BY DEF CdcNext, WorkerMoves, cdcVars, BeginTx, Capture, CommitTx, AbortTx, LeadExpires, WriteBack
  <1> QED BY <1>2, <1>3, <1>4, <1>5, <1>6 DEF CursorsClosed

-----------------------------------------------------------------------------
(* The theorems.                                                           *)

LEMMA AlwaysClosed ==
  ASSUME ~MayRotate
  PROVE  CdcSpec => [](Known /\ CursorsClosed)
  <1>1. CdcInit => Known /\ CursorsClosed
    BY InitKnown, InitClosed
  <1>2. Known /\ CursorsClosed /\ [CdcNext]_cdcVars => (Known /\ CursorsClosed)'
    BY NextKnown, NextClosed
  <1> QED BY <1>1, <1>2, PTL DEF CdcSpec

\* Nothing of an aborted or unfinished transaction gets into the journal, with
\* rotation or without.
THEOREM NothingUncommitted == CdcSpec => [](CdcTypeOK /\ OnlyCommittedJournaled)
  BY AlwaysKnown, PTL DEF Known

\* As long as a batch stays within one file of the journal, what the cursors and the
\* checkpoint passed is on disk, and nothing else is in the journal.
THEOREM JournalAlwaysExact == ~MayRotate => (CdcSpec => []JournalIsExact)
  <1> SUFFICES ASSUME ~MayRotate PROVE CdcSpec => []JournalIsExact
    OBVIOUS
  <1>1. Known /\ CursorsClosed => JournalIsExact
    <2> SUFFICES ASSUME Known, CursorsClosed PROVE JournalIsExact
      OBVIOUS
    <2>1. ASSUME NEW e \in Visible, Passed(e) PROVE e \in synced
      <3>1. CASE ~Above(e, checkpoint)
        BY <2>1, <3>1 DEF CursorsClosed, Closed
      <3>2. CASE \E w \in Workers : work[w].pc # "down" /\ ~Above(e, work[w].cursor)
        BY <2>1, <3>2 DEF CursorsClosed, WorkerSound, Closed
      <3> QED BY <2>1, <3>1, <3>2 DEF Passed
    <2> QED BY <2>1 DEF Known, JournalIsExact, PassedIsJournaled
  <1> QED BY <1>1, AlwaysClosed, PTL

\* Then no event of a committed transaction leaves the table before the journal has
\* it on disk.
THEOREM DeletedOnlyWhenJournaled == ~MayRotate => (CdcSpec => DeletedIsJournaled)
  <1> SUFFICES ASSUME ~MayRotate PROVE CdcSpec => DeletedIsJournaled
    OBVIOUS
  <1> DEFINE Kept == \A e \in table \ table' : tx[e[1]] = "committed" => e \in synced
  <1>1. Known /\ CursorsClosed /\ [CdcNext]_cdcVars => [Kept]_cdcVars
    <2> SUFFICES ASSUME Known, CursorsClosed, CdcNext PROVE Kept
      OBVIOUS
    <2>1. ASSUME NEW w \in Workers, CleanUp(w) PROVE Kept
      <3>1. work[w].pc # "down" /\ Closed(work[w].cursor)
        BY <2>1 DEF CleanUp, CursorsClosed, WorkerSound
      <3> QED BY <2>1, <3>1 DEF CleanUp, Closed, Visible
    <2>2. ASSUME NEW t \in Txs, AbortTx(t) PROVE Kept
      BY <2>2 DEF AbortTx
    <2>3. CASE table \subseteq table'
      BY <2>3
    <2>4. \/ table \subseteq table' \/ (\E t \in Txs : AbortTx(t)) \/ (\E w \in Workers : CleanUp(w))
      BY DEF CdcNext, BeginTx, Capture, CommitTx, StartWorker, TryLock, LoseLead, WorkerStep, Poll,
             WriteLines, SyncAndAdvance, Skip, NotDue, CompareCheckpoint, ReplaceCheckpoint, Crash,
             LeadExpires, WriteBack, HostCrash
    <2> QED BY <2>1, <2>2, <2>3, <2>4
  <1> QED BY <1>1, AlwaysClosed, PTL DEF CdcSpec, DeletedIsJournaled

-----------------------------------------------------------------------------
(* CircuitBreaker, for any number of calls and any threshold.  The type    *)
(* invariant, the exclusive probe and the meaning of the failure count are *)
(* inductive together; the action properties follow from them.             *)

Inv == TypeOK /\ HalfOpenHasProbe /\ CountIsStreak

\* A step of the breaker keeps the invariant.
LEMMA StepKeepsInv == Inv /\ [Next]_vars => Inv'
<1> SUFFICES ASSUME Inv, [Next]_vars PROVE Inv'
  OBVIOUS
<1> USE BreakerAssumption DEF BreakerAssumption, Inv, TypeOK, States
<1>0. \A c \in Calls : call[c] = "probe" => state = "HALF_OPEN" /\ token = c
  BY DEF HalfOpenHasProbe
<1>a. 0 \in 0..(FailThreshold - 1)
  OBVIOUS
<1>1. CASE CoolDown
  BY <1>1 DEF CoolDown, HalfOpenHasProbe, CountIsStreak, HoldsProbe
<1>2. ASSUME NEW c \in Calls, BecomeProbe(c) PROVE Inv'
  <2>1. call' = [call EXCEPT ![c] = "probe"] /\ state' = "HALF_OPEN" /\ token' = c /\ probing'
    BY <1>2 DEF BecomeProbe
  <2>2. TypeOK'
    BY <1>2, <2>1 DEF BecomeProbe
  <2>3. \A d \in Calls : call[d] # "probe"
    BY <1>0, <1>2 DEF BecomeProbe
  <2>4. HalfOpenHasProbe'
    BY <2>1, <2>3 DEF HalfOpenHasProbe, HoldsProbe
  <2>5. CountIsStreak'
    BY <2>1 DEF CountIsStreak
  <2> QED BY <2>2, <2>4, <2>5
<1>3. ASSUME NEW c \in Calls, Pass(c) PROVE Inv'
  BY <1>3 DEF Pass, HalfOpenHasProbe, CountIsStreak, HoldsProbe
<1>4. ASSUME NEW c \in Calls, call[c] # "idle", Ends(c), token' = token,
             state' # "HALF_OPEN", ~probing', state = "HALF_OPEN" => HoldsProbe(c)
      PROVE  HalfOpenHasProbe'
  \* The probe, if there is one, is the call that ends.
  <2>1. call' = [call EXCEPT ![c] = "idle"]
    BY <1>4 DEF Ends
  <2>2. \A d \in Calls : call'[d] # "probe"
    BY <1>0, <1>4, <2>1 DEF HoldsProbe
  <2> QED BY <1>4, <2>2 DEF HalfOpenHasProbe
<1>5. ASSUME NEW c \in Calls, call[c] # "idle", Ends(c), ~HoldsProbe(c),
             UNCHANGED <<state, probing, token>>
      PROVE  HalfOpenHasProbe'
  \* A bystander ends; the probe, if there is one, stays.
  BY <1>5 DEF HalfOpenHasProbe, HoldsProbe, Ends
<1>6. ASSUME NEW c \in Calls, RecordSuccess(c) PROVE Inv'
  <2>a. failCount' \in 0..(FailThreshold - 1)
    BY <1>a, <1>6 DEF RecordSuccess
  <2>b. call' \in [Calls -> {"idle", "normal", "probe"}]
    BY <1>6 DEF RecordSuccess, Ends
  <2>c. state' \in States /\ streak' \in Nat
    BY <1>6 DEF RecordSuccess
  <2>d. probing' \in BOOLEAN
    BY <1>6 DEF RecordSuccess
  <2>0. TypeOK'
    BY <1>6, <2>a, <2>b, <2>c, <2>d DEF RecordSuccess
  <2>1. CountIsStreak'
    BY <1>6 DEF RecordSuccess, CountIsStreak
  <2>2. CASE state = "HALF_OPEN" /\ ~HoldsProbe(c)
    BY <1>5, <1>6, <2>0, <2>1, <2>2 DEF RecordSuccess
  <2>3. CASE ~(state = "HALF_OPEN" /\ ~HoldsProbe(c))
    BY <1>4, <1>6, <2>0, <2>1, <2>3 DEF RecordSuccess
  <2> QED BY <2>2, <2>3
<1>7. ASSUME NEW c \in Calls, ProbeFails(c) PROVE Inv'
  <2>a. failCount' \in 0..(FailThreshold - 1)
    BY <1>a, <1>7 DEF ProbeFails
  <2>b. call' \in [Calls -> {"idle", "normal", "probe"}]
    BY <1>7 DEF ProbeFails, Ends
  <2>1. TypeOK' /\ CountIsStreak'
    BY <1>7, <2>a, <2>b DEF ProbeFails, CountIsStreak
  <2>2. CASE HoldsProbe(c)
    BY <1>4, <1>7, <2>1, <2>2 DEF ProbeFails
  <2>3. CASE ~HoldsProbe(c)
    BY <1>5, <1>7, <2>1, <2>3 DEF ProbeFails
  <2> QED BY <2>2, <2>3
<1>8. ASSUME NEW c \in Calls, RecordFailure(c) PROVE Inv'
  <2>a. failCount' \in 0..(FailThreshold - 1)
    BY <1>a, <1>8 DEF RecordFailure
  <2>b. call' \in [Calls -> {"idle", "normal", "probe"}]
    BY <1>8 DEF RecordFailure, Ends
  <2>c. state' \in States /\ streak' \in Nat
    BY <1>8 DEF RecordFailure
  <2>d. probing' \in BOOLEAN
    BY <1>8 DEF RecordFailure
  <2>1. TypeOK'
    BY <1>8, <2>a, <2>b, <2>c, <2>d DEF RecordFailure
  <2>2. CountIsStreak'
    BY <1>8 DEF RecordFailure, CountIsStreak
  <2>3. HalfOpenHasProbe'
    <3>1. state' # "HALF_OPEN" /\ probing' = probing /\ token' = token
      BY <1>8 DEF RecordFailure
    <3>2. ~probing
      BY <1>8 DEF RecordFailure, HalfOpenHasProbe
    <3> QED BY <1>4, <1>8, <3>1, <3>2 DEF RecordFailure
  <2> QED BY <2>1, <2>2, <2>3
<1>9. ASSUME NEW c \in Calls, Cancel(c) PROVE Inv'
  <2>1. TypeOK' /\ CountIsStreak'
    BY <1>9 DEF Cancel, CountIsStreak, Ends
  <2>2. CASE state = "HALF_OPEN" /\ HoldsProbe(c)
    BY <1>4, <1>9, <2>1, <2>2 DEF Cancel
  <2>3. CASE ~(state = "HALF_OPEN" /\ HoldsProbe(c))
    <3>1. ~HoldsProbe(c)
      BY <1>0, <2>3 DEF HoldsProbe
    <3> QED BY <1>5, <1>9, <2>1, <2>3, <3>1 DEF Cancel
  <2> QED BY <2>2, <2>3
<1>10. CASE UNCHANGED vars
  BY <1>10 DEF vars, HalfOpenHasProbe, CountIsStreak, HoldsProbe
<1> QED
  BY <1>1, <1>2, <1>3, <1>6, <1>7, <1>8, <1>9, <1>10 DEF Next, Begin, Finish, Refuse

\* The invariant holds in every reachable state.
THEOREM BreakerInductive == Spec => []Inv
<1>1. Init => Inv
  <2> SUFFICES ASSUME Init PROVE Inv
    OBVIOUS
  <2>1. failCount \in 0..(FailThreshold - 1)
    BY BreakerAssumption DEF BreakerAssumption, Init
  <2>2. TypeOK
    BY <2>1 DEF Init, TypeOK, States
  <2>3. HalfOpenHasProbe /\ CountIsStreak
    BY DEF Init, HalfOpenHasProbe, CountIsStreak
  <2> QED BY <2>2, <2>3 DEF Inv
<1> QED
  BY <1>1, StepKeepsInv, PTL DEF Spec

\* _before, _record_success, _record_failure and _release_probe keep the fields
\* of a breaker within their types, the failure count below the threshold.
THEOREM BreakerTypeCorrect == Spec => []TypeOK
  BY BreakerInductive, PTL DEF Inv

\* The breaker is half open exactly while its one probe is in flight, so that no
\* ending of a call leaves it stuck and no second probe goes out.
THEOREM ProbeIsUnique == Spec => []HalfOpenHasProbe
  BY BreakerInductive, PTL DEF Inv

\* A closed breaker counts the failures since it closed or last succeeded.
THEOREM CountStartsAfresh == Spec => []CountIsStreak
  BY BreakerInductive, PTL DEF Inv

\* What a breaker keeps about its probe and its count is right in every state.
THEOREM BreakerStaysSound == Spec => []BreakerIsSound
  BY BreakerInductive, PTL DEF Inv, BreakerIsSound

\* A breaker that is not closed admits nothing but a probe, and none while one
\* is out.
THEOREM OnlyProbesPass == Spec => QuietWhileOpen
<1> DEFINE Quiet == \A c \in Calls :
          state # "CLOSED" /\ call[c] = "idle" /\ call'[c] # "idle" =>
              /\ call'[c] = "probe"
              /\ \A d \in Calls : call[d] # "probe"
<1>1. ASSUME Inv, [Next]_vars PROVE Quiet
  <2> SUFFICES ASSUME NEW c \in Calls, state # "CLOSED", call[c] = "idle", call'[c] # "idle"
               PROVE call'[c] = "probe" /\ \A d \in Calls : call[d] # "probe"
    OBVIOUS
  <2> USE <1>1 DEF Inv, TypeOK, HalfOpenHasProbe, States
  <2>1. PICK d \in Calls : Begin(d)
    BY DEF Next, Finish, RecordSuccess, ProbeFails, RecordFailure, Cancel, Ends, CoolDown, vars
  <2>2. c = d
    BY <2>1 DEF Begin, BecomeProbe, Pass, Refuse, vars
  <2> QED
    BY <2>1, <2>2 DEF Begin, BecomeProbe, Pass, Refuse, vars
<1>2. Inv /\ [Next]_vars => [Quiet]_vars
  BY <1>1
<1> QED
  BY <1>2, BreakerInductive, PTL DEF Spec, QuietWhileOpen

\* Only the end of a probe closes the breaker.
THEOREM OnlyProbesClose == Spec => ClosesByProbe
<1> DEFINE Closing == state # "CLOSED" /\ state' = "CLOSED" =>
          \E c \in Calls : call[c] = "probe" /\ call'[c] = "idle"
<1>1. ASSUME Inv, [Next]_vars PROVE Closing
  <2> SUFFICES ASSUME state # "CLOSED", state' = "CLOSED"
               PROVE \E c \in Calls : call[c] = "probe" /\ call'[c] = "idle"
    OBVIOUS
  <2> USE <1>1 DEF Inv, TypeOK, HalfOpenHasProbe, States
  <2>1. PICK d \in Calls : RecordSuccess(d)
    BY DEF Next, Begin, BecomeProbe, Pass, Refuse, Finish, ProbeFails, RecordFailure, Cancel, CoolDown,
           vars
  <2>2. HoldsProbe(d)
    BY <2>1 DEF RecordSuccess
  <2> QED
    BY <2>1, <2>2 DEF RecordSuccess, HoldsProbe, Ends
<1>2. Inv /\ [Next]_vars => [Closing]_vars
  BY <1>1
<1> QED
  BY <1>2, BreakerInductive, PTL DEF Spec, ClosesByProbe

\* Until the breaker closes again, probes alone reach the endpoint and decide.
THEOREM OnlyProbesDecide == Spec => ProbesDecide
  BY OnlyProbesPass, OnlyProbesClose, PTL DEF ProbesDecide
=============================================================================
