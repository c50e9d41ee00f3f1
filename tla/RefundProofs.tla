---------------------------- MODULE RefundProofs ----------------------------
(***************************************************************************)
(* Proofs about Refund for any sets of orders, keys, requests, loops and   *)
(* attempts, and whether or not a live request may be taken for dead.      *)
(***************************************************************************)
EXTENDS Refund, SetFacts

AttemptRows == [status : AttemptStatuses, order : Orders \cup {Nobody}, amount : Nat,
                key : Keys \cup {Nobody}, old : BOOLEAN]
RequestRows == [pc : Steps, order : Orders \cup {Nobody}, key : Keys \cup {Nobody},
                amount : Nat, att : Attempts \cup {Nobody}, ok : BOOLEAN, done : BOOLEAN]
LoopRows == [pc : {"idle", "select", "settle", "store"}, batch : SUBSET Attempts,
             att : Attempts \cup {Nobody}]

\* The channel has carried these out and said so.
Carried == {"channel_succeeded", "settled"}

\* The request still holds its key.
Live(w) == req[w].pc \notin {"idle", "release"}

\* An attempt names an order, a key and an amount; its status agrees with the channel.
AttemptInv ==
    \A a \in Attempts :
        /\ att[a].status # "free" =>
             att[a].order \in Orders /\ att[a].key \in Keys /\ att[a].amount > 0
        /\ att[a].status \in Carried => a \in returned
        /\ att[a].status \in {"free", "channel_failed"} => a \notin returned

\* What the program counter of a request says of the attempt in its hand.
Sound(q) ==
    /\ q.pc # "idle" => q.order \in Orders /\ q.key \in Keys
    /\ q.pc = "begin" => q.amount > 0
    /\ q.ok => q.pc \in {"record", "settle", "store", "fail", "release"}
    /\ q.done => q.pc \in {"settle", "store", "fail", "release"}
    /\ q.pc \in {"call", "record"} =>
         /\ q.att \in Attempts /\ att[q.att].order = q.order /\ att[q.att].key = q.key
         /\ att[q.att].status \in {"processing", "manual_review"}
    /\ q.pc = "call" => q.att \notin returned
    /\ q.pc = "record" => (q.ok <=> q.att \in returned)
    /\ q.pc = "settle" => q.att \in Attempts /\ att[q.att].status \in Carried /\ q.done

RequestInv == \A w \in Workers : Sound(req[w])

\* No two requests are calling the channel for the same attempt.
OwnAttempt ==
    \A v, w \in Workers :
        /\ req[v].pc \in {"call", "record"} /\ req[w].pc \in {"call", "record"}
        /\ req[v].att = req[w].att
        => v = w

\* What a loop has read as carried out still is, or is settled.
BatchInv ==
    \A r \in Recoverers :
        /\ \A a \in rec[r].batch : att[a].status \in Carried
        /\ rec[r].pc = "store" => rec[r].att \in Attempts /\ att[rec[r].att].status = "settled"

\* An order has one attempt in progress at most.
OneActive ==
    \A a, b \in Attempts :
        /\ att[a].status \in ActiveStatuses /\ att[b].status \in ActiveStatuses
        /\ att[a].order = att[b].order
        => a = b

\* A key belongs to one request at a time.
KeyOwner ==
    \A w \in Workers : Live(w) =>
        /\ idem[req[w].key] # "none"
        /\ \A v \in Workers : Live(v) /\ req[v].key = req[w].key => v = w

\* The key of an attempt that was carried out is never given back: whoever holds it
\* knows, and no other attempt of that key was carried out.
KeySpent ==
    \A a \in Attempts : att[a].status \in Carried =>
        /\ idem[att[a].key] # "none"
        /\ \A w \in Workers : Live(w) /\ req[w].key = att[a].key => req[w].done
        /\ \A b \in Attempts : att[b].status \in Carried /\ att[b].key = att[a].key => a = b

\* The sum of the books has finitely many terms.
FinitelySettled == \A o \in Orders : IsFiniteSet(SettledOf(o))

Inductive ==
    /\ TypeOK /\ AttemptInv /\ RequestInv /\ OwnAttempt /\ BatchInv /\ OneActive
    /\ KeyOwner /\ KeySpent
    /\ RefundWithinOrder /\ ReservationFits /\ FinitelySettled /\ BooksMatchChannel

\* The initial state satisfies the inductive invariant.
LEMMA InitInductive == Init => Inductive
  <1> SUFFICES ASSUME Init PROVE Inductive
    OBVIOUS
  <1>1. TypeOK
    BY DEF Init, TypeOK, OrderStatuses, RefundableStatuses, AttemptStatuses, Steps,
           FreeAttempt, IdleRequest, IdleLoop
  <1>2. AttemptInv /\ RequestInv /\ OwnAttempt /\ BatchInv /\ OneActive
    BY DEF Init, AttemptInv, RequestInv, Sound, OwnAttempt, BatchInv, OneActive, FreeAttempt,
           IdleRequest, IdleLoop, Carried, ActiveStatuses
  <1>3. KeyOwner /\ KeySpent
    BY DEF Init, KeyOwner, KeySpent, Live, FreeAttempt, IdleRequest, Carried
  <1>4. \A o \in Orders : SettledOf(o) = {}
    BY DEF Init, SettledOf, FreeAttempt
  <1>5. RefundWithinOrder /\ ReservationFits
    BY RefundAssumption DEF Init, RefundWithinOrder, ReservationFits, ActiveAttempts, FreeAttempt,
       ActiveStatuses
  <1>6. FinitelySettled /\ BooksMatchChannel
    BY <1>4, FS_EmptySet, SumEmpty DEF Init, FinitelySettled, BooksMatchChannel, Total
  <1> QED BY <1>1, <1>2, <1>3, <1>5, <1>6 DEF Inductive

-----------------------------------------------------------------------------
(* Steps that leave the books (orders, refunds, attempts, the channel) alone. *)

\* What is said of the books alone survives them.
LEMMA BooksKept ==
  ASSUME AttemptInv, OneActive, RefundWithinOrder, ReservationFits, FinitelySettled,
         BooksMatchChannel, UNCHANGED <<order, refunded, att, returned>>
  PROVE  /\ AttemptInv' /\ OneActive' /\ RefundWithinOrder' /\ ReservationFits'
         /\ FinitelySettled' /\ BooksMatchChannel'
  BY DEF AttemptInv, OneActive, RefundWithinOrder, ReservationFits, FinitelySettled,
         BooksMatchChannel, Total, Amounts, SettledOf, ActiveAttempts

\* A request that moves on without touching the books, and what may become of keys
\* and locks meanwhile.
LEMMA RequestMoves ==
  ASSUME Inductive, UNCHANGED <<order, refunded, att, returned, rec>>,
         NEW w \in Workers, NEW q \in RequestRows, req' = [req EXCEPT ![w] = q], Sound(q),
         q.pc \in {"call", "record"} => req[w].pc \in {"call", "record"} /\ q.att = req[w].att,
         lock' \in [Orders -> Workers \cup {Nobody}],
         idem' \in [Keys -> {"none", "processing", "done"}],
         \A v \in Workers \ {w} : Live(v) => idem'[req[v].key] # "none",
         q.pc \notin {"idle", "release"} =>
           /\ idem'[q.key] # "none"
           /\ \A v \in Workers \ {w} : Live(v) => req[v].key # q.key,
         \A a \in Attempts : att[a].status \in Carried =>
           /\ idem'[att[a].key] # "none"
           /\ q.pc \notin {"idle", "release"} /\ q.key = att[a].key => q.done
  PROVE  Inductive'
  <1> USE DEF Inductive
  <1>1. /\ req' \in [Workers -> RequestRows] /\ req'[w] = q
        /\ \A v \in Workers : v # w => req'[v] = req[v]
    BY DEF TypeOK, RequestRows
  <1>2. TypeOK'
    BY <1>1 DEF TypeOK, RequestRows
  <1>3. RequestInv'
    BY <1>1 DEF RequestInv, Sound
  <1>4. OwnAttempt'
    BY <1>1 DEF OwnAttempt
  <1>5. KeyOwner'
    BY <1>1 DEF KeyOwner, Live
  <1>6. KeySpent'
    BY <1>1 DEF KeySpent, Live
  <1>7. BatchInv'
    BY DEF BatchInv
  <1> QED BY <1>2, <1>3, <1>4, <1>5, <1>6, <1>7, BooksKept

\* Another request than the one that holds a key does not hold it.
LEMMA ClaimKeeps ==
  ASSUME Inductive, NEW w \in Workers, NEW o \in Orders, NEW k \in Keys, NEW n \in Wanted(o),
         ClaimKey(w, o, k, n)
  PROVE  Inductive'
  <1> DEFINE q == [IdleRequest EXCEPT !.pc = "lock", !.order = o, !.key = k, !.amount = n]
  <1>1. n \in Nat
    BY RefundAssumption DEF Wanted, Rest
  <1>2. q \in RequestRows /\ q.pc = "lock" /\ q.key = k /\ ~q.done /\ Sound(q)
    BY <1>1 DEF IdleRequest, RequestRows, Steps, Sound
  <1>3. req' = [req EXCEPT ![w] = q] /\ idem[k] = "none" /\ idem' = [idem EXCEPT ![k] = "processing"]
    BY DEF ClaimKey
  <1>4. UNCHANGED <<order, refunded, att, returned, rec, lock>>
    BY DEF ClaimKey
  <1> HIDE DEF q
  <1>5. \A v \in Workers : Live(v) => req[v].key \in Keys /\ req[v].key # k
    BY <1>3 DEF Inductive, KeyOwner, RequestInv, Sound, Live
  <1>6. \A a \in Attempts : att[a].status \in Carried => att[a].key \in Keys /\ att[a].key # k
    BY <1>3 DEF Inductive, KeySpent, AttemptInv, Carried
  <1>7. idem \in [Keys -> {"none", "processing", "done"}] /\ lock \in [Orders -> Workers \cup {Nobody}]
    BY DEF Inductive, TypeOK
  <1>8. /\ idem' \in [Keys -> {"none", "processing", "done"}] /\ idem'[k] = "processing"
        /\ \A j \in Keys : j # k => idem'[j] = idem[j]
    BY <1>3, <1>7
  <1>9. \A v \in Workers : Live(v) => idem[req[v].key] # "none"
    BY DEF Inductive, KeyOwner
  <1>10. \A a \in Attempts : att[a].status \in Carried => idem[att[a].key] # "none"
    BY DEF Inductive, KeySpent
  <1> QED BY <1>2, <1>3, <1>4, <1>5, <1>6, <1>7, <1>8, <1>9, <1>10, RequestMoves

\* A request that keeps its key, or has none any more, while the keys stay as they are.
LEMMA KeyedMoves ==
  ASSUME Inductive, UNCHANGED <<order, refunded, att, returned, rec, idem>>,
         NEW w \in Workers, NEW q \in RequestRows, req' = [req EXCEPT ![w] = q], Sound(q),
         q.pc \in {"call", "record"} => req[w].pc \in {"call", "record"} /\ q.att = req[w].att,
         lock' \in [Orders -> Workers \cup {Nobody}],
         q.pc \notin {"idle", "release"} =>
           Live(w) /\ q.key = req[w].key /\ (req[w].done => q.done)
  PROVE  Inductive'
  <1>1. idem' \in [Keys -> {"none", "processing", "done"}]
    BY DEF Inductive, TypeOK
  <1>2. \A v \in Workers \ {w} : Live(v) => idem'[req[v].key] # "none"
    BY DEF Inductive, KeyOwner
  <1>3. q.pc \notin {"idle", "release"} =>
           /\ idem'[q.key] # "none"
           /\ \A v \in Workers \ {w} : Live(v) => req[v].key # q.key
    BY DEF Inductive, KeyOwner
  <1>4. \A a \in Attempts : att[a].status \in Carried =>
           /\ idem'[att[a].key] # "none"
           /\ q.pc \notin {"idle", "release"} /\ q.key = att[a].key => q.done
    BY DEF Inductive, KeySpent
  <1> QED BY <1>1, <1>2, <1>3, <1>4, RequestMoves

\* Steps of a request that leave books and keys alone.
LEMMA WalksKeep ==
  ASSUME Inductive, NEW w \in Workers,
         LoadOrder(w) \/ ChannelDeclines(w) \/ ReleaseLock(w) \/ StepFails(w) \/ Crash(w)
  PROVE  Inductive'
  <1>1. req[w] \in RequestRows /\ Sound(req[w]) /\ lock \in [Orders -> Workers \cup {Nobody}]
    BY DEF Inductive, TypeOK, RequestInv, RequestRows
  <1>2. UNCHANGED <<order, refunded, att, returned, rec, idem>>
    BY DEF LoadOrder, ChannelDeclines, ReleaseLock, StepFails, Crash
  <1>3. lock' \in [Orders -> Workers \cup {Nobody}]
    BY <1>1 DEF LoadOrder, ChannelDeclines, ReleaseLock, StepFails, Crash
  <1>4. CASE LoadOrder(w)
    <2> DEFINE amount == IF req[w].amount = Rest THEN Remaining(req[w].order) ELSE req[w].amount
    <2>1. CASE Refundable(req[w].order, amount) /\ req' = [req EXCEPT ![w] = [@ EXCEPT !.pc = "begin", !.amount = amount]]
      <3> DEFINE q == [req[w] EXCEPT !.pc = "begin", !.amount = amount]
      <3>1. req[w].order \in Orders
        BY <1>1, <1>4 DEF LoadOrder, Sound
      <3>2. amount \in Nat /\ amount > 0
        BY <1>1, <2>1, <3>1, RefundAssumption
           DEF Inductive, TypeOK, RequestRows, Remaining, RefundWithinOrder, Refundable
      <3> HIDE DEF amount
      <3>3. q \in RequestRows /\ Sound(q) /\ q.pc = "begin" /\ q.key = req[w].key /\ q.done = req[w].done
        BY <1>1, <1>4, <3>2 DEF RequestRows, Steps, Sound, LoadOrder
      <3>4. req' = [req EXCEPT ![w] = q] /\ Live(w)
        BY <1>4, <2>1 DEF LoadOrder, Live
      <3> HIDE DEF q
      <3> QED BY <1>2, <1>3, <3>3, <3>4, KeyedMoves
    <2>2. CASE Go(w, "fail")
      <3> DEFINE q == [req[w] EXCEPT !.pc = "fail"]
      <3>1. q \in RequestRows /\ Sound(q) /\ q.pc = "fail" /\ q.key = req[w].key /\ q.done = req[w].done
        BY <1>1, <1>4 DEF RequestRows, Steps, Sound, LoadOrder
      <3>2. req' = [req EXCEPT ![w] = q] /\ Live(w)
        BY <1>4, <2>2 DEF LoadOrder, Live, Go
      <3> HIDE DEF q
      <3> QED BY <1>2, <1>3, <3>1, <3>2, KeyedMoves
    <2> QED BY <1>4, <2>1, <2>2 DEF LoadOrder
  <1>5. CASE ChannelDeclines(w)
    <2> DEFINE q == [req[w] EXCEPT !.pc = "record"]
    <2>1. /\ q \in RequestRows /\ Sound(q) /\ q.pc = "record" /\ q.key = req[w].key
          /\ q.done = req[w].done /\ q.att = req[w].att
      BY <1>1, <1>5 DEF RequestRows, Steps, Sound, ChannelDeclines
    <2>2. req' = [req EXCEPT ![w] = q] /\ req[w].pc = "call" /\ Live(w)
      BY <1>5 DEF ChannelDeclines, Live, Go
    <2> HIDE DEF q
    <2> QED BY <1>2, <1>3, <2>1, <2>2, KeyedMoves
  <1>6. CASE StepFails(w)
    <2> DEFINE q == [req[w] EXCEPT !.pc = "fail"]
    <2>1. q \in RequestRows /\ Sound(q) /\ q.pc = "fail" /\ q.key = req[w].key /\ q.done = req[w].done
      BY <1>1, <1>6 DEF RequestRows, Steps, Sound, StepFails
    <2>2. req' = [req EXCEPT ![w] = q] /\ Live(w)
      BY <1>6 DEF StepFails, Live, Go
    <2> HIDE DEF q
    <2> QED BY <1>2, <1>3, <2>1, <2>2, KeyedMoves
  <1>7. CASE ReleaseLock(w) \/ Crash(w)
    <2>1. IdleRequest \in RequestRows /\ Sound(IdleRequest) /\ IdleRequest.pc = "idle"
      BY DEF IdleRequest, RequestRows, Steps, Sound
    <2>2. req' = [req EXCEPT ![w] = IdleRequest]
      BY <1>7 DEF ReleaseLock, Crash
    <2> QED BY <1>2, <1>3, <2>1, <2>2, KeyedMoves
  <1> QED BY <1>4, <1>5, <1>6, <1>7

\* A request that ends and leaves its key with a result, or gives it back because it
\* knows of nothing that was carried out.
LEMMA KeyLeft ==
  ASSUME Inductive, UNCHANGED <<order, refunded, att, returned, rec>>,
         NEW w \in Workers, NEW q \in RequestRows, req' = [req EXCEPT ![w] = q], Sound(q),
         q.pc \in {"idle", "release"}, Live(w),
         lock' \in [Orders -> Workers \cup {Nobody}],
         NEW x \in {"none", "done"}, x = "none" => ~req[w].done,
         idem' \in {idem, [idem EXCEPT ![req[w].key] = x]}
  PROVE  Inductive'
  <1>1. req[w].key \in Keys /\ idem \in [Keys -> {"none", "processing", "done"}]
    BY DEF Inductive, TypeOK, RequestInv, Sound, Live
  <1>2. /\ idem' \in [Keys -> {"none", "processing", "done"}]
        /\ \A k \in Keys : k # req[w].key => idem'[k] = idem[k]
        /\ idem'[req[w].key] \in {idem[req[w].key], x}
    BY <1>1
  <1>3. \A v \in Workers \ {w} : Live(v) => req[v].key \in Keys /\ req[v].key # req[w].key
    BY DEF Inductive, KeyOwner, RequestInv, Sound, Live
  <1>4. \A v \in Workers \ {w} : Live(v) => idem'[req[v].key] # "none"
    BY <1>2, <1>3 DEF Inductive, KeyOwner
  <1>5. \A a \in Attempts : att[a].status \in Carried => idem'[att[a].key] # "none"
    <2> TAKE a \in Attempts
    <2> HAVE att[a].status \in Carried
    <2>1. att[a].key \in Keys /\ idem[att[a].key] # "none"
      BY DEF Inductive, KeySpent, AttemptInv, Carried
    <2>2. att[a].key = req[w].key => req[w].done
      BY DEF Inductive, KeySpent
    <2> QED BY <1>2, <2>1, <2>2
  <1> QED BY <1>2, <1>4, <1>5, RequestMoves

\* Steps of a request that end its hold of the key.
LEMMA EndsKeep ==
  ASSUME Inductive, NEW w \in Workers, AcquireLock(w) \/ StoreResult(w) \/ HandleError(w)
  PROVE  Inductive'
  <1>1. req[w] \in RequestRows /\ Sound(req[w]) /\ lock \in [Orders -> Workers \cup {Nobody}]
    BY DEF Inductive, TypeOK, RequestInv, RequestRows
  <1>2. UNCHANGED <<order, refunded, att, returned, rec>> /\ Live(w)
    BY DEF AcquireLock, StoreResult, HandleError, Live
  <1>3. CASE AcquireLock(w)
    <2>1. CASE lock' = [lock EXCEPT ![req[w].order] = w] /\ Go(w, "load") /\ UNCHANGED idem
      <3> DEFINE q == [req[w] EXCEPT !.pc = "load"]
      <3>1. q \in RequestRows /\ Sound(q) /\ q.pc = "load" /\ q.key = req[w].key /\ q.done = req[w].done
        BY <1>1, <1>3 DEF RequestRows, Steps, Sound, AcquireLock
      <3>2. req' = [req EXCEPT ![w] = q] /\ lock' \in [Orders -> Workers \cup {Nobody}]
        BY <1>1, <2>1 DEF Go
      <3> HIDE DEF q
      <3> QED BY <1>2, <2>1, <3>1, <3>2, KeyedMoves
    <2>2. CASE /\ idem' = [idem EXCEPT ![req[w].key] = "none"]
               /\ req' = [req EXCEPT ![w] = IdleRequest] /\ UNCHANGED lock
      <3>1. IdleRequest \in RequestRows /\ Sound(IdleRequest) /\ IdleRequest.pc = "idle"
        BY DEF IdleRequest, RequestRows, Steps, Sound
      <3>2. ~req[w].done
        BY <1>1, <1>3 DEF Sound, AcquireLock
      <3> QED BY <1>1, <1>2, <2>2, <3>1, <3>2, KeyLeft
    <2> QED BY <1>3, <2>1, <2>2 DEF AcquireLock
  <1>4. CASE StoreResult(w) \/ HandleError(w)
    <2> DEFINE q == [req[w] EXCEPT !.pc = "release"]
    <2>1. q \in RequestRows /\ Sound(q) /\ q.pc = "release"
      BY <1>1, <1>4 DEF RequestRows, Steps, Sound, StoreResult, HandleError
    <2>2. req' = [req EXCEPT ![w] = q] /\ lock' = lock
      BY <1>4 DEF StoreResult, HandleError, Go
    <2>3. \E x \in {"none", "done"} :
             (x = "none" => ~req[w].done) /\ idem' \in {idem, [idem EXCEPT ![req[w].key] = x]}
      BY <1>4 DEF StoreResult, HandleError
    <2> HIDE DEF q
    <2> QED BY <1>1, <1>2, <2>1, <2>2, <2>3, KeyLeft
  <1> QED BY <1>3, <1>4

-----------------------------------------------------------------------------
(* Steps that begin, carry out or record an attempt.                       *)

\* A request that meets an attempt of its order, or an order with nothing left.
LEMMA ReuseKeeps ==
  ASSUME Inductive, NEW w \in Workers, BeginAttempt(w), UNCHANGED att
  PROVE  Inductive'
  <1>1. /\ req[w] \in RequestRows /\ Sound(req[w]) /\ Live(w) /\ req[w].pc = "begin"
        /\ lock \in [Orders -> Workers \cup {Nobody}]
    BY DEF Inductive, TypeOK, RequestInv, RequestRows, BeginAttempt, Live
  <1>2. UNCHANGED <<order, refunded, att, returned, rec, idem, lock>>
    BY DEF BeginAttempt
  <1>3. CASE Go(w, "fail")
    <2> DEFINE q == [req[w] EXCEPT !.pc = "fail"]
    <2>1. q \in RequestRows /\ Sound(q) /\ q.pc = "fail" /\ q.key = req[w].key /\ q.done = req[w].done
      BY <1>1 DEF RequestRows, Steps, Sound
    <2>2. req' = [req EXCEPT ![w] = q]
      BY <1>3 DEF Go
    <2> HIDE DEF q
    <2> QED BY <1>1, <1>2, <2>1, <2>2, KeyedMoves
  <1>4. ASSUME NEW a \in ActiveAttempts(req[w].order), att[a].status = "channel_succeeded",
               req' = [req EXCEPT ![w] = [@ EXCEPT !.pc = "settle", !.att = a, !.done = TRUE]]
        PROVE  Inductive'
    <2> DEFINE q == [req[w] EXCEPT !.pc = "settle", !.att = a, !.done = TRUE]
    <2>1. a \in Attempts
      BY DEF ActiveAttempts
    <2>2. q \in RequestRows /\ Sound(q) /\ q.pc = "settle" /\ q.key = req[w].key /\ q.done = TRUE
      BY <1>1, <1>4, <2>1 DEF RequestRows, Steps, Sound, Carried
    <2>3. req' = [req EXCEPT ![w] = q]
      BY <1>4
    <2> HIDE DEF q
    <2> QED BY <1>1, <1>2, <2>2, <2>3, KeyedMoves
  <1>5. CASE \E a \in Attempts :
                /\ att[a].status = "free"
                /\ att' = [att EXCEPT ![a] =
                             [status |-> "processing", order |-> req[w].order, key |-> req[w].key,
                              amount |-> ClampedQuota(req[w].order, req[w].amount), old |-> FALSE]]
    BY <1>5 DEF Inductive, TypeOK
  <1> QED BY <1>3, <1>4, <1>5 DEF BeginAttempt

\* As long as the settled attempts are the same, so are the books.
LEMMA SettledSame ==
  ASSUME FinitelySettled, BooksMatchChannel, refunded' = refunded, returned \subseteq returned',
         \A b \in Attempts :
            /\ att'[b].status = "settled" <=> att[b].status = "settled"
            /\ att'[b].order = att[b].order \/ att[b].status # "settled"
            /\ att'[b].amount = att[b].amount \/ att[b].status # "settled"
  PROVE  FinitelySettled' /\ BooksMatchChannel'
  <1>1. ASSUME NEW o \in Orders PROVE SettledOf(o)' = SettledOf(o)
    BY DEF SettledOf
  <1>2. ASSUME NEW o \in Orders PROVE Total(SettledOf(o))' = Total(SettledOf(o))
    <2>1. SettledOf(o) \subseteq Attempts /\ IsFiniteSet(SettledOf(o))
      BY DEF SettledOf, FinitelySettled
    <2>2. \A b \in SettledOf(o) : Amounts'[b] = Amounts[b]
      BY <2>1 DEF Amounts, SettledOf
    <2>3. SumFunctionOnSet(Amounts', SettledOf(o)) = SumFunctionOnSet(Amounts, SettledOf(o))
      BY <2>1, <2>2, SumSame
    <2> QED BY <1>1, <2>3 DEF Total
  <1> QED BY <1>1, <1>2 DEF FinitelySettled, BooksMatchChannel

\* A new attempt reserves what the order still has.
LEMMA ReserveKeeps ==
  ASSUME Inductive, NEW w \in Workers, NEW a \in Attempts, BeginAttempt(w),
         ActiveAttempts(req[w].order) = {}, Remaining(req[w].order) > 0, att[a].status = "free",
         att' = [att EXCEPT ![a] =
                   [status |-> "processing", order |-> req[w].order, key |-> req[w].key,
                    amount |-> ClampedQuota(req[w].order, req[w].amount), old |-> FALSE]],
         req' = [req EXCEPT ![w] = [@ EXCEPT !.pc = "call", !.att = a]]
  PROVE  Inductive'
  <1> USE DEF Inductive
  <1> DEFINE o == req[w].order
             n == ClampedQuota(o, req[w].amount)
             row == [status |-> "processing", order |-> o, key |-> req[w].key, amount |-> n,
                     old |-> FALSE]
             q == [req[w] EXCEPT !.pc = "call", !.att = a]
  <1>1. /\ UNCHANGED <<order, refunded, returned, idem, lock, rec>>
        /\ req[w].pc = "begin" /\ req[w] \in RequestRows /\ Sound(req[w])
    BY DEF TypeOK, RequestInv, RequestRows, BeginAttempt
  <1>2. o \in Orders /\ req[w].key \in Keys /\ req[w].amount > 0 /\ a \notin returned
    BY <1>1 DEF Sound, AttemptInv
  <1>3. n \in Nat /\ n > 0 /\ refunded[o] + n <= Amount[o]
    BY <1>1, <1>2, RefundAssumption
       DEF TypeOK, RequestRows, ClampedQuota, Remaining, RefundWithinOrder
  <1> HIDE DEF n, o
  <1>4. row \in AttemptRows
    BY <1>1, <1>2, <1>3 DEF AttemptRows, AttemptStatuses, RequestRows
  <1>5. /\ att' \in [Attempts -> AttemptRows] /\ att'[a] = row
        /\ \A b \in Attempts : b # a => att'[b] = att[b]
    BY <1>4 DEF TypeOK, AttemptRows, o, n
  <1>6. /\ q \in RequestRows /\ q.pc = "call" /\ q.att = a /\ q.order = o /\ q.key = req[w].key
        /\ ~q.ok /\ ~q.done
    BY <1>1 DEF RequestRows, Steps, Sound, o
  <1>7. /\ req' \in [Workers -> RequestRows] /\ req'[w] = q
        /\ \A v \in Workers : v # w => req'[v] = req[v]
    BY <1>6 DEF TypeOK, RequestRows
  <1>8. row.status = "processing" /\ row.order = o /\ row.key = req[w].key /\ row.amount = n
    OBVIOUS
  <1> HIDE DEF q, row
  <1>9. TypeOK'
    BY <1>1, <1>5, <1>7 DEF TypeOK, AttemptRows, RequestRows
  <1>10. AttemptInv'
    BY <1>1, <1>2, <1>3, <1>5, <1>8 DEF AttemptInv, Carried
  <1>11. RequestInv'
    <2> SUFFICES ASSUME NEW v \in Workers PROVE Sound(req[v])'
      BY DEF RequestInv
    <2>1. CASE v = w
      BY <1>1, <1>2, <1>5, <1>6, <1>7, <1>8, <2>1 DEF Sound
    <2>2. CASE v # w
      BY <1>1, <1>5, <1>7, <2>2 DEF Sound, RequestInv, Carried
    <2> QED BY <2>1, <2>2
  <1>12. OwnAttempt'
    BY <1>1, <1>6, <1>7 DEF OwnAttempt, RequestInv, Sound
  <1>13. BatchInv'
    BY <1>1, <1>5 DEF BatchInv, TypeOK, Carried
  <1>14. OneActive'
    BY <1>5, <1>8 DEF OneActive, ActiveAttempts, o
  <1>15. KeyOwner'
    BY <1>1, <1>6, <1>7 DEF KeyOwner, Live
  <1>16. KeySpent'
    BY <1>1, <1>5, <1>6, <1>7, <1>8 DEF KeySpent, Live, Carried
  <1>17. RefundWithinOrder'
    BY <1>1 DEF RefundWithinOrder
  <1>18. ReservationFits'
    BY <1>1, <1>3, <1>5, <1>8 DEF ReservationFits, ActiveAttempts
  <1>19. FinitelySettled' /\ BooksMatchChannel'
    BY <1>1, <1>5, <1>8, SettledSame
  <1> QED BY <1>9, <1>10, <1>11, <1>12, <1>13, <1>14, <1>15, <1>16, <1>17, <1>18, <1>19

\* begin_channel_attempt as a whole.
LEMMA BeginKeeps ==
  ASSUME Inductive, NEW w \in Workers, BeginAttempt(w)
  PROVE  Inductive'
  <1>1. CASE UNCHANGED att
    BY <1>1, ReuseKeeps
  <1>2. CASE att' # att
    BY <1>2, ReserveKeeps DEF BeginAttempt
  <1> QED BY <1>1, <1>2

\* The channel refunds, in time or not.
LEMMA ChannelKeeps ==
  ASSUME Inductive, NEW w \in Workers, ChannelRefunds(w) \/ ChannelTimesOut(w)
  PROVE  Inductive'
  <1> USE DEF Inductive
  <1> DEFINE a == req[w].att
  <1>1. /\ UNCHANGED <<order, refunded, att, idem, lock, rec>>
        /\ req[w].pc = "call" /\ req[w] \in RequestRows /\ Sound(req[w])
        /\ returned' \in {returned, returned \cup {a}}
    BY DEF TypeOK, RequestInv, RequestRows, ChannelRefunds, ChannelTimesOut
  <1>2. a \in Attempts /\ att[a].status \in {"processing", "manual_review"} /\ a \notin returned
    BY <1>1 DEF Sound
  <1>3. PICK q \in RequestRows :
          /\ req' = [req EXCEPT ![w] = q]
          /\ q.order = req[w].order /\ q.key = req[w].key /\ q.att = a /\ ~q.done
          /\ \/ q.pc = "fail"
             \/ q.pc = "record" /\ q.ok /\ a \in returned'
    <2>1. CASE ChannelRefunds(w)
      <3> DEFINE q == [req[w] EXCEPT !.pc = "record", !.ok = TRUE]
      <3>1. /\ q \in RequestRows /\ q.order = req[w].order /\ q.key = req[w].key /\ q.att = a
            /\ ~q.done /\ q.pc = "record" /\ q.ok
        BY <1>1 DEF RequestRows, Steps, Sound
      <3>2. req' = [req EXCEPT ![w] = q] /\ a \in returned'
        BY <2>1 DEF ChannelRefunds
      <3> HIDE DEF q
      <3> QED BY <3>1, <3>2
    <2>2. CASE ChannelTimesOut(w)
      <3> DEFINE q == [req[w] EXCEPT !.pc = "fail"]
      <3>1. /\ q \in RequestRows /\ q.order = req[w].order /\ q.key = req[w].key /\ q.att = a
            /\ ~q.done /\ q.pc = "fail"
        BY <1>1 DEF RequestRows, Steps, Sound
      <3>2. req' = [req EXCEPT ![w] = q]
        BY <2>2 DEF ChannelTimesOut, Go
      <3> HIDE DEF q
      <3> QED BY <3>1, <3>2
    <2> QED BY <2>1, <2>2
  <1>4. /\ req' \in [Workers -> RequestRows] /\ req'[w] = q
        /\ \A v \in Workers : v # w => req'[v] = req[v]
    BY <1>3 DEF TypeOK, RequestRows
  <1>5. TypeOK'
    BY <1>1, <1>2, <1>4 DEF TypeOK, RequestRows
  <1>6. AttemptInv'
    BY <1>1, <1>2 DEF AttemptInv
  <1>7. RequestInv'
    <2> SUFFICES ASSUME NEW v \in Workers PROVE Sound(req[v])'
      BY DEF RequestInv
    <2>1. CASE v = w
      BY <1>1, <1>2, <1>3, <1>4, <2>1 DEF Sound
    <2>2. CASE v # w
      <3>1. req[v].pc \in {"call", "record"} => req[v].att # a
        BY <1>1, <2>2 DEF OwnAttempt
      <3> QED BY <1>1, <1>4, <2>2, <3>1 DEF Sound, RequestInv
    <2> QED BY <2>1, <2>2
  <1>8. OwnAttempt'
    BY <1>1, <1>3, <1>4 DEF OwnAttempt
  <1>9. KeyOwner'
    BY <1>1, <1>3, <1>4 DEF KeyOwner, Live
  <1>10. KeySpent'
    BY <1>1, <1>3, <1>4 DEF KeySpent, Live, Sound
  <1>11. BatchInv' /\ OneActive' /\ RefundWithinOrder' /\ ReservationFits'
    BY <1>1 DEF BatchInv, OneActive, RefundWithinOrder, ReservationFits, ActiveAttempts
  <1>12. FinitelySettled' /\ BooksMatchChannel'
    BY <1>1, SettledSame
  <1> QED BY <1>5, <1>6, <1>7, <1>8, <1>9, <1>10, <1>11, <1>12

\* record_channel_result: the row takes the answer, or it does not and the request
\* remembers whether the channel paid.
LEMMA RecordKeeps ==
  ASSUME Inductive, NEW w \in Workers, RecordChannelResult(w)
  PROVE  Inductive'
  <1> USE DEF Inductive
  <1> DEFINE a == req[w].att
             ok == req[w].ok
             status == IF ok THEN "channel_succeeded" ELSE "channel_failed"
  <1>1. /\ UNCHANGED <<order, refunded, returned, idem, lock, rec>> /\ Live(w)
        /\ req[w].pc = "record" /\ req[w] \in RequestRows /\ Sound(req[w]) /\ ~req[w].done
    BY DEF TypeOK, RequestInv, RequestRows, RecordChannelResult, Live, Sound
  <1>2. /\ a \in Attempts /\ att[a].status \in {"processing", "manual_review"}
        /\ (ok <=> a \in returned) /\ ok \in BOOLEAN
        /\ att[a].order = req[w].order /\ att[a].key = req[w].key
    BY <1>1 DEF Sound, RequestRows
  <1>3. CASE UNCHANGED att /\ req' = [req EXCEPT ![w] = [@ EXCEPT !.pc = "fail", !.done = ok]]
    <2> DEFINE q == [req[w] EXCEPT !.pc = "fail", !.done = ok]
    <2>1. q \in RequestRows /\ Sound(q) /\ q.pc = "fail" /\ q.key = req[w].key
      BY <1>1, <1>2 DEF RequestRows, Steps, Sound
    <2>2. req' = [req EXCEPT ![w] = q] /\ lock' \in [Orders -> Workers \cup {Nobody}]
      BY <1>1, <1>3 DEF TypeOK
    <2> HIDE DEF q
    <2> QED BY <1>1, <1>3, <2>1, <2>2, KeyedMoves
  <1>4. CASE /\ att[a].status = "processing"
             /\ att' = [att EXCEPT ![a] = [@ EXCEPT !.status = status, !.old = FALSE]]
             /\ req' = [req EXCEPT ![w] = [@ EXCEPT !.pc = IF ok THEN "settle" ELSE "fail", !.done = ok]]
    <2> DEFINE row == [att[a] EXCEPT !.status = status, !.old = FALSE]
               q == [req[w] EXCEPT !.pc = IF ok THEN "settle" ELSE "fail", !.done = ok]
    <2>1. att[a] \in AttemptRows
      BY <1>2 DEF TypeOK, AttemptRows
    <2>2. /\ row \in AttemptRows /\ row.status = status /\ row.order = att[a].order
          /\ row.key = att[a].key /\ row.amount = att[a].amount
      BY <2>1 DEF AttemptRows, AttemptStatuses
    <2>3. /\ att' \in [Attempts -> AttemptRows] /\ att'[a] = row
          /\ \A b \in Attempts : b # a => att'[b] = att[b]
      BY <1>2, <1>4, <2>2 DEF TypeOK, AttemptRows
    <2>4. /\ q \in RequestRows /\ q.order = req[w].order /\ q.key = req[w].key /\ q.att = a
          /\ q.ok = ok /\ q.done = ok /\ q.pc = IF ok THEN "settle" ELSE "fail"
      BY <1>1, <1>2 DEF RequestRows, Steps
    <2>5. /\ req' \in [Workers -> RequestRows] /\ req'[w] = q
          /\ \A v \in Workers : v # w => req'[v] = req[v]
      BY <1>4, <2>4 DEF TypeOK, RequestRows
    <2> HIDE DEF row, q
    <2>6. TypeOK'
      BY <1>1, <2>3, <2>5 DEF TypeOK, AttemptRows, RequestRows
    <2>7. AttemptInv'
      BY <1>1, <1>2, <1>4, <2>2, <2>3 DEF AttemptInv, Carried
    <2>8. RequestInv'
      <3> SUFFICES ASSUME NEW v \in Workers PROVE Sound(req[v])'
        BY DEF RequestInv
      <3>1. CASE v = w
        BY <1>1, <1>2, <2>2, <2>3, <2>4, <2>5, <3>1 DEF Sound, Carried
      <3>2. CASE v # w
        <4>1. req[v].pc \in {"call", "record"} => req[v].att # a
          BY <1>1, <3>2 DEF OwnAttempt
        <4> QED BY <1>1, <1>4, <2>3, <2>5, <3>2, <4>1 DEF Sound, RequestInv, Carried
      <3> QED BY <3>1, <3>2
    <2>9. OwnAttempt'
      BY <2>4, <2>5 DEF OwnAttempt
    <2>10. BatchInv'
      BY <1>1, <1>4, <2>3 DEF BatchInv, TypeOK, Carried
    <2>11. OneActive' /\ ReservationFits'
      <3>1. \A b \in Attempts : att'[b].order = att[b].order /\ (att'[b].status \in ActiveStatuses => att[b].status \in ActiveStatuses)
        BY <1>1, <1>4, <2>3 DEF ActiveStatuses
      <3>2. OneActive'
        BY <3>1 DEF OneActive, ActiveStatuses
      <3>3. ReservationFits'
        BY <1>1, <1>4, <2>2, <2>3 DEF ReservationFits, ActiveAttempts, ActiveStatuses
      <3> QED BY <3>2, <3>3
    <2>12. KeyOwner'
      BY <1>1, <2>4, <2>5 DEF KeyOwner, Live
    <2>13. KeySpent'
      <3>1. idem[req[w].key] # "none" /\ \A v \in Workers : Live(v) /\ req[v].key = req[w].key => v = w
        BY <1>1 DEF KeyOwner
      <3>2. \A b \in Attempts : att[b].status \in Carried => att[b].key # req[w].key
        BY <1>1 DEF KeySpent
      <3>3. ~ok => att'[a].status \notin Carried
        BY <2>2, <2>3 DEF Carried
      <3> QED BY <1>1, <1>2, <2>2, <2>3, <2>4, <2>5, <3>1, <3>2, <3>3 DEF KeySpent, Live
    <2>14. RefundWithinOrder'
      BY <1>1 DEF RefundWithinOrder
    <2>15. FinitelySettled' /\ BooksMatchChannel'
      BY <1>1, <1>4, <2>2, <2>3, SettledSame
    <2> QED BY <2>6, <2>7, <2>8, <2>9, <2>10, <2>11, <2>12, <2>13, <2>14, <2>15
  <1> QED BY <1>3, <1>4 DEF RecordChannelResult

-----------------------------------------------------------------------------
(* Settlement.                                                             *)

\* A settlement credits the order and closes the attempt.
LEMMA SettlementBooks ==
  ASSUME Inductive, NEW a \in Attempts, att[a].status \in Carried, SettleRefund(a),
         UNCHANGED returned
  PROVE  /\ order' \in [Orders -> OrderStatuses] /\ refunded' \in [Orders -> Nat]
         /\ att' \in [Attempts -> AttemptRows]
         /\ att[a].status = "channel_succeeded" /\ att'[a].status = "settled"
         /\ att'[a].order = att[a].order /\ att'[a].key = att[a].key
         /\ \A b \in Attempts : b # a => att'[b] = att[b]
         /\ AttemptInv' /\ OneActive' /\ RefundWithinOrder' /\ ReservationFits'
         /\ FinitelySettled' /\ BooksMatchChannel'
  <1> USE DEF Inductive
  <1> PICK o, n : o = att[a].order /\ n = att[a].amount
    OBVIOUS
  <1> DEFINE row == [att[a] EXCEPT !.status = "settled"]
  <1>1. att[a].status = "channel_succeeded" /\ Refundable(o, n) /\ att[a] \in AttemptRows
    BY DEF SettleRefund, Settleable, Carried, TypeOK, AttemptRows
  <1>2. o \in Orders /\ n \in Nat /\ n > 0 /\ a \in returned
    BY <1>1 DEF AttemptInv, Carried, AttemptRows
  <1>3. /\ refunded' \in [Orders -> Nat] /\ refunded'[o] = refunded[o] + n
        /\ \A p \in Orders : p # o => refunded'[p] = refunded[p]
    BY <1>2 DEF SettleRefund, TypeOK
  <1>4. refunded[o] \in Nat /\ Amount[o] \in Nat /\ refunded[o] + n <= Amount[o]
    BY <1>1, <1>2, RefundAssumption DEF Refundable, Remaining, RefundWithinOrder, TypeOK
  <1>5. /\ order' \in [Orders -> OrderStatuses]
        /\ order'[o] = IF refunded[o] + n = Amount[o] THEN "refunded" ELSE "partial_refunded"
        /\ \A p \in Orders : p # o => order'[p] = order[p]
    <2> DEFINE s == IF refunded'[o] >= Amount[o] THEN "refunded" ELSE "partial_refunded"
    <2>1. order' = [order EXCEPT ![o] = s] /\ s \in OrderStatuses
      BY DEF SettleRefund, OrderStatuses, RefundableStatuses
    <2>2. s = IF refunded[o] + n = Amount[o] THEN "refunded" ELSE "partial_refunded"
      BY <1>2, <1>3, <1>4
    <2> HIDE DEF s
    <2> QED BY <1>2, <2>1, <2>2 DEF TypeOK
  <1>6. /\ row \in AttemptRows /\ row.status = "settled" /\ row.order = o /\ row.amount = n
        /\ row.key = att[a].key
    BY <1>1 DEF AttemptRows, AttemptStatuses
  <1>7. /\ att' \in [Attempts -> AttemptRows] /\ att'[a] = row
        /\ \A b \in Attempts : b # a => att'[b] = att[b]
    BY <1>6 DEF SettleRefund, TypeOK, AttemptRows
  <1> HIDE DEF row
  <1>8. AttemptInv'
    BY <1>2, <1>6, <1>7 DEF AttemptInv, Carried
  <1>9. OneActive'
    BY <1>6, <1>7 DEF OneActive, ActiveStatuses
  <1>10. RefundWithinOrder'
    <2> SUFFICES ASSUME NEW p \in Orders
                 PROVE  /\ refunded'[p] <= Amount[p]
                        /\ order'[p] = CASE refunded'[p] = 0 -> "success"
                                         [] refunded'[p] = Amount[p] -> "refunded"
                                         [] OTHER -> "partial_refunded"
      BY DEF RefundWithinOrder
    <2>1. CASE p = o
      <3>1. refunded'[p] # 0 /\ refunded'[p] <= Amount[p]
        BY <1>2, <1>3, <1>4, <2>1
      <3>2. order'[p] = IF refunded'[p] = Amount[p] THEN "refunded" ELSE "partial_refunded"
        BY <1>3, <1>5, <2>1
      <3> QED BY <3>1, <3>2
    <2>2. CASE p # o
      BY <1>3, <1>5, <2>2 DEF RefundWithinOrder
    <2> QED BY <2>1, <2>2
  <1>11. ReservationFits'
    <2> SUFFICES ASSUME NEW p \in Orders, NEW b \in Attempts, att'[b].order = p,
                        att'[b].status \in ActiveStatuses
                 PROVE  refunded'[p] + att'[b].amount <= Amount[p]
      BY DEF ReservationFits, ActiveAttempts
    <2>1. b # a /\ att'[b] = att[b]
      BY <1>6, <1>7 DEF ActiveStatuses
    <2>2. p # o
      BY <1>1, <2>1 DEF OneActive, ActiveStatuses
    <2> QED BY <1>3, <2>1, <2>2 DEF ReservationFits, ActiveAttempts
  <1>12. ASSUME NEW p \in Orders, p # o
         PROVE  SettledOf(p)' = SettledOf(p) /\ Total(SettledOf(p))' = Total(SettledOf(p))
    <2>1. SettledOf(p)' = SettledOf(p)
      BY <1>6, <1>7, <1>12 DEF SettledOf
    <2>2. \A b \in SettledOf(p) : b \in Attempts /\ b # a
      BY <1>12 DEF SettledOf
    <2>3. IsFiniteSet(SettledOf(p)) /\ \A b \in SettledOf(p) : Amounts'[b] = Amounts[b]
      BY <1>7, <2>2 DEF Amounts, FinitelySettled
    <2>4. SumFunctionOnSet(Amounts', SettledOf(p)) = SumFunctionOnSet(Amounts, SettledOf(p))
      BY <2>3, SumSame
    <2> QED BY <2>1, <2>4 DEF Total
  <1>13. /\ SettledOf(o)' = SettledOf(o) \cup {a} /\ IsFiniteSet(SettledOf(o) \cup {a})
         /\ Total(SettledOf(o))' = Total(SettledOf(o)) + n
    <2>1. SettledOf(o)' = SettledOf(o) \cup {a}
      BY <1>6, <1>7 DEF SettledOf
    <2>2. a \notin SettledOf(o) /\ IsFiniteSet(SettledOf(o)) /\ SettledOf(o) \subseteq Attempts
      BY <1>1, <1>2 DEF SettledOf, FinitelySettled
    <2>3. IsFiniteSet(SettledOf(o) \cup {a})
      BY <2>2, FS_AddElement
    <2>4. /\ \A b \in SettledOf(o) \cup {a} : Amounts[b] \in Int /\ Amounts'[b] = Amounts[b]
          /\ Amounts[a] = n
      BY <1>6, <1>7, <2>2 DEF Amounts, TypeOK
    <2>5. SumFunctionOnSet(Amounts', SettledOf(o) \cup {a})
            = SumFunctionOnSet(Amounts, SettledOf(o) \cup {a})
      BY <2>3, <2>4, SumSame
    <2>6. SumFunctionOnSet(Amounts, SettledOf(o) \cup {a})
            = SumFunctionOnSet(Amounts, SettledOf(o)) + Amounts[a]
      <3> HIDE DEF Inductive
      <3> QED BY <2>2, <2>4, SumAdd
    <2> QED BY <2>1, <2>3, <2>4, <2>5, <2>6 DEF Total
  <1>14. FinitelySettled'
    BY <1>12, <1>13 DEF FinitelySettled
  <1>15. BooksMatchChannel'
    <2> SUFFICES ASSUME NEW p \in Orders
                 PROVE  /\ refunded'[p] = Total(SettledOf(p))'
                        /\ SettledOf(p)' \subseteq returned'
      BY DEF BooksMatchChannel
    <2>1. refunded[p] = Total(SettledOf(p)) /\ SettledOf(p) \subseteq returned
      BY DEF BooksMatchChannel
    <2>2. CASE p = o
      BY <1>2, <1>3, <1>13, <2>1, <2>2
    <2>3. CASE p # o
      BY <1>3, <1>12, <2>1, <2>3
    <2> QED BY <2>2, <2>3
  <1> QED BY <1>1, <1>5, <1>3, <1>6, <1>7, <1>8, <1>9, <1>10, <1>11, <1>14, <1>15

\* What loops and the other requests know survives a settlement.
LEMMA SettlementKnown ==
  ASSUME Inductive, NEW a \in Attempts, att[a].status \in Carried, SettleRefund(a),
         UNCHANGED returned
  PROVE  /\ \A q \in RequestRows : Sound(q) => Sound(q)'
         /\ \A b \in Attempts : /\ att'[b].key = att[b].key
                                /\ att[b].status \in Carried <=> att'[b].status \in Carried
                                /\ att[b].status = "settled" => att'[b].status = "settled"
  <1>1. /\ att[a].status = "channel_succeeded" /\ att'[a].status = "settled"
        /\ att'[a].order = att[a].order /\ att'[a].key = att[a].key
        /\ \A b \in Attempts : b # a => att'[b] = att[b]
    BY SettlementBooks
  <1>2. \A b \in Attempts : /\ att'[b].key = att[b].key
                            /\ att[b].status \in Carried <=> att'[b].status \in Carried
                            /\ att[b].status = "settled" => att'[b].status = "settled"
    BY <1>1 DEF Carried
  <1>3. ASSUME NEW q \in RequestRows, Sound(q) PROVE Sound(q)'
    BY <1>1, <1>2, <1>3 DEF Sound
  <1> QED BY <1>2, <1>3

\* The request settles, or is told that it may not.
LEMMA SettleKeeps ==
  ASSUME Inductive, NEW w \in Workers, Settle(w)
  PROVE  Inductive'
  <1> USE DEF Inductive
  <1> DEFINE a == req[w].att
  <1>1. /\ UNCHANGED <<returned, idem, lock, rec>> /\ Live(w) /\ req[w].pc = "settle"
        /\ req[w] \in RequestRows /\ Sound(req[w])
        /\ lock \in [Orders -> Workers \cup {Nobody}]
    BY DEF Settle, Live, TypeOK, RequestRows, RequestInv
  <1>2. a \in Attempts /\ att[a].status \in Carried /\ req[w].done
    BY <1>1 DEF Sound
  <1>3. CASE RejectRefund(a) /\ Go(w, "fail")
    <2> DEFINE q == [req[w] EXCEPT !.pc = "fail"]
    <2>1. q \in RequestRows /\ Sound(q) /\ q.pc = "fail" /\ q.key = req[w].key /\ q.done = req[w].done
      BY <1>1 DEF RequestRows, Steps, Sound
    <2>2. req' = [req EXCEPT ![w] = q] /\ UNCHANGED <<order, refunded, att>>
      BY <1>3 DEF Go, RejectRefund, db
    <2> HIDE DEF q
    <2> QED BY <1>1, <2>1, <2>2, KeyedMoves
  <1>4. CASE SettleRefund(a) /\ Go(w, "store")
    <2> DEFINE q == [req[w] EXCEPT !.pc = "store"]
    <2>1. /\ q \in RequestRows /\ Sound(q) /\ q.pc = "store" /\ q.key = req[w].key
          /\ q.done = req[w].done
      BY <1>1, <1>2 DEF RequestRows, Steps, Sound
    <2>2. /\ req' \in [Workers -> RequestRows] /\ req'[w] = q
          /\ \A v \in Workers : v # w => req'[v] = req[v]
      BY <1>4, <2>1 DEF Go, TypeOK, RequestRows
    <2> HIDE DEF q, a
    <2>3. /\ order' \in [Orders -> OrderStatuses] /\ refunded' \in [Orders -> Nat]
          /\ att' \in [Attempts -> AttemptRows]
          /\ AttemptInv' /\ OneActive' /\ RefundWithinOrder' /\ ReservationFits'
          /\ FinitelySettled' /\ BooksMatchChannel'
      BY <1>1, <1>2, <1>4, SettlementBooks
    <2>4. /\ \A p \in RequestRows : Sound(p) => Sound(p)'
          /\ \A b \in Attempts : /\ att'[b].key = att[b].key
                                 /\ att[b].status \in Carried <=> att'[b].status \in Carried
                                 /\ att[b].status = "settled" => att'[b].status = "settled"
      BY <1>1, <1>2, <1>4, SettlementKnown
    <2>5. TypeOK'
      BY <1>1, <2>2, <2>3 DEF TypeOK, AttemptRows, RequestRows
    <2>6. RequestInv'
      <3>1. \A v \in Workers : req'[v] \in RequestRows /\ Sound(req'[v])
        BY <2>1, <2>2 DEF RequestInv
      <3>2. \A v \in Workers : Sound(req[v])'
        BY <1>1, <2>4, <3>1 DEF Sound
      <3> QED BY <3>2 DEF RequestInv
    <2>7. OwnAttempt'
      BY <2>1, <2>2 DEF OwnAttempt
    <2>8. BatchInv'
      BY <1>1, <2>4 DEF BatchInv, TypeOK
    <2>9. KeyOwner'
      BY <1>1, <2>1, <2>2 DEF KeyOwner, Live
    <2>10. KeySpent'
      BY <1>1, <2>1, <2>2, <2>4 DEF KeySpent, Live
    <2> QED BY <2>3, <2>5, <2>6, <2>7, <2>8, <2>9, <2>10
  <1> QED BY <1>3, <1>4 DEF Settle

\* The loop settles a row of its batch.
LEMMA SettleRowKeeps ==
  ASSUME Inductive, NEW r \in Recoverers, NEW a \in Attempts, SettleRow(r, a)
  PROVE  Inductive'
  <1> USE DEF Inductive
  <1>1. /\ UNCHANGED <<returned, idem, lock, req>> /\ a \in rec[r].batch /\ rec[r] \in LoopRows
        /\ rec[r].pc = "settle" /\ att[a].status \in Carried
    BY DEF SettleRow, TypeOK, LoopRows, BatchInv
  <1>2. CASE RejectRefund(a) /\ rec' = [rec EXCEPT ![r].batch = @ \ {a}]
    <2>1. UNCHANGED <<order, refunded, att>>
      BY <1>2 DEF RejectRefund, db
    <2>2. rec[r].batch \ {a} \in SUBSET Attempts
      BY <1>1 DEF LoopRows
    <2>3. TypeOK'
      BY <1>1, <1>2, <2>1, <2>2 DEF TypeOK
    <2>4. BatchInv'
      BY <1>1, <1>2, <2>1 DEF BatchInv, TypeOK
    <2>5. RequestInv' /\ OwnAttempt' /\ KeyOwner' /\ KeySpent'
      BY <1>1, <2>1 DEF RequestInv, Sound, OwnAttempt, KeyOwner, KeySpent, Live
    <2> QED BY <1>1, <2>1, <2>3, <2>4, <2>5, BooksKept
  <1>3. CASE /\ SettleRefund(a)
             /\ rec' = [rec EXCEPT ![r] = [pc |-> "store", att |-> a, batch |-> rec[r].batch \ {a}]]
    <2>1. rec \in [Recoverers -> LoopRows]
      BY DEF TypeOK, LoopRows
    <2>2. /\ rec' \in [Recoverers -> LoopRows] /\ rec'[r].batch = rec[r].batch \ {a}
          /\ rec'[r].att = a
          /\ \A s \in Recoverers : s # r => rec'[s] = rec[s]
      <3>1. PICK rest \in SUBSET Attempts : rest = rec[r].batch \ {a}
        BY <1>1 DEF LoopRows
      <3> DEFINE q == [pc |-> "store", att |-> a, batch |-> rest]
      <3>2. q \in LoopRows /\ q.att = a /\ q.batch = rest
        BY DEF LoopRows
      <3>3. rec' = [rec EXCEPT ![r] = q]
        BY <1>3, <3>1
      <3> HIDE DEF q
      <3> QED BY <2>1, <3>1, <3>2, <3>3
    <2>3. /\ order' \in [Orders -> OrderStatuses] /\ refunded' \in [Orders -> Nat]
          /\ att' \in [Attempts -> AttemptRows] /\ att'[a].status = "settled"
          /\ AttemptInv' /\ OneActive' /\ RefundWithinOrder' /\ ReservationFits'
          /\ FinitelySettled' /\ BooksMatchChannel'
      BY <1>1, <1>3, SettlementBooks
    <2>4. /\ \A p \in RequestRows : Sound(p) => Sound(p)'
          /\ \A b \in Attempts : /\ att'[b].key = att[b].key
                                 /\ att[b].status \in Carried <=> att'[b].status \in Carried
                                 /\ att[b].status = "settled" => att'[b].status = "settled"
      BY <1>1, <1>3, SettlementKnown
    <2>5. TypeOK'
      BY <1>1, <2>2, <2>3 DEF TypeOK, AttemptRows, LoopRows
    <2>6. RequestInv'
      <3>1. \A v \in Workers : req[v] \in RequestRows /\ Sound(req[v])
        BY DEF RequestInv, TypeOK, RequestRows
      <3>2. \A v \in Workers : Sound(req[v])'
        BY <1>1, <2>4, <3>1 DEF Sound
      <3> QED BY <3>2 DEF RequestInv
    <2>7. OwnAttempt' /\ KeyOwner'
      BY <1>1 DEF OwnAttempt, KeyOwner, Live
    <2>8. BatchInv'
      <3> SUFFICES ASSUME NEW s \in Recoverers
                   PROVE  /\ \A b \in rec'[s].batch : att'[b].status \in Carried
                          /\ rec'[s].pc = "store" =>
                               rec'[s].att \in Attempts /\ att'[rec'[s].att].status = "settled"
        BY DEF BatchInv
      <3>1. \A b \in rec[s].batch : b \in Attempts /\ att[b].status \in Carried
        BY DEF BatchInv, TypeOK
      <3>2. CASE s = r
        BY <2>1, <2>2, <2>3, <2>4, <3>1, <3>2
      <3>3. CASE s # r
        BY <2>2, <2>4, <3>1, <3>3 DEF BatchInv
      <3> QED BY <3>2, <3>3
    <2>9. KeySpent'
      BY <1>1, <2>4 DEF KeySpent, Live
    <2> QED BY <2>3, <2>5, <2>6, <2>7, <2>8, <2>9
  <1> QED BY <1>2, <1>3 DEF SettleRow

-----------------------------------------------------------------------------
(* The other steps of loops and of time.                                   *)

\* A loop that reads or drops rows, or writes a result under a key; a lapsing lock.
LEMMA LoopKeeps ==
  ASSUME Inductive,
         \/ \E r \in Recoverers :
              \/ SelectRecoverable(r) \/ StoreRow(r) \/ EndPass(r) \/ PassAborts(r)
              \/ \E a \in Attempts : RowFails(r, a)
         \/ \E o \in Orders : LockExpires(o)
  PROVE  Inductive'
  <1> USE DEF Inductive
  <1>1. UNCHANGED <<order, refunded, att, returned, req>>
    BY DEF SelectRecoverable, StoreRow, EndPass, PassAborts, RowFails, LockExpires
  <1>2. rec' \in [Recoverers -> LoopRows] /\ BatchInv'
    <2> SUFFICES ASSUME NEW r \in Recoverers, NEW q \in LoopRows, rec' = [rec EXCEPT ![r] = q],
                        \A a \in q.batch : att[a].status \in Carried, q.pc # "store"
                 PROVE  rec' \in [Recoverers -> LoopRows] /\ BatchInv'
      <3>1. CASE \E r \in Recoverers : SelectRecoverable(r)
        <4> PICK r \in Recoverers : SelectRecoverable(r)
          BY <3>1
        <4> DEFINE q == [pc |-> "settle", att |-> Nobody,
                         batch |-> {a \in Attempts : att[a].status = "channel_succeeded"}]
        <4>1. q \in LoopRows /\ \A a \in q.batch : att[a].status \in Carried
          BY DEF LoopRows, Carried
        <4>2. rec' = [rec EXCEPT ![r] = q] /\ q.pc # "store"
          BY DEF SelectRecoverable
        <4> HIDE DEF q
        <4> QED BY <4>1, <4>2
      <3>2. CASE \E r \in Recoverers : StoreRow(r)
        <4> PICK r \in Recoverers : StoreRow(r)
          BY <3>2
        <4> DEFINE q == [rec[r] EXCEPT !.pc = "settle"]
        <4>1. rec[r] \in LoopRows /\ \A a \in rec[r].batch : att[a].status \in Carried
          BY DEF TypeOK, LoopRows, BatchInv
        <4>2. q \in LoopRows /\ q.batch = rec[r].batch /\ q.pc # "store"
          BY <4>1 DEF LoopRows
        <4>3. rec' = [rec EXCEPT ![r] = q]
          BY DEF StoreRow
        <4> HIDE DEF q
        <4> QED BY <4>1, <4>2, <4>3
      <3>3. CASE \E r \in Recoverers : EndPass(r) \/ PassAborts(r)
        <4> PICK r \in Recoverers : EndPass(r) \/ PassAborts(r)
          BY <3>3
        <4>1. IdleLoop \in LoopRows /\ IdleLoop.batch = {} /\ IdleLoop.pc # "store"
          BY DEF LoopRows, IdleLoop
        <4>2. rec' = [rec EXCEPT ![r] = IdleLoop]
          BY DEF EndPass, PassAborts
        <4> QED BY <4>1, <4>2
      <3>4. CASE \E r \in Recoverers, a \in Attempts : RowFails(r, a)
        <4> PICK r \in Recoverers, a \in Attempts : RowFails(r, a)
          BY <3>4
        <4> DEFINE q == [rec[r] EXCEPT !.batch = @ \ {a}]
        <4>1. rec[r] \in LoopRows /\ rec[r].pc = "settle" /\ \A b \in rec[r].batch : att[b].status \in Carried
          BY DEF TypeOK, LoopRows, BatchInv, RowFails
        <4>2. q \in LoopRows /\ q.batch = rec[r].batch \ {a} /\ q.pc # "store"
          BY <4>1 DEF LoopRows
        <4>3. rec' = [rec EXCEPT ![r] = q]
          BY DEF RowFails
        <4> HIDE DEF q
        <4> QED BY <4>1, <4>2, <4>3
      <3>5. CASE \E o \in Orders : LockExpires(o)
        BY <1>1, <3>5 DEF LockExpires, TypeOK, LoopRows, BatchInv
      <3> QED BY <3>1, <3>2, <3>3, <3>4, <3>5
    <2>1. /\ rec' \in [Recoverers -> LoopRows] /\ rec'[r] = q
          /\ \A s \in Recoverers : s # r => rec'[s] = rec[s]
      BY DEF TypeOK, LoopRows
    <2> QED BY <1>1, <2>1 DEF BatchInv
  <1>3. /\ idem' \in [Keys -> {"none", "processing", "done"}]
        /\ \A k \in Keys : idem[k] # "none" => idem'[k] # "none"
    <2>1. CASE \E r \in Recoverers : StoreRow(r)
      <3> PICK r \in Recoverers : StoreRow(r)
        BY <2>1
      <3> QED BY DEF StoreRow, TypeOK
    <2>2. CASE ~ \E r \in Recoverers : StoreRow(r)
      BY <2>2 DEF SelectRecoverable, EndPass, PassAborts, RowFails, LockExpires, TypeOK
    <2> QED BY <2>1, <2>2
  <1>4. lock' \in [Orders -> Workers \cup {Nobody}]
    BY DEF SelectRecoverable, StoreRow, EndPass, PassAborts, RowFails, LockExpires, TypeOK
  <1>5. TypeOK'
    BY <1>1, <1>2, <1>3, <1>4 DEF TypeOK, LoopRows
  <1>6. RequestInv' /\ OwnAttempt'
    BY <1>1 DEF RequestInv, Sound, OwnAttempt
  <1>7. KeyOwner'
    BY <1>1, <1>3 DEF KeyOwner, Live, RequestInv, Sound
  <1>8. KeySpent'
    <2>1. \A a \in Attempts : att[a].status \in Carried => att[a].key \in Keys
      BY DEF AttemptInv, Carried
    <2> QED BY <1>1, <1>3, <2>1 DEF KeySpent, Live
  <1> QED BY <1>1, <1>2, <1>5, <1>6, <1>7, <1>8, BooksKept

\* Attempts that grow old, and those that are given up for a human to look at.
LEMMA StaleKeeps ==
  ASSUME Inductive,
         (\E r \in Recoverers : MarkStale(r)) \/ (\E a \in Attempts : AttemptAges(a))
  PROVE  Inductive'
  <1> USE DEF Inductive
  <1>1. UNCHANGED <<order, refunded, returned, idem, lock, req>>
    BY DEF MarkStale, AttemptAges
  <1>2. /\ att' \in [Attempts -> AttemptRows]
        /\ \A a \in Attempts :
              /\ att'[a].order = att[a].order /\ att'[a].key = att[a].key
              /\ att'[a].amount = att[a].amount
              /\ \/ att'[a].status = att[a].status
                 \/ att[a].status = "processing" /\ att'[a].status = "manual_review"
    <2>1. CASE \E r \in Recoverers : MarkStale(r)
      <3> SUFFICES ASSUME NEW a \in Attempts
                   PROVE  /\ att'[a] \in AttemptRows
                          /\ att'[a].order = att[a].order /\ att'[a].key = att[a].key
                          /\ att'[a].amount = att[a].amount
                          /\ \/ att'[a].status = att[a].status
                             \/ /\ att[a].status = "processing"
                                /\ att'[a].status = "manual_review"
        BY <2>1 DEF MarkStale
      <3>1. att[a] \in AttemptRows
        BY DEF TypeOK, AttemptRows
      <3>2. att'[a] = IF att[a].status = "processing" /\ att[a].old
                      THEN [att[a] EXCEPT !.status = "manual_review", !.old = FALSE]
                      ELSE att[a]
        BY <2>1 DEF MarkStale
      <3> QED BY <3>1, <3>2 DEF AttemptRows, AttemptStatuses
    <2>2. CASE \E a \in Attempts : AttemptAges(a)
      <3> PICK b \in Attempts : AttemptAges(b)
        BY <2>2
      <3> DEFINE row == [att[b] EXCEPT !.old = TRUE]
      <3>1. att[b] \in AttemptRows /\ att \in [Attempts -> AttemptRows]
        BY DEF TypeOK, AttemptRows
      <3>2. /\ row \in AttemptRows /\ row.order = att[b].order /\ row.key = att[b].key
            /\ row.amount = att[b].amount /\ row.status = att[b].status
        BY <3>1 DEF AttemptRows
      <3>3. att' = [att EXCEPT ![b] = row]
        BY DEF AttemptAges
      <3> HIDE DEF row
      <3> QED BY <3>1, <3>2, <3>3
    <2> QED BY <2>1, <2>2
  <1>3. rec' \in [Recoverers -> LoopRows] /\ \A r \in Recoverers : rec'[r].batch = rec[r].batch /\ (rec'[r] = rec[r] \/ rec'[r].pc = "select")
    <2>1. CASE \E r \in Recoverers : MarkStale(r)
      <3> PICK r \in Recoverers : MarkStale(r)
        BY <2>1
      <3> DEFINE q == [rec[r] EXCEPT !.pc = "select"]
      <3>1. q \in LoopRows /\ q.batch = rec[r].batch /\ q.pc = "select"
        BY DEF TypeOK, LoopRows
      <3>2. rec' = [rec EXCEPT ![r] = q]
        BY DEF MarkStale
      <3> HIDE DEF q
      <3> QED BY <3>1, <3>2 DEF TypeOK, LoopRows
    <2>2. CASE \E a \in Attempts : AttemptAges(a)
      BY <2>2 DEF AttemptAges, TypeOK, LoopRows
    <2> QED BY <2>1, <2>2
  <1>4. TypeOK'
    BY <1>1, <1>2, <1>3 DEF TypeOK, AttemptRows, LoopRows
  <1>5. AttemptInv'
    BY <1>1, <1>2 DEF AttemptInv, Carried
  <1>6. RequestInv'
    BY <1>1, <1>2 DEF RequestInv, Sound, Carried
  <1>7. OwnAttempt' /\ KeyOwner'
    BY <1>1 DEF OwnAttempt, KeyOwner, Live
  <1>8. BatchInv'
    <2>1. \A a \in Attempts : /\ att[a].status \in Carried => att'[a].status \in Carried
                              /\ att[a].status = "settled" => att'[a].status = "settled"
      BY <1>2 DEF Carried
    <2>2. \A r \in Recoverers : rec[r].batch \subseteq Attempts
      BY DEF TypeOK
    <2> SUFFICES ASSUME NEW r \in Recoverers
                 PROVE  /\ \A a \in rec'[r].batch : att'[a].status \in Carried
                        /\ rec'[r].pc = "store" =>
                             rec'[r].att \in Attempts /\ att'[rec'[r].att].status = "settled"
      BY DEF BatchInv
    <2>3. /\ \A a \in rec[r].batch : a \in Attempts /\ att[a].status \in Carried
          /\ rec[r].pc = "store" => rec[r].att \in Attempts /\ att[rec[r].att].status = "settled"
      BY <2>2 DEF BatchInv
    <2>4. rec'[r] = rec[r] \/ rec'[r].pc = "select"
      BY <1>3
    <2>5. \A a \in rec'[r].batch : att'[a].status \in Carried
      <3>1. rec'[r].batch = rec[r].batch
        BY <1>3
      <3>2. \A a \in rec[r].batch : att'[a].status \in Carried
        BY <2>1, <2>3
      <3> QED BY <3>1, <3>2
    <2>6. ASSUME rec'[r].pc = "store"
          PROVE  rec'[r].att \in Attempts /\ att'[rec'[r].att].status = "settled"
      <3>1. rec'[r] = rec[r]
        BY <2>4, <2>6
      <3> QED BY <2>1, <2>3, <2>6, <3>1
    <2> QED BY <2>5, <2>6
  <1>9. OneActive' /\ RefundWithinOrder'
    BY <1>1, <1>2 DEF OneActive, ActiveStatuses, RefundWithinOrder
  <1>10. ReservationFits'
    BY <1>1, <1>2 DEF ReservationFits, ActiveAttempts, ActiveStatuses
  <1>11. KeySpent'
    BY <1>1, <1>2 DEF KeySpent, Live, Carried
  <1>12. FinitelySettled' /\ BooksMatchChannel'
    BY <1>1, <1>2, SettledSame
  <1> QED BY <1>4, <1>5, <1>6, <1>7, <1>8, <1>9, <1>10, <1>11, <1>12

-----------------------------------------------------------------------------
(* The theorems.                                                           *)

\* Every step of the specification preserves the inductive invariant.
LEMMA NextInductive == Inductive /\ [Next]_vars => Inductive'
  <1> SUFFICES ASSUME Inductive, [Next]_vars PROVE Inductive'
    OBVIOUS
  <1>1. ASSUME NEW w \in Workers, NEW o \in Orders, NEW k \in Keys, NEW n \in Wanted(o),
               ClaimKey(w, o, k, n)
        PROVE  Inductive'
    BY <1>1, ClaimKeeps
  <1>2. ASSUME NEW w \in Workers, RequestStep(w) \/ StepFails(w) \/ Crash(w)
        PROVE  Inductive'
    <2>1. CASE AcquireLock(w) \/ StoreResult(w) \/ HandleError(w)
      BY <2>1, EndsKeep
    <2>2. CASE LoadOrder(w) \/ ChannelDeclines(w) \/ ReleaseLock(w) \/ StepFails(w) \/ Crash(w)
      BY <2>2, WalksKeep
    <2>3. CASE BeginAttempt(w)
      BY <2>3, BeginKeeps
    <2>4. CASE ChannelRefunds(w) \/ ChannelTimesOut(w)
      BY <2>4, ChannelKeeps
    <2>5. CASE RecordChannelResult(w)
      BY <2>5, RecordKeeps
    <2>6. CASE Settle(w)
      BY <2>6, SettleKeeps
    <2> QED BY <1>2, <2>1, <2>2, <2>3, <2>4, <2>5, <2>6 DEF RequestStep
  <1>3. ASSUME NEW r \in Recoverers, NEW a \in Attempts, SettleRow(r, a)
        PROVE  Inductive'
    BY <1>3, SettleRowKeeps
  <1>4. CASE \/ \E r \in Recoverers :
                  \/ SelectRecoverable(r) \/ StoreRow(r) \/ EndPass(r) \/ PassAborts(r)
                  \/ \E a \in Attempts : RowFails(r, a)
             \/ \E o \in Orders : LockExpires(o)
    BY <1>4, LoopKeeps
  <1>5. CASE (\E r \in Recoverers : MarkStale(r)) \/ (\E a \in Attempts : AttemptAges(a))
    BY <1>5, StaleKeeps
  <1>6. CASE UNCHANGED vars
    <2>1. UNCHANGED <<order, refunded, att, returned, idem, lock, req, rec>>
      BY <1>6 DEF vars
    <2>2. TypeOK' /\ RequestInv' /\ OwnAttempt' /\ BatchInv' /\ KeyOwner' /\ KeySpent'
      BY <2>1 DEF Inductive, TypeOK, RequestInv, Sound, OwnAttempt, BatchInv, KeyOwner, KeySpent, Live
    <2> QED BY <2>1, <2>2, BooksKept DEF Inductive
  <1> QED BY <1>1, <1>2, <1>3, <1>4, <1>5, <1>6 DEF Next

LEMMA Invariance == Spec => []Inductive
  BY InitInductive, NextInductive, PTL DEF Spec

\* Orders, attempts, channel and keys agree on what was given back, in every state.
THEOREM BooksAlwaysAgree == Spec => []RefundBooks
  <1>1. Inductive => RefundBooks
    <2> SUFFICES ASSUME Inductive PROVE RefundBooks
      OBVIOUS
    <2>1. ReturnIsOnRecord
      BY DEF Inductive, ReturnIsOnRecord, AttemptInv, TypeOK, AttemptStatuses
    <2>2. KeySettledOnce
      BY DEF Inductive, KeySettledOnce, KeySpent, Carried
    <2> QED BY <2>1, <2>2 DEF Inductive, RefundBooks
  <1> QED BY <1>1, Invariance, PTL

\* Every variable keeps its type.
THEOREM TypeCorrect == Spec => []TypeOK
  BY BooksAlwaysAgree, PTL DEF RefundBooks

\* No order is given back more than it cost, and its status says how much that was.
THEOREM NeverMoreThanPaid == Spec => []RefundWithinOrder
  BY BooksAlwaysAgree, PTL DEF RefundBooks

\* A key is good for one settled refund.
THEOREM OneRefundPerKey == Spec => []KeySettledOnce
  BY BooksAlwaysAgree, PTL DEF RefundBooks
=============================================================================
