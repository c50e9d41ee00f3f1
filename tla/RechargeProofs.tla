--------------------------- MODULE RechargeProofs ---------------------------
(***************************************************************************)
(* Proofs about Recharge for every number of orders, requests, recovery    *)
(* loops and attempts, and whether or not locks may lapse.                 *)
(***************************************************************************)
EXTENDS Recharge, TLAPS

\* The initial state satisfies the inductive invariant.
LEMMA InitInductive == Init => Inductive
  <1> SUFFICES ASSUME Init PROVE Inductive
    OBVIOUS
  <1>1. TypeOK
    BY DEF Init, TypeOK, OrderStatuses, AttemptRows, AttemptStatuses, Requests, Steps, Replies, FreeAttempt,
           IdleRequest, Loops, IdleLoop
  <1>2. AttemptInv /\ RequestInv /\ OwnAttempt /\ BatchInv
    BY DEF Init, AttemptInv, RequestInv, OwnAttempt, BatchInv, FreeAttempt, IdleRequest,
           Loops, IdleLoop
  <1>3. CreditedOnce /\ CreditIsBacked
    BY DEF Init, CreditedOnce, CreditIsBacked
  <1> QED BY <1>1, <1>2, <1>3 DEF Inductive

-----------------------------------------------------------------------------
(* What an update of one request leaves as it was.                         *)

LEMMA RequestUpdate ==
  ASSUME TypeOK, NEW w \in Workers, NEW q \in Requests, req' = [req EXCEPT ![w] = q]
  PROVE  /\ req' \in [Workers -> Requests]
         /\ req'[w] = q
         /\ \A v \in Workers : v # w => req'[v] = req[v]
  BY DEF TypeOK

LEMMA AnswerUpdate ==
  ASSUME TypeOK, NEW w \in Workers, NEW reply \in Replies, Answer(w, reply)
  PROVE  /\ req' \in [Workers -> Requests]
         /\ req'[w].pc = "release" /\ req'[w].order = req[w].order
         /\ \A v \in Workers : v # w => req'[v] = req[v]
  <1> DEFINE q == [req[w] EXCEPT !.pc = "release", !.reply = reply]
  <1>1. req[w] \in Requests
    BY DEF TypeOK
  <1>2. q \in Requests /\ q.pc = "release" /\ q.order = req[w].order
    BY <1>1 DEF Requests, Steps
  <1>3. req' = [req EXCEPT ![w] = q]
    BY DEF Answer
  <1> QED BY <1>2, <1>3, RequestUpdate

-----------------------------------------------------------------------------
(* Steps that leave the books (orders, credits, attempts, charges) alone.  *)

\* What is said of the books alone survives them.
LEMMA BooksKept ==
  ASSUME AttemptInv, CreditedOnce, CreditIsBacked,
         UNCHANGED <<order, credits, att, charged>>
  PROVE  AttemptInv' /\ CreditedOnce' /\ CreditIsBacked'
  BY DEF AttemptInv, CreditedOnce, CreditIsBacked

\* Steps of a request that only move the request (and possibly its lock).
LEMMA RequestMoves ==
  ASSUME Inductive, NEW w \in Workers,
         \/ \E o \in Orders : AcquireLock(w, o)
         \/ LoadOrder(w) \/ ChannelDeclines(w) \/ ReleaseLock(w) \/ StepFails(w) \/ Crash(w)
  PROVE  Inductive'
  <1> USE DEF Inductive
  <1>a. UNCHANGED <<order, credits, att, charged, rec, lapsed>>
    BY DEF AcquireLock, LoadOrder, ChannelDeclines, ReleaseLock, StepFails, Crash
  <1>b. PICK q : /\ req' = [req EXCEPT ![w] = q]
                 /\ q \in Requests
                 /\ q.pc \in {"idle", "load", "begin", "release"} \/
                      (q.pc = "record" /\ req[w].pc = "call" /\ q.ok = FALSE
                         /\ q.att = req[w].att /\ q.order = req[w].order)
                 /\ q.pc # "idle" => q.order \in Orders
    <2> USE DEF TypeOK, RequestInv, Requests, Steps, Replies, IdleRequest, Answer
    <2>1. CASE \E o \in Orders : AcquireLock(w, o)
      <3> PICK o \in Orders : AcquireLock(w, o)
        BY <2>1
      <3> WITNESS [IdleRequest EXCEPT !.pc = "load", !.order = o]
      <3> QED BY DEF AcquireLock
    <2>2. CASE LoadOrder(w) \/ StepFails(w)
      <3>1. CASE req' = [req EXCEPT ![w].pc = "begin"]
        <4> WITNESS [req[w] EXCEPT !.pc = "begin"]
        <4> QED BY <2>2, <3>1 DEF LoadOrder, StepFails
      <3>2. CASE \E reply \in Replies : Answer(w, reply)
        <4> PICK reply \in Replies : Answer(w, reply)
          BY <3>2
        <4> DEFINE new == [req[w] EXCEPT !.pc = "release", !.reply = reply]
        <4>1. req[w] \in Requests /\ req[w].pc # "idle" /\ req[w].order \in Orders
          BY <2>2 DEF LoadOrder, StepFails
        <4>2. new \in Requests /\ new.pc = "release" /\ new.order = req[w].order
          BY <4>1
        <4>3. req' = [req EXCEPT ![w] = new]
          OBVIOUS
        <4> HIDE DEF new
        <4> WITNESS new
        <4> QED BY <4>1, <4>2, <4>3
      <3> QED BY <2>2, <3>1, <3>2 DEF LoadOrder, StepFails
    <2>3. CASE ChannelDeclines(w)
      <3> WITNESS [req[w] EXCEPT !.pc = "record", !.ok = FALSE]
      <3> QED BY <2>3 DEF ChannelDeclines
    <2>4. CASE ReleaseLock(w) \/ Crash(w)
      <3> WITNESS IdleRequest
      <3> QED BY <2>4 DEF ReleaseLock, Crash
    <2> QED BY <2>1, <2>2, <2>3, <2>4
  <1>1. TypeOK'
    <2>1. lock' \in [Orders -> Workers \cup {Nobody}]
      BY DEF TypeOK, AcquireLock, LoadOrder, ChannelDeclines, ReleaseLock, StepFails, Crash
    <2> QED BY <1>a, <1>b, <2>1 DEF TypeOK
  <1>2. RequestInv'
    BY <1>a, <1>b DEF TypeOK, RequestInv
  <1>3. OwnAttempt'
    BY <1>a, <1>b DEF TypeOK, OwnAttempt
  <1>4. BatchInv'
    BY <1>a DEF BatchInv
  <1> QED BY <1>a, <1>1, <1>2, <1>3, <1>4, BooksKept

\* Steps of time and of a recovery pass that change no order and no attempt's
\* status.
LEMMA LoopMoves ==
  ASSUME Inductive,
         \/ \E r \in Recoverers :
              \/ SelectRecoverable(r) \/ EndPass(r) \/ PassAborts(r)
              \/ \E a \in Attempts : RowFails(r, a)
         \/ \E o \in Orders : LockExpires(o) \/ OrderLapses(o)
  PROVE  Inductive'
  <1> USE DEF Inductive
  <1>a. UNCHANGED <<order, credits, att, charged, req>>
    BY DEF SelectRecoverable, EndPass, PassAborts, RowFails, LockExpires, OrderLapses
  <1>1. TypeOK'
    <2>1. rec' \in [Recoverers -> Loops]
      <3>1. CASE \E r \in Recoverers, a \in Attempts : RowFails(r, a)
        <4> PICK r \in Recoverers, a \in Attempts : RowFails(r, a)
          BY <3>1
        <4>1. rec[r].batch \ {a} \in SUBSET Attempts
          BY DEF TypeOK, Loops
        <4> QED BY <4>1 DEF TypeOK, RowFails, Loops
      <3>2. CASE ~ \E r \in Recoverers, a \in Attempts : RowFails(r, a)
        BY <3>2 DEF TypeOK, SelectRecoverable, EndPass, PassAborts, LockExpires, OrderLapses,
                    Loops, IdleLoop
      <3> QED BY <3>1, <3>2
    <2>2. lock' \in [Orders -> Workers \cup {Nobody}] /\ lapsed' \in [Orders -> BOOLEAN]
      BY DEF TypeOK, SelectRecoverable, EndPass, PassAborts, RowFails, LockExpires, OrderLapses
    <2> QED BY <1>a, <2>1, <2>2 DEF TypeOK
  <1>2. BatchInv'
    BY <1>a DEF TypeOK, BatchInv, SelectRecoverable, EndPass, PassAborts, RowFails,
                LockExpires, OrderLapses, Loops, IdleLoop
  <1>3. RequestInv' /\ OwnAttempt'
    BY <1>a DEF RequestInv, OwnAttempt
  <1> QED BY <1>a, <1>1, <1>2, <1>3, BooksKept

-----------------------------------------------------------------------------
(* Steps that create, charge or record an attempt.                        *)

LEMMA BeginKeeps ==
  ASSUME Inductive, NEW w \in Workers, BeginAttempt(w)
  PROVE  Inductive'
  <1> USE DEF Inductive
  <1> DEFINE o == req[w].order
  <1>o. o \in Orders /\ Nobody \notin Orders
    BY ConstantsAssumption DEF BeginAttempt, RequestInv
  <1>1. CASE \E a \in ActiveAttempts(o) : att[a].status = "processing" /\ Answer(w, "error")
             /\ UNCHANGED att
    <2>1. UNCHANGED <<order, credits, att, charged, rec, lapsed, lock>>
      BY <1>1 DEF BeginAttempt
    <2>2. /\ req' \in [Workers -> Requests]
          /\ req'[w].pc = "release" /\ req'[w].order = o
          /\ \A v \in Workers : v # w => req'[v] = req[v]
      BY <1>1, AnswerUpdate DEF Replies
    <2>3. TypeOK' /\ RequestInv' /\ OwnAttempt' /\ BatchInv'
      BY <2>1, <2>2, <1>o DEF TypeOK, RequestInv, OwnAttempt, BatchInv
    <2> QED BY <2>1, <2>2, <2>3, BooksKept
  <1>2. CASE \E a \in ActiveAttempts(o) :
                /\ att[a].status = "channel_succeeded"
                /\ req' = [req EXCEPT ![w] = [@ EXCEPT !.pc = "settle", !.att = a,
                                                           !.ok = TRUE]]
                /\ UNCHANGED att
    <2> PICK a \in ActiveAttempts(o) :
                /\ att[a].status = "channel_succeeded"
                /\ req' = [req EXCEPT ![w] = [@ EXCEPT !.pc = "settle", !.att = a,
                                                      !.ok = TRUE]]
                /\ UNCHANGED att
      BY <1>2
    <2> DEFINE q == [req[w] EXCEPT !.pc = "settle", !.att = a, !.ok = TRUE]
    <2>1. UNCHANGED <<order, credits, att, charged, rec, lapsed, lock>>
      BY DEF BeginAttempt
    <2>2. /\ q \in Requests /\ q.pc = "settle" /\ q.att = a /\ q.ok = TRUE /\ q.order = o
          /\ a \in Attempts /\ att[a].order = o
      BY DEF TypeOK, Requests, Steps, ActiveAttempts
    <2>3. /\ req' \in [Workers -> Requests] /\ req'[w] = q
          /\ \A v \in Workers : v # w => req'[v] = req[v]
      BY <2>2, RequestUpdate
    <2> HIDE DEF q
    <2>4. TypeOK' /\ RequestInv' /\ OwnAttempt' /\ BatchInv'
      BY <2>1, <2>2, <2>3, <1>o DEF TypeOK, RequestInv, OwnAttempt, BatchInv
    <2> QED BY <2>1, <2>4, BooksKept
  <1>3. CASE \E a \in Attempts :
                /\ att[a].status = "free"
                /\ att' = [att EXCEPT ![a] = [status |-> "processing", order |-> o,
                                              old |-> FALSE]]
                /\ req' = [req EXCEPT ![w] = [@ EXCEPT !.pc = "call", !.att = a]]
    <2> PICK a \in Attempts :
                /\ att[a].status = "free"
                /\ att' = [att EXCEPT ![a] = [status |-> "processing", order |-> o,
                                              old |-> FALSE]]
                /\ req' = [req EXCEPT ![w] = [@ EXCEPT !.pc = "call", !.att = a]]
      BY <1>3
    <2>1. UNCHANGED <<order, credits, charged, rec, lapsed, lock>>
      BY DEF BeginAttempt
    <2>2. TypeOK'
      <3> DEFINE q == [req[w] EXCEPT !.pc = "call", !.att = a]
      <3>0. q \in Requests
        BY DEF TypeOK, Requests, Steps
      <3>1. req' \in [Workers -> Requests]
        <4>1. req' = [req EXCEPT ![w] = q]
          OBVIOUS
        <4> HIDE DEF q
        <4> QED BY <3>0, <4>1, RequestUpdate
      <3> DEFINE new == [status |-> "processing", order |-> o, old |-> FALSE]
      <3>2. new \in AttemptRows
        <4> USE <1>o DEF AttemptRows, AttemptStatuses
        <4> QED BY Zenon
      <3>3. att' \in [Attempts -> AttemptRows]
        <4> HIDE DEF new
        <4>1. att' = [att EXCEPT ![a] = new] /\ att \in [Attempts -> AttemptRows]
          BY DEF TypeOK, new
        <4> QED BY <3>2, <4>1
      <3> QED BY <2>1, <3>1, <3>3 DEF TypeOK
    <2>3. AttemptInv'
      BY <2>1, <1>o DEF TypeOK, AttemptInv
    <2>4. RequestInv'
      BY <2>1, <1>o DEF TypeOK, RequestInv, AttemptInv
    <2>5. OwnAttempt'
      BY <2>1, <1>o DEF TypeOK, RequestInv, OwnAttempt
    <2>6. BatchInv'
      BY <2>1, <1>o DEF TypeOK, BatchInv
    <2>7. CreditedOnce' /\ CreditIsBacked'
      BY <2>1, <1>o DEF TypeOK, AttemptInv, CreditedOnce, CreditIsBacked
    <2> QED BY <2>2, <2>3, <2>4, <2>5, <2>6, <2>7
  <1> QED BY <1>1, <1>2, <1>3 DEF BeginAttempt

LEMMA ChannelKeeps ==
  ASSUME Inductive, NEW w \in Workers, ChannelPays(w) \/ ChannelTimesOut(w)
  PROVE  Inductive'
  <1> USE DEF Inductive
  <1> DEFINE a == req[w].att
             q == [req[w] EXCEPT !.pc = "record", !.ok = TRUE]
  <1>1. /\ UNCHANGED <<order, credits, att, rec, lapsed, lock>>
        /\ req[w].pc = "call" /\ a \in Attempts /\ req[w].order \in Orders
        /\ att[a].order = req[w].order
        /\ att[a].status \in {"processing", "manual_review"}
        /\ charged' \in {charged, charged \cup {a}}
    BY DEF ChannelPays, ChannelTimesOut, RequestInv
  <1>2. /\ req' \in [Workers -> Requests]
        /\ req'[w].order = req[w].order
        /\ \/ req'[w].pc = "release"
           \/ /\ req'[w].pc = "record" /\ req'[w].att = a /\ req'[w].ok = TRUE
              /\ a \in charged'
        /\ \A v \in Workers : v # w => req'[v] = req[v]
    <2>1. CASE ChannelTimesOut(w)
      BY <2>1, AnswerUpdate DEF ChannelTimesOut, Replies
    <2>2. CASE ChannelPays(w)
      <3>1. q \in Requests /\ q.order = req[w].order /\ q.pc = "record" /\ q.att = a /\ q.ok = TRUE
        BY DEF TypeOK, Requests, Steps
      <3>2. req' = [req EXCEPT ![w] = q] /\ a \in charged'
        BY <2>2 DEF ChannelPays
      <3> QED BY <3>1, <3>2, RequestUpdate
    <2> QED BY <2>1, <2>2
  <1>3. TypeOK'
    BY <1>1, <1>2 DEF TypeOK
  <1>4. AttemptInv'
    BY <1>1 DEF AttemptInv
  <1>5. RequestInv'
    BY <1>1, <1>2 DEF RequestInv, OwnAttempt
  <1>6. OwnAttempt'
    BY <1>1, <1>2 DEF OwnAttempt
  <1>7. BatchInv' /\ CreditedOnce' /\ CreditIsBacked'
    BY <1>1 DEF BatchInv, CreditedOnce, CreditIsBacked
  <1> QED BY <1>3, <1>4, <1>5, <1>6, <1>7

\* record_channel_result, whether or not the attempt still takes the answer.
LEMMA RecordKeeps ==
  ASSUME Inductive, NEW w \in Workers, RecordChannelResult(w)
  PROVE  Inductive'
  <1> USE DEF Inductive
  <1> DEFINE a == req[w].att
             status == IF req[w].ok THEN "channel_succeeded" ELSE "channel_failed"
  <1>1. /\ UNCHANGED <<order, credits, charged, rec, lapsed, lock>>
        /\ req[w].pc = "record" /\ a \in Attempts /\ req[w].order \in Orders
        /\ att[a].order = req[w].order /\ (req[w].ok <=> a \in charged)
        /\ att[a].status \in {"processing", "manual_review"} /\ req[w].ok \in BOOLEAN
    BY DEF RecordChannelResult, RequestInv, TypeOK, Requests
  <1>2. CASE att[a].status # "processing"
    <2>1. UNCHANGED att /\ Answer(w, "error")
      BY <1>2 DEF RecordChannelResult
    <2>2. /\ req' \in [Workers -> Requests]
          /\ req'[w].pc = "release" /\ req'[w].order = req[w].order
          /\ \A v \in Workers : v # w => req'[v] = req[v]
      BY <2>1, AnswerUpdate DEF Replies
    <2>3. TypeOK' /\ RequestInv' /\ OwnAttempt' /\ BatchInv'
      BY <1>1, <2>1, <2>2 DEF TypeOK, RequestInv, OwnAttempt, BatchInv
    <2> QED BY <1>1, <2>1, <2>3, BooksKept
  <1>3. CASE att[a].status = "processing"
    <2>1. /\ att' = [att EXCEPT ![a] = [@ EXCEPT !.status = status, !.old = FALSE]]
          /\ req' = [req EXCEPT ![w].pc = "settle"]
      BY <1>3 DEF RecordChannelResult
    <2>2. /\ att' \in [Attempts -> AttemptRows]
          /\ att'[a].status = status /\ att'[a].order = att[a].order
          /\ \A b \in Attempts : b # a => att'[b] = att[b]
      <3> DEFINE new == [att[a] EXCEPT !.status = status, !.old = FALSE]
      <3>1. att \in [Attempts -> AttemptRows] /\ att' = [att EXCEPT ![a] = new]
        BY <2>1 DEF TypeOK
      <3>2. new \in AttemptRows /\ new.status = status /\ new.order = att[a].order
        BY <1>1, <3>1 DEF AttemptRows, AttemptStatuses
      <3> HIDE DEF new
      <3> QED BY <1>1, <3>1, <3>2
    <2> DEFINE q == [req[w] EXCEPT !.pc = "settle"]
    <2>3. /\ q \in Requests /\ q.order = req[w].order /\ q.pc = "settle" /\ q.att = a
          /\ q.ok = req[w].ok /\ req' = [req EXCEPT ![w] = q]
      BY <2>1 DEF TypeOK, Requests, Steps
    <2>4. /\ req' \in [Workers -> Requests] /\ req'[w] = q
          /\ \A v \in Workers : v # w => req'[v] = req[v]
      BY <2>3, RequestUpdate
    <2> HIDE DEF q
    <2>5. TypeOK'
      BY <1>1, <2>2, <2>4 DEF TypeOK
    <2>6. AttemptInv'
      BY <1>1, <1>3, <2>2 DEF AttemptInv
    <2>7. RequestInv' /\ OwnAttempt'
      BY <1>1, <1>3, <2>2, <2>3, <2>4 DEF RequestInv, OwnAttempt
    <2>8. BatchInv'
      BY <1>1, <1>3, <2>2 DEF BatchInv, TypeOK, Loops
    <2>9. CreditedOnce' /\ CreditIsBacked'
      BY <1>1, <1>3, <2>2 DEF CreditedOnce, CreditIsBacked, TypeOK
    <2> QED BY <2>5, <2>6, <2>7, <2>8, <2>9
  <1> QED BY <1>2, <1>3

-----------------------------------------------------------------------------
(* Steps of time that touch attempts.                                      *)

LEMMA StaleKeeps ==
  ASSUME Inductive,
         (\E r \in Recoverers : MarkStale(r)) \/ (\E a \in Attempts : AttemptAges(a))
  PROVE  Inductive'
  <1> USE DEF Inductive
  <1>1. UNCHANGED <<order, credits, charged, req, lapsed, lock>>
    BY DEF MarkStale, AttemptAges
  <1>2. /\ att' \in [Attempts -> AttemptRows]
        /\ \A a \in Attempts :
              /\ att'[a].order = att[a].order
              /\ \/ att'[a].status = att[a].status
                 \/ att[a].status = "processing" /\ att'[a].status = "manual_review"
    <2>1. CASE \E r \in Recoverers : MarkStale(r)
      <3> SUFFICES ASSUME NEW a \in Attempts
                   PROVE  /\ att'[a] \in AttemptRows /\ att'[a].order = att[a].order
                          /\ \/ att'[a].status = att[a].status
                             \/ /\ att[a].status = "processing"
                                /\ att'[a].status = "manual_review"
        BY <2>1 DEF MarkStale
      <3>1. att[a] \in AttemptRows
        BY DEF TypeOK
      <3>2. att'[a] = (IF att[a].status = "processing" /\ att[a].old
                       THEN [att[a] EXCEPT !.status = "manual_review", !.old = FALSE]
                       ELSE att[a])
        BY <2>1 DEF MarkStale
      <3> QED BY <3>1, <3>2 DEF AttemptRows, AttemptStatuses
    <2>2. CASE \E a \in Attempts : AttemptAges(a)
      <3> PICK a \in Attempts : AttemptAges(a)
        BY <2>2
      <3> DEFINE row == [att[a] EXCEPT !.old = TRUE]
      <3>1. att' = [att EXCEPT ![a] = row]
        BY DEF AttemptAges
      <3>2. row \in AttemptRows /\ row.order = att[a].order /\ row.status = att[a].status
        <4>1. att[a] \in AttemptRows
          BY DEF TypeOK
        <4> QED BY <4>1 DEF AttemptRows
      <3> HIDE DEF row
      <3> QED BY <3>1, <3>2 DEF TypeOK
    <2> QED BY <2>1, <2>2
  <1>3. rec' \in [Recoverers -> Loops] /\ \A r \in Recoverers : rec'[r].batch = rec[r].batch
    <2>1. CASE \E r \in Recoverers : MarkStale(r)
      <3> PICK r \in Recoverers : MarkStale(r)
        BY <2>1
      <3> DEFINE l == [rec[r] EXCEPT !.pc = "select"]
      <3>1. rec' = [rec EXCEPT ![r] = l] /\ l \in Loops /\ l.batch = rec[r].batch
        BY DEF MarkStale, TypeOK, Loops
      <3> HIDE DEF l
      <3> QED BY <3>1 DEF TypeOK
    <2>2. CASE \E a \in Attempts : AttemptAges(a)
      BY <2>2 DEF AttemptAges, TypeOK
    <2> QED BY <2>1, <2>2
  <1>4. TypeOK'
    BY <1>1, <1>2, <1>3 DEF TypeOK
  <1>5. AttemptInv'
    BY <1>1, <1>2 DEF AttemptInv
  <1>6. RequestInv' /\ OwnAttempt'
    BY <1>1, <1>2 DEF RequestInv, OwnAttempt
  <1>7. BatchInv'
    BY <1>2, <1>3 DEF BatchInv, TypeOK, Loops
  <1>8. CreditedOnce' /\ CreditIsBacked'
    BY <1>1, <1>2 DEF CreditedOnce, CreditIsBacked, TypeOK
  <1> QED BY <1>4, <1>5, <1>6, <1>7, <1>8

-----------------------------------------------------------------------------
(* The settlement transaction, whoever runs it.                            *)

\* An attempt whose answer is recorded, or that is settled, may be handed to
\* the transaction again and again: the books stay right.
LEMMA SettlementKeeps ==
  ASSUME Inductive, NEW a \in Attempts, NEW ok \in BOOLEAN, UNCHANGED charged,
         att[a].order \in Orders,
         att[a].status \in
            (IF ok THEN {"channel_succeeded", "settled"} ELSE {"channel_failed"}),
         \/ Confirm(att[a].order, a) \/ Credit(att[a].order, a, ok)
         \/ FailOrder(att[a].order, ok) \/ UNCHANGED db
  PROVE  /\ order' \in [Orders -> OrderStatuses] /\ credits' \in [Orders -> Nat]
         /\ att' \in [Attempts -> AttemptRows]
         /\ \A b \in Attempts :
               /\ att'[b].order = att[b].order
               /\ \/ att'[b].status = att[b].status
                  \/ att[b].status = "channel_succeeded" /\ att'[b].status = "settled"
         /\ AttemptInv' /\ CreditedOnce' /\ CreditIsBacked'
  <1> DEFINE o == att[a].order
  <1> USE DEF Inductive
  <1>1. CASE UNCHANGED db
    <2>1. UNCHANGED <<order, credits, att, charged>>
      BY <1>1 DEF db
    <2> QED BY <2>1, BooksKept DEF TypeOK
  <1>2. CASE FailOrder(o, ok)
    <2>1. order[o] # "success" /\ order' = [order EXCEPT ![o] = "failed"]
          /\ UNCHANGED <<credits, att>>
      BY <1>2 DEF FailOrder, Fails, PayableStatuses
    <2>2. order' \in [Orders -> OrderStatuses]
      BY <2>1 DEF TypeOK, OrderStatuses
    <2>3. AttemptInv'
      BY <2>1 DEF AttemptInv
    <2>4. CreditedOnce' /\ CreditIsBacked'
      BY <2>1 DEF TypeOK, CreditedOnce, CreditIsBacked
    <2> QED BY <2>1, <2>2, <2>3, <2>4 DEF TypeOK
  <1>3. CASE Confirm(o, a) \/ Credit(o, a, ok)
    <2>1. att[a].status = "channel_succeeded" /\ CloseAttempt(a)
      BY <1>3 DEF Confirm, Confirms, Credit, Credits, SettleableStatuses
    <2>2. /\ att' \in [Attempts -> AttemptRows]
          /\ att'[a].status = "settled" /\ att'[a].order = o
          /\ \A b \in Attempts : b # a => att'[b] = att[b]
      BY <2>1 DEF CloseAttempt, TypeOK, AttemptRows, AttemptStatuses
    <2>3. AttemptInv'
      BY <2>1, <2>2 DEF AttemptInv
    <2>6. \A b \in Attempts :
             /\ att'[b].order = att[b].order
             /\ \/ att'[b].status = att[b].status
                \/ att[b].status = "channel_succeeded" /\ att'[b].status = "settled"
      <3> TAKE b \in Attempts
      <3>1. CASE b = a
        BY <3>1, <2>1, <2>2
      <3>2. CASE b # a
        BY <3>2, <2>2
      <3> QED BY <3>1, <3>2
    <2>4. CASE Confirm(o, a)
      <3>1. UNCHANGED <<order, credits>>
        BY <2>4 DEF Confirm
      <3>2. CreditedOnce' /\ CreditIsBacked'
        BY <3>1, <2>6 DEF TypeOK, CreditedOnce, CreditIsBacked
      <3> QED BY <3>1, <3>2, <2>2, <2>3, <2>6 DEF TypeOK
    <2>5. CASE Credit(o, a, ok)
      <3>1. /\ order[o] # "success"
            /\ order' = [order EXCEPT ![o] = "success"]
            /\ credits' = [credits EXCEPT ![o] = @ + 1]
        BY <2>5 DEF Credit, Credits, PayableStatuses
      <3>2. order' \in [Orders -> OrderStatuses] /\ credits' \in [Orders -> Nat]
        BY <3>1 DEF TypeOK, OrderStatuses
      <3>3. CreditedOnce'
        BY <3>1 DEF TypeOK, CreditedOnce
      <3>4. CreditIsBacked'
        BY <3>1, <2>1, <2>2 DEF TypeOK, AttemptInv, CreditIsBacked
      <3> QED BY <3>2, <3>3, <3>4, <2>2, <2>3, <2>6
    <2> QED BY <1>3, <2>4, <2>5
  <1> QED BY <1>1, <1>2, <1>3

LEMMA SettleRechargeKeeps ==
  ASSUME Inductive, NEW w \in Workers, SettleRecharge(w)
  PROVE  Inductive'
  <1> USE DEF Inductive
  <1> DEFINE a == req[w].att
             ok == req[w].ok
  <1>1. /\ UNCHANGED <<charged, lapsed, lock, rec>>
        /\ a \in Attempts /\ ok \in BOOLEAN
        /\ att[a].order = req[w].order /\ att[a].order \in Orders
        /\ att[a].status \in
             (IF ok THEN {"channel_succeeded", "settled"} ELSE {"channel_failed"})
    BY DEF SettleRecharge, RequestInv, TypeOK, Requests
  <1>2. /\ Confirm(att[a].order, a) \/ Credit(att[a].order, a, ok)
             \/ FailOrder(att[a].order, ok) \/ UNCHANGED db
        /\ \E reply \in Replies : Answer(w, reply)
    BY <1>1 DEF SettleRecharge, Replies
  <1>3. /\ order' \in [Orders -> OrderStatuses] /\ credits' \in [Orders -> Nat]
        /\ att' \in [Attempts -> AttemptRows]
        /\ \A b \in Attempts :
              /\ att'[b].order = att[b].order
              /\ \/ att'[b].status = att[b].status
                 \/ att[b].status = "channel_succeeded" /\ att'[b].status = "settled"
        /\ AttemptInv' /\ CreditedOnce' /\ CreditIsBacked'
    BY <1>1, <1>2, SettlementKeeps
  <1>4. /\ req' \in [Workers -> Requests]
        /\ req'[w].pc = "release" /\ req'[w].order = req[w].order
        /\ \A v \in Workers : v # w => req'[v] = req[v]
    BY <1>2, AnswerUpdate
  <1>5. TypeOK'
    BY <1>1, <1>3, <1>4 DEF TypeOK
  <1>6. RequestInv' /\ OwnAttempt'
    BY <1>1, <1>3, <1>4 DEF RequestInv, OwnAttempt
  <1>7. BatchInv'
    BY <1>1, <1>3 DEF BatchInv, TypeOK, Loops
  <1> QED BY <1>3, <1>5, <1>6, <1>7

LEMMA SettleRowKeeps ==
  ASSUME Inductive, NEW r \in Recoverers, NEW a \in Attempts, SettleRow(r, a)
  PROVE  Inductive'
  <1> USE DEF Inductive
  <1>1. /\ UNCHANGED <<charged, lapsed, lock, req>>
        /\ att[a].status \in {"channel_succeeded", "settled"} /\ att[a].order \in Orders
    BY DEF SettleRow, BatchInv, AttemptInv, TypeOK, AttemptRows
  <1>2. Confirm(att[a].order, a) \/ Credit(att[a].order, a, TRUE) \/ UNCHANGED db
    BY DEF SettleRow
  <1>3. /\ order' \in [Orders -> OrderStatuses] /\ credits' \in [Orders -> Nat]
        /\ att' \in [Attempts -> AttemptRows]
        /\ \A b \in Attempts :
              /\ att'[b].order = att[b].order
              /\ \/ att'[b].status = att[b].status
                 \/ att[b].status = "channel_succeeded" /\ att'[b].status = "settled"
        /\ AttemptInv' /\ CreditedOnce' /\ CreditIsBacked'
    BY <1>1, <1>2, SettlementKeeps
  <1>4. rec' \in [Recoverers -> Loops] /\ \A s \in Recoverers : rec'[s].batch \subseteq rec[s].batch
    <2>1. rec[r].batch \ {a} \in SUBSET Attempts
      BY DEF TypeOK, Loops
    <2> QED BY <2>1 DEF SettleRow, TypeOK, Loops
  <1>5. TypeOK'
    BY <1>1, <1>3, <1>4 DEF TypeOK
  <1>6. RequestInv' /\ OwnAttempt'
    BY <1>1, <1>3 DEF RequestInv, OwnAttempt
  <1>7. BatchInv'
    BY <1>3, <1>4 DEF BatchInv, TypeOK, Loops
  <1> QED BY <1>3, <1>5, <1>6, <1>7

-----------------------------------------------------------------------------
(* The theorems.                                                           *)

LEMMA StepInductive == Inductive /\ [Next]_vars => Inductive'
  <1> SUFFICES ASSUME Inductive, [Next]_vars PROVE Inductive'
    OBVIOUS
  <1>1. ASSUME NEW w \in Workers,
               (\E o \in Orders : AcquireLock(w, o)) \/ RequestStep(w) \/ StepFails(w)
                  \/ Crash(w)
        PROVE  Inductive'
    BY <1>1, RequestMoves, BeginKeeps, ChannelKeeps, RecordKeeps, SettleRechargeKeeps
       DEF RequestStep
  <1>2. ASSUME NEW r \in Recoverers,
               \/ MarkStale(r) \/ SelectRecoverable(r) \/ EndPass(r) \/ PassAborts(r)
               \/ \E a \in Attempts : SettleRow(r, a) \/ RowFails(r, a)
        PROVE  Inductive'
    BY <1>2, LoopMoves, StaleKeeps, SettleRowKeeps
  <1>3. ASSUME NEW o \in Orders, LockExpires(o) \/ OrderLapses(o) PROVE Inductive'
    BY <1>3, LoopMoves
  <1>4. ASSUME NEW a \in Attempts, AttemptAges(a) PROVE Inductive'
    BY <1>4, StaleKeeps
  <1>5. CASE UNCHANGED vars
    BY <1>5 DEF vars, Inductive, TypeOK, AttemptInv, RequestInv, OwnAttempt, BatchInv,
                CreditedOnce, CreditIsBacked
  <1> QED BY <1>1, <1>2, <1>3, <1>4, <1>5 DEF Next

\* The invariant holds of the whole run, for any number of orders, requests,
\* recovery loops and attempts.
THEOREM InductiveHolds == Spec => []Inductive
  BY InitInductive, StepInductive, PTL DEF Spec

\* Type correctness.
THEOREM TypeCorrect == Spec => []TypeOK
  <1>1. Inductive => TypeOK
    BY DEF Inductive
  <1> QED BY <1>1, InductiveHolds, PTL

\* process_recharge and the recovery loop credit a wallet exactly once for
\* every order that becomes success, whatever the interleaving.
THEOREM CreditedExactlyOnce == Spec => []CreditedOnce
  <1>1. Inductive => CreditedOnce
    BY DEF Inductive
  <1> QED BY <1>1, InductiveHolds, PTL

\* No wallet is credited without a charge that the channel carried out.
THEOREM CreditsAreBacked == Spec => []CreditIsBacked
  <1>1. Inductive => CreditIsBacked
    BY DEF Inductive
  <1> QED BY <1>1, InductiveHolds, PTL

\* A charge that the channel carried out is never recorded as refused.
THEOREM ChargesStayOnRecord == Spec => []ChargeIsOnRecord
  <1>1. Inductive => ChargeIsOnRecord
    BY DEF Inductive, AttemptInv, ChargeIsOnRecord, TypeOK, AttemptRows, AttemptStatuses
  <1> QED BY <1>1, InductiveHolds, PTL

-----------------------------------------------------------------------------
(* What a step can do to the books; the action property and the refinement *)
(* follow from it.                                                         *)

\* No charge is made, nothing is credited, no order becomes paid.
Quiet ==
    /\ UNCHANGED <<credits, charged>>
    /\ \A a \in charged : att'[a].order = att[a].order
    /\ \A o \in Orders : order'[o] = "success" => order[o] = "success"

\* The channel carries out the charge of attempt a.
Charges(a) ==
    /\ a \notin charged /\ att[a].order \in Orders
    /\ charged' = charged \cup {a}
    /\ UNCHANGED <<order, credits, att>>

\* The order of attempt a is paid with its recorded charge.
Pays(a) ==
    /\ a \in charged /\ att[a].order \in Orders
    /\ att[a].status = "channel_succeeded" /\ att'[a].status = "settled"
    /\ UNCHANGED charged
    /\ \A b \in charged : att'[b].order = att[b].order
    /\ order[att[a].order] # "success"
    /\ order' = [order EXCEPT ![att[a].order] = "success"]
    /\ credits' = [credits EXCEPT ![att[a].order] = @ + 1]

LEMMA SettlementShape ==
  ASSUME Inductive, NEW a \in Attempts, NEW ok \in BOOLEAN, UNCHANGED charged,
         att[a].order \in Orders,
         att[a].status \in
            (IF ok THEN {"channel_succeeded", "settled"} ELSE {"channel_failed"}),
         \/ Confirm(att[a].order, a) \/ Credit(att[a].order, a, ok)
         \/ FailOrder(att[a].order, ok) \/ UNCHANGED db
  PROVE  Quiet \/ Pays(a)
  <1> DEFINE o == att[a].order
  <1> USE DEF Inductive
  <1>1. CASE UNCHANGED db
    BY <1>1 DEF db, Quiet
  <1>2. CASE FailOrder(o, ok)
    BY <1>2 DEF FailOrder, Quiet, TypeOK
  <1>3. CASE Confirm(o, a) \/ Credit(o, a, ok)
    <2>1. att[a].status = "channel_succeeded" /\ CloseAttempt(a) /\ a \in charged
      BY <1>3 DEF Confirm, Confirms, Credit, Credits, SettleableStatuses, AttemptInv
    <2>2. /\ att'[a].status = "settled"
          /\ \A b \in charged : att'[b].order = att[b].order
      BY <2>1 DEF CloseAttempt, TypeOK, AttemptRows
    <2>3. CASE Confirm(o, a)
      BY <2>2, <2>3 DEF Confirm, Quiet
    <2>4. CASE Credit(o, a, ok)
      BY <2>1, <2>2, <2>4 DEF Credit, Credits, PayableStatuses, Pays
    <2> QED BY <1>3, <2>3, <2>4
  <1> QED BY <1>1, <1>2, <1>3

LEMMA StepShape ==
  ASSUME Inductive, [Next]_vars
  PROVE  Quiet \/ \E a \in Attempts : Charges(a) \/ Pays(a)
  <1> USE DEF Inductive
  <1>1. ASSUME NEW w \in Workers,
               \/ \E o \in Orders : AcquireLock(w, o)
               \/ LoadOrder(w) \/ ChannelDeclines(w) \/ ReleaseLock(w) \/ StepFails(w)
               \/ Crash(w)
        PROVE  Quiet
    BY <1>1 DEF Quiet, AcquireLock, LoadOrder, ChannelDeclines, ReleaseLock, StepFails, Crash
  <1>2. ASSUME NEW w \in Workers, BeginAttempt(w) PROVE Quiet
    BY <1>2 DEF Quiet, BeginAttempt, AttemptInv, TypeOK
  <1>3. ASSUME NEW w \in Workers, ChannelPays(w) \/ ChannelTimesOut(w)
        PROVE  Quiet \/ \E a \in Attempts : Charges(a)
    BY <1>3 DEF Quiet, Charges, ChannelPays, ChannelTimesOut, RequestInv
  <1>4. ASSUME NEW w \in Workers, RecordChannelResult(w) PROVE Quiet
    <2>1. UNCHANGED <<order, credits, charged>>
      BY <1>4 DEF RecordChannelResult
    <2>2. ASSUME NEW a \in Attempts PROVE att'[a].order = att[a].order
      <3>1. att[a] \in AttemptRows
        BY DEF TypeOK
      <3>2. CASE att[req[w].att].status # "processing"
        BY <1>4, <3>2 DEF RecordChannelResult
      <3>3. CASE att[req[w].att].status = "processing"
        <4> DEFINE status == IF req[w].ok THEN "channel_succeeded" ELSE "channel_failed"
                   row == [att[req[w].att] EXCEPT !.status = status, !.old = FALSE]
        <4>1. att' = [att EXCEPT ![req[w].att] = row]
          BY <1>4, <3>3 DEF RecordChannelResult
        <4>2. a = req[w].att => row.order = att[a].order
          BY <3>1 DEF AttemptRows
        <4> HIDE DEF row
        <4> QED BY <4>1, <4>2 DEF TypeOK
      <3> QED BY <3>2, <3>3
    <2> QED BY <2>1, <2>2 DEF Quiet, TypeOK
  <1>5. ASSUME NEW w \in Workers, SettleRecharge(w)
        PROVE  Quiet \/ \E a \in Attempts : Pays(a)
    <2> DEFINE a == req[w].att
               ok == req[w].ok
    <2>1. /\ UNCHANGED charged /\ a \in Attempts /\ ok \in BOOLEAN
          /\ att[a].order = req[w].order /\ att[a].order \in Orders
          /\ att[a].status \in
               (IF ok THEN {"channel_succeeded", "settled"} ELSE {"channel_failed"})
      BY <1>5 DEF SettleRecharge, RequestInv, TypeOK, Requests
    <2>2. \/ Confirm(att[a].order, a) \/ Credit(att[a].order, a, ok)
          \/ FailOrder(att[a].order, ok) \/ UNCHANGED db
      BY <1>5, <2>1 DEF SettleRecharge
    <2> QED BY <2>1, <2>2, SettlementShape
  <1>6. ASSUME NEW r \in Recoverers, NEW a \in Attempts, SettleRow(r, a)
        PROVE  Quiet \/ Pays(a)
    <2>1. /\ UNCHANGED charged
          /\ att[a].status \in {"channel_succeeded", "settled"} /\ att[a].order \in Orders
      BY <1>6 DEF SettleRow, BatchInv, AttemptInv, TypeOK, AttemptRows
    <2>2. Confirm(att[a].order, a) \/ Credit(att[a].order, a, TRUE) \/ UNCHANGED db
      BY <1>6 DEF SettleRow
    <2> QED BY <2>1, <2>2, SettlementShape
  <1>7. ASSUME NEW r \in Recoverers,
               \/ MarkStale(r) \/ SelectRecoverable(r) \/ EndPass(r) \/ PassAborts(r)
               \/ \E a \in Attempts : RowFails(r, a)
        PROVE  Quiet
    BY <1>7 DEF Quiet, MarkStale, SelectRecoverable, EndPass, PassAborts, RowFails, TypeOK,
                AttemptRows
  <1>8. ASSUME \/ \E o \in Orders : LockExpires(o) \/ OrderLapses(o)
               \/ \E a \in Attempts : AttemptAges(a)
        PROVE  Quiet
    BY <1>8 DEF Quiet, LockExpires, OrderLapses, AttemptAges, TypeOK, AttemptRows
  <1>9. CASE UNCHANGED vars
    BY <1>9 DEF vars, Quiet
  <1> QED BY <1>1, <1>2, <1>3, <1>4, <1>5, <1>6, <1>7, <1>8, <1>9 DEF Next, RequestStep

\* Only a recorded charge of the order itself pays an order, and it is used up.
THEOREM PaidOnlyByRecordedCharge == Spec => PaidByRecordedCharge
  <1>1. Inductive /\ [Next]_vars =>
          [\A o \in Orders : order[o] # "success" /\ order'[o] = "success" =>
              \E a \in charged : /\ att[a].order = o
                                 /\ att[a].status = "channel_succeeded"
                                 /\ att'[a].status = "settled"]_vars
    <2> SUFFICES ASSUME Inductive, [Next]_vars, NEW o \in Orders,
                        order[o] # "success", order'[o] = "success"
                 PROVE  \E a \in charged : /\ att[a].order = o
                                           /\ att[a].status = "channel_succeeded"
                                           /\ att'[a].status = "settled"
      OBVIOUS
    <2> QED BY StepShape DEF Quiet, Charges, Pays, Inductive, TypeOK
  <1> QED BY <1>1, InductiveHolds, PTL DEF Spec, PaidByRecordedCharge

-----------------------------------------------------------------------------
(* What is final.                                                          *)

\* A step leaves the status of a decided attempt as it is and settles or keeps one
\* whose charge is recorded.
Stands(a) ==
    /\ att[a].status \in {"channel_failed", "settled", "manual_review"} =>
          att'[a].status = att[a].status
    /\ att[a].status = "channel_succeeded" => att'[a].status \in {"channel_succeeded", "settled"}

PaidStays == \A o \in Orders : order[o] = "success" => order'[o] = "success"

\* A settlement, of a request or of the loop.
LEMMA SettlementStands ==
  ASSUME TypeOK, NEW a \in Attempts, NEW ok \in BOOLEAN, att[a].order \in Orders,
         att[a].status \in
            (IF ok THEN {"channel_succeeded", "settled"} ELSE {"channel_failed"}),
         \/ Confirm(att[a].order, a) \/ Credit(att[a].order, a, ok)
         \/ FailOrder(att[a].order, ok) \/ UNCHANGED db
  PROVE  PaidStays /\ \A b \in Attempts : Stands(b)
  <1> DEFINE o == att[a].order
  <1>1. CASE UNCHANGED db
    BY <1>1 DEF db, PaidStays, Stands
  <1>2. CASE FailOrder(o, ok)
    <2>1. order[o] # "success" /\ order' = [order EXCEPT ![o] = "failed"] /\ UNCHANGED att
      BY <1>2 DEF FailOrder, Fails, PayableStatuses
    <2> QED BY <2>1 DEF PaidStays, Stands, TypeOK
  <1>3. CASE Confirm(o, a) \/ Credit(o, a, ok)
    <2>1. att[a].status = "channel_succeeded" /\ att' = [att EXCEPT ![a].status = "settled"]
      BY <1>3 DEF Confirm, Confirms, Credit, Credits, SettleableStatuses, CloseAttempt
    <2>2. \A b \in Attempts : Stands(b)
      BY <2>1 DEF Stands, TypeOK, AttemptRows
    <2>3. PaidStays
      BY <1>3 DEF PaidStays, Confirm, Credit, TypeOK
    <2> QED BY <2>2, <2>3
  <1> QED BY <1>1, <1>2, <1>3

LEMMA StepStands ==
  ASSUME Inductive, [Next]_vars
  PROVE  PaidStays /\ \A a \in Attempts : Stands(a)
  <1> USE DEF Inductive
  <1>1. ASSUME NEW w \in Workers,
               \/ \E o \in Orders : AcquireLock(w, o)
               \/ LoadOrder(w) \/ ChannelPays(w) \/ ChannelDeclines(w) \/ ChannelTimesOut(w)
               \/ ReleaseLock(w) \/ StepFails(w) \/ Crash(w)
        PROVE  UNCHANGED <<order, att>>
    BY <1>1 DEF AcquireLock, LoadOrder, ChannelPays, ChannelDeclines, ChannelTimesOut,
                ReleaseLock, StepFails, Crash
  <1>2. ASSUME NEW w \in Workers, BeginAttempt(w)
        PROVE  PaidStays /\ \A a \in Attempts : Stands(a)
    BY <1>2 DEF BeginAttempt, PaidStays, Stands, TypeOK
  <1>3. ASSUME NEW w \in Workers, RecordChannelResult(w)
        PROVE  PaidStays /\ \A a \in Attempts : Stands(a)
    BY <1>3 DEF RecordChannelResult, PaidStays, Stands, TypeOK
  <1>4. ASSUME NEW w \in Workers, SettleRecharge(w)
        PROVE  PaidStays /\ \A a \in Attempts : Stands(a)
    <2> DEFINE a == req[w].att
               ok == req[w].ok
    <2>1. /\ a \in Attempts /\ ok \in BOOLEAN
          /\ att[a].order = req[w].order /\ att[a].order \in Orders
          /\ att[a].status \in
               (IF ok THEN {"channel_succeeded", "settled"} ELSE {"channel_failed"})
      BY <1>4 DEF SettleRecharge, RequestInv, TypeOK, Requests
    <2>2. \/ Confirm(att[a].order, a) \/ Credit(att[a].order, a, ok)
          \/ FailOrder(att[a].order, ok) \/ UNCHANGED db
      BY <1>4, <2>1 DEF SettleRecharge
    <2> QED BY <2>1, <2>2, SettlementStands
  <1>5. ASSUME NEW r \in Recoverers, NEW a \in Attempts, SettleRow(r, a)
        PROVE  PaidStays /\ \A b \in Attempts : Stands(b)
    <2>1. att[a].status \in {"channel_succeeded", "settled"} /\ att[a].order \in Orders
      BY <1>5 DEF SettleRow, BatchInv, AttemptInv, TypeOK, AttemptRows
    <2>2. Confirm(att[a].order, a) \/ Credit(att[a].order, a, TRUE) \/ UNCHANGED db
      BY <1>5 DEF SettleRow
    <2> QED BY <2>1, <2>2, SettlementStands
  <1>6. ASSUME NEW r \in Recoverers, MarkStale(r)
        PROVE  PaidStays /\ \A a \in Attempts : Stands(a)
    BY <1>6 DEF MarkStale, PaidStays, Stands
  <1>7. ASSUME NEW a \in Attempts, AttemptAges(a)
        PROVE  PaidStays /\ \A b \in Attempts : Stands(b)
    BY <1>7 DEF AttemptAges, PaidStays, Stands, TypeOK, AttemptRows
  <1>8. ASSUME \/ \E r \in Recoverers :
                     \/ SelectRecoverable(r) \/ EndPass(r) \/ PassAborts(r)
                     \/ \E a \in Attempts : RowFails(r, a)
               \/ \E o \in Orders : LockExpires(o) \/ OrderLapses(o)
               \/ UNCHANGED vars
        PROVE  UNCHANGED <<order, att>>
    BY <1>8 DEF SelectRecoverable, EndPass, PassAborts, RowFails, LockExpires, OrderLapses, vars
  <1>9. UNCHANGED <<order, att>> => PaidStays /\ \A a \in Attempts : Stands(a)
    BY DEF PaidStays, Stands
  <1> QED BY <1>1, <1>2, <1>3, <1>4, <1>5, <1>6, <1>7, <1>8, <1>9 DEF Next, RequestStep

\* No late answer, loop or retry revises what was decided.
THEOREM FinalIsFinal == Spec => FinalStaysFinal
  <1>1. Inductive /\ [Next]_vars =>
          [/\ \A o \in Orders : order[o] = "success" => order'[o] = "success"
           /\ \A a \in Attempts :
                 /\ att[a].status \in {"channel_failed", "settled", "manual_review"} =>
                       att'[a].status = att[a].status
                 /\ att[a].status = "channel_succeeded" =>
                       att'[a].status \in {"channel_succeeded", "settled"}]_vars
    BY StepStands DEF PaidStays, Stands
  <1> QED BY <1>1, InductiveHolds, PTL DEF Spec, FinalStaysFinal

\* Decisions rest on recorded answers of the channel, and they stand.
THEOREM DecisionsAlwaysStand == Spec => DecisionsStand
  BY PaidOnlyByRecordedCharge, FinalIsFinal DEF DecisionsStand

\* Requests, attempts, the lock and the recovery loop implement the promise of
\* IdealRecharge.
THEOREM RechargeImplementsIdeal == Spec => ImplementsIdeal
  <1>1. Init => Ideal!Init
    BY DEF Init, Ideal!Init, PaymentsOf
  <1>2. Inductive /\ [Next]_vars => [Ideal!Next]_(Ideal!vars)
    <2> SUFFICES ASSUME Inductive, [Next]_vars PROVE [Ideal!Next]_(Ideal!vars)
      OBVIOUS
    <2>1. CASE Quiet
      <3>1. UNCHANGED Ideal!vars
        BY <2>1 DEF Quiet, Ideal!vars, PaymentsOf
      <3> QED BY <3>1
    <2>2. CASE \E a \in Attempts : Charges(a)
      <3> PICK a \in Attempts : Charges(a)
        BY <2>2
      <3>1. Ideal!Collect(att[a].order, a)
        BY DEF Charges, Ideal!Collect, PaymentsOf
      <3> QED BY <3>1 DEF Charges, Ideal!Next
    <2>3. CASE \E a \in Attempts : Pays(a)
      <3> PICK a \in Attempts : Pays(a)
        BY <2>3
      <3> DEFINE o == att[a].order
      <3>1. o \in Orders /\ credits[o] = 0 /\ credits' = [credits EXCEPT ![o] = 1]
        <4>1. /\ o \in Orders /\ order[o] # "success"
              /\ credits' = [credits EXCEPT ![o] = credits[o] + 1]
          BY DEF Pays
        <4>2. credits[o] = 0
          BY <4>1 DEF Inductive, CreditedOnce
        <4>3. credits[o] + 1 = 1
          BY <4>2
        <4> QED BY <4>1, <4>2, <4>3
      <3>2. \A i \in Orders : PaymentsOf(i)' = PaymentsOf(i)
        BY DEF Pays, PaymentsOf
      <3>3. a \in PaymentsOf(o)
        BY DEF Pays, PaymentsOf
      <3>4. Ideal!Credit(o)
        BY <3>1, <3>2, <3>3 DEF Ideal!Credit
      <3> QED BY <3>1, <3>4 DEF Ideal!Next
    <2> QED BY <2>1, <2>2, <2>3, StepShape
  <1> QED BY <1>1, <1>2, InductiveHolds, PTL DEF Spec, ImplementsIdeal, Ideal!Spec
=============================================================================
