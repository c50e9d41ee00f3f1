------------------------------ MODULE ChatProofs ------------------------------
(* A chat request from its arrival to what is kept of it: the stream, the     *)
(* memory of the conversation, its travel plan and the trace of the request.  *)
(* Each has its invariant, the lemmas on its steps and its theorems.          *)
EXTENDS ChatStream, ChatMemory, TravelSlots, RequestTrace, SequenceTheorems, TLAPS

-----------------------------------------------------------------------------
(* A streamed request (ChatStream).                                        *)

Calls == [text : BOOLEAN, usage : BOOLEAN]
Before == {"arrive", "daily", "trial", "start", "civil", "cache", "lock", "wait", "key", "route", "law",
           "tools", "loop", "ask", "stream", "react"}
Answered == {"refund", "close", "count"}
RequestRows ==
    [civil : BOOLEAN, ask : {"none", "plain", "file", "later"}, ways : SUBSET {"simple", "recommend", "react"},
     models : Nat \ {0}, pc : Before \cup Answered \cup Cleaning \cup {"over"}, conn : BOOLEAN,
     lease : BOOLEAN, token : BOOLEAN, taken : {"no", "reserved", "returned"},
     mode : {"simple", "recommend", "react", "flash"}, n : Nat, call : Calls,
     answer : {None, "model", "cut", "blocked", "fixed", "notice", "cached"}, saved : BOOLEAN, partial : BOOLEAN,
     out : Nat, kept : Nat, produced : BOOLEAN]

DrainRows == [of : Requests, text : BOOLEAN, usage : BOOLEAN, paid : {0, 1}]

ChatTypes ==
    /\ st \in [Requests -> RequestRows] /\ rebuilding \subseteq Requests /\ lock \in Requests \cup {None}
    /\ drains \subseteq DrainRows

\* Where a request has no text of a model yet.
Wordless == (Before \ {"ask", "stream", "react"}) \cup {"refund", "unbuilt"}

\* Where a request may have the rebuild lock: from taking it to its release.
Holding == {"key", "route", "law", "tools", "loop", "ask", "stream", "react", "refund", "close", "count", "unlock"}

\* One answer goes out where a request leaves the stages, and none before.
RequestKnown(s) ==
    /\ s.pc \in Before => s.out = 0 /\ s.taken # "returned"
    /\ s.pc \in {"arrive", "daily", "trial"} => s.taken = "no"
    /\ s.pc \in Wordless => ~s.produced
    /\ s.pc \in Answered => s.out = 1
    /\ s.pc \in Cleaning => s.out <= 1 /\ (s.conn => s.out = 1)
    /\ s.pc = "over" => s.out <= 1 /\ (s.conn /\ s.taken # "no" => s.out = 1)
    /\ s.taken = "returned" => ~s.produced

ChatSound ==
    /\ ChatTypes /\ \A r \in Requests : RequestKnown(st[r])
    /\ \A r \in rebuilding : lock = r /\ st[r].pc \in Holding
    /\ unpaid = {}

\* What the invariant says of one request.
LEMMA RequestRow ==
    ASSUME ChatSound, NEW r \in Requests
    PROVE  st[r] \in RequestRows /\ RequestKnown(st[r]) /\ (r \in rebuilding => st[r].pc \in Holding)
  BY DEF ChatSound, ChatTypes

\* No request has started.
LEMMA ChatInitial == Init => ChatSound
  <1> SUFFICES ASSUME Init
               PROVE  ChatSound
    OBVIOUS
  <1>1. PICK q \in Questions :
         st = [r \in Requests |->
                [civil |-> q[r].civil, ask |-> q[r].ask, ways |-> q[r].ways, models |-> q[r].models,
                 pc |-> IF q[r].ask = "none" THEN "over" ELSE "arrive", conn |-> TRUE,
                 lease |-> FALSE, token |-> FALSE, taken |-> "no",
                 mode |-> "simple", n |-> 0, call |-> NoCall,
                 answer |-> None, saved |-> FALSE, partial |-> FALSE,
                 out |-> 0, kept |-> 0, produced |-> FALSE]]
    BY DEF Init
  <1>2. ASSUME NEW r \in Requests
        PROVE  st[r] \in RequestRows /\ RequestKnown(st[r])
    <2>1. q[r] \in [civil : BOOLEAN, ask : {"none", "plain", "file", "later"},
                    ways : SUBSET {"simple", "recommend", "react"}, models : Nat \ {0}]
      BY ChatAssumption
    <2>2. NoCall \in Calls
      BY DEF NoCall, Calls
    <2>3. st[r] \in RequestRows
      BY <1>1, <2>1, <2>2 DEF RequestRows, Before
    <2>4. /\ st[r].pc \in {"over", "arrive"} /\ st[r].out = 0 /\ st[r].taken = "no" /\ ~st[r].produced
      BY <1>1
    <2>5. RequestKnown(st[r])
      BY <2>4 DEF RequestKnown, Wordless, Before, Answered, Cleaning
    <2> QED BY <2>3, <2>5
  <1>3. st \in [Requests -> RequestRows]
    BY <1>1, <1>2
  <1> QED BY <1>2, <1>3 DEF Init, ChatSound, ChatTypes

\* A step of one request that leaves it known keeps the others as they are.
LEMMA OneRequest ==
    ASSUME ChatSound, NEW r \in Requests, NEW new, Set(r, new), new \in RequestRows, RequestKnown(new),
           lock' \in Requests \cup {None}, rebuilding' \subseteq rebuilding \cup {r},
           \A q \in rebuilding' : lock' = q, r \in rebuilding' => new.pc \in Holding,
           drains' \subseteq DrainRows, unpaid' = {}
    PROVE  ChatSound'
  <1>1. /\ st' \in [Requests -> RequestRows] /\ st'[r] = new
        /\ \A q \in Requests \ {r} : st'[q] = st[q]
    BY DEF Set, ChatSound, ChatTypes
  <1>2. rebuilding' \subseteq Requests
    BY DEF ChatSound, ChatTypes
  <1>3. \A q \in Requests : RequestKnown(st'[q])
    BY <1>1, RequestRow
  <1>4. \A q \in rebuilding' : st'[q].pc \in Holding
    BY <1>1, <1>2, RequestRow
  <1> QED BY <1>1, <1>2, <1>3, <1>4 DEF ChatSound, ChatTypes

\* Most steps leave the lock alone, and pay for the text they end.
Quiet == UNCHANGED lockVars /\ drains' \subseteq DrainRows /\ unpaid' = {}

\* A step that leaves the lock and the bills alone is quiet.
LEMMA QuietSteps ==
    ASSUME ChatSound, UNCHANGED <<lockVars, billVars>>
    PROVE  Quiet
  BY DEF Quiet, ChatSound, ChatTypes, billVars, lockVars

\* What the invariant says of the lock.
LEMMA Locks ==
    ASSUME ChatSound, NEW r \in Requests, UNCHANGED lockVars
    PROVE  /\ lock' \in Requests \cup {None} /\ rebuilding' = rebuilding
           /\ \A q \in rebuilding' : lock' = q
           /\ r \in rebuilding' => st[r].pc \in Holding
  BY RequestRow DEF ChatSound, ChatTypes, lockVars

LEMMA Moves ==
    ASSUME ChatSound, NEW r \in Requests, NEW new, Set(r, new), new \in RequestRows, RequestKnown(new),
           st[r].pc \in Holding => new.pc \in Holding, Quiet
    PROVE  ChatSound'
  <1>1. UNCHANGED lockVars
    BY DEF Quiet
  <1> QED BY <1>1, Locks, OneRequest DEF Quiet

\* An answer goes out of one of the stages.
LEMMA Answers ==
    ASSUME ChatSound, NEW r \in Requests, st[r].pc \in Before,
           NEW kind \in {"model", "cut", "blocked", "fixed", "notice", "cached"}, NEW noted \in BOOLEAN,
           NEW next \in {"close", "refund"}, next = "refund" => ~st[r].produced,
           Deliver(r, kind, noted, next),
           lock' \in Requests \cup {None}, rebuilding' \subseteq rebuilding,
           \A q \in rebuilding' : lock' = q,
           drains' \subseteq DrainRows, unpaid' = {}
    PROVE  ChatSound'
  <1> DEFINE new == [st[r] EXCEPT !.pc = next, !.answer = kind, !.out = @ + 1, !.saved = noted,
            !.partial = (st[r].mode = "react" /\ kind # "notice"), !.call = NoCall]
  <1>1. st[r] \in RequestRows /\ RequestKnown(st[r])
    BY RequestRow
  <1>2. NoCall \in Calls
    BY DEF NoCall, Calls
  <1>3. Set(r, new)
    BY DEF Deliver
  <1>4. st[r].out = 0 /\ st[r].taken # "returned"
    BY <1>1 DEF RequestKnown
  <1>5. new \in RequestRows
    <2> DEFINE half == st[r].mode = "react" /\ kind # "notice"
    <2>1. half \in BOOLEAN /\ st[r].out + 1 \in Nat
      BY <1>4
    <2> HIDE DEF half
    <2>2. [st[r] EXCEPT !.pc = next, !.answer = kind, !.out = @ + 1, !.saved = noted,
                        !.partial = half, !.call = NoCall] \in RequestRows
      BY <1>1, <1>2, <2>1 DEF RequestRows, Answered
    <2> QED BY <2>2 DEF half
  <1>6. /\ new.pc = next /\ new.out = 1 /\ new.taken = st[r].taken /\ new.produced = st[r].produced
    BY <1>1, <1>4 DEF RequestRows
  <1> HIDE DEF new
  <1>7. RequestKnown(new) /\ new.pc \in Holding
    BY <1>4, <1>6 DEF RequestKnown, Before, Answered, Cleaning, Wordless, Holding
  <1> QED BY <1>3, <1>5, <1>7, OneRequest

\* From one stage to another, without an answer.
LEMMA Passes ==
    ASSUME ChatSound, NEW r \in Requests, NEW new, Set(r, new), new \in RequestRows,
           st[r].pc \in Before, new.pc \in Before \ {"arrive", "daily", "trial"},
           new.out = st[r].out, new.taken = st[r].taken, new.produced = st[r].produced,
           new.pc \in Wordless => ~st[r].produced, st[r].pc \in Holding => new.pc \in Holding,
           Quiet
    PROVE  ChatSound'
  <1>1. RequestKnown(st[r])
    BY RequestRow
  <1>2. RequestKnown(new)
    BY <1>1 DEF RequestKnown, Before, Answered, Cleaning
  <1> QED BY <1>2, Moves

\* What remains of a request that is over.
LEMMA DoneRow ==
    ASSUME NEW s \in RequestRows
    PROVE  /\ Done(s) \in RequestRows /\ Done(s).pc = "over" /\ Done(s).out = s.out
           /\ Done(s).taken = s.taken /\ Done(s).produced = s.produced /\ Done(s).conn = s.conn
           /\ Done(s).kept = s.kept
  <1>1. NoCall \in Calls
    BY DEF NoCall, Calls
  <1>2. Done(s) \in RequestRows
    BY <1>1 DEF Done, RequestRows
  <1>3. /\ Done(s).pc = "over" /\ Done(s).out = s.out /\ Done(s).taken = s.taken
        /\ Done(s).produced = s.produced /\ Done(s).conn = s.conn /\ Done(s).kept = s.kept
    BY DEF Done, RequestRows
  <1> QED BY <1>2, <1>3

LEMMA Refuses ==
    ASSUME ChatSound, NEW r \in Requests, st[r].pc \in {"arrive", "daily", "trial"}, Refused(r),
           Quiet
    PROVE  ChatSound'
  <1>1. st[r] \in RequestRows /\ RequestKnown(st[r])
    BY RequestRow
  <1> DEFINE new == Done(st[r])
  <1>2. /\ new \in RequestRows /\ new.pc = "over" /\ new.out = st[r].out /\ new.taken = st[r].taken
        /\ new.produced = st[r].produced
    BY <1>1, DoneRow
  <1>3. Set(r, new)
    BY DEF Refused
  <1> HIDE DEF new
  <1>4. RequestKnown(new)
    BY <1>1, <1>2 DEF RequestKnown, Before, Answered, Cleaning, Wordless
  <1>5. st[r].pc \notin Holding
    BY DEF Holding
  <1> QED BY <1>2, <1>3, <1>4, <1>5, Moves

LEMMA ConcurrentKeeps ==
    ASSUME ChatSound, NEW r \in Requests, CheckConcurrent(r)
    PROVE  ChatSound'
  <1>1. /\ st[r] \in RequestRows /\ RequestKnown(st[r]) /\ st[r].pc = "arrive"
        /\ Quiet
    BY RequestRow, QuietSteps DEF CheckConcurrent, At
  <1>2. ASSUME NEW l \in BOOLEAN, Set(r, [st[r] EXCEPT !.pc = "daily", !.lease = l])
        PROVE  ChatSound'
    <2> DEFINE new == [st[r] EXCEPT !.pc = "daily", !.lease = l]
    <2>1. /\ new \in RequestRows /\ new.pc = "daily" /\ new.out = st[r].out /\ new.taken = st[r].taken
          /\ new.produced = st[r].produced
      BY <1>1 DEF RequestRows, Before
    <2> HIDE DEF new
    <2>2. RequestKnown(new)
      BY <1>1, <2>1 DEF RequestKnown, Before, Answered, Cleaning, Wordless
    <2>3. st[r].pc \notin Holding
      BY <1>1 DEF Holding
    <2> QED BY <1>1, <1>2, <2>1, <2>2, <2>3, Moves DEF new
  <1>3. CASE Set(r, [st[r] EXCEPT !.pc = "daily"])
    <2>1. [st[r] EXCEPT !.pc = "daily"] = [st[r] EXCEPT !.pc = "daily", !.lease = st[r].lease] /\ st[r].lease \in BOOLEAN
      BY <1>1 DEF RequestRows
    <2> QED BY <1>2, <1>3, <2>1
  <1>4. CASE Refused(r)
    BY <1>1, <1>4, Refuses
  <1> QED BY <1>2, <1>3, <1>4 DEF CheckConcurrent

LEMMA DailyKeeps ==
    ASSUME ChatSound, NEW r \in Requests, CheckDaily(r)
    PROVE  ChatSound'
  <1>1. /\ st[r] \in RequestRows /\ RequestKnown(st[r]) /\ st[r].pc = "daily"
        /\ Quiet
    BY RequestRow, QuietSteps DEF CheckDaily, At
  <1>2. CASE Set(r, [st[r] EXCEPT !.pc = "trial"])
    <2> DEFINE new == [st[r] EXCEPT !.pc = "trial"]
    <2>1. /\ new \in RequestRows /\ new.pc = "trial" /\ new.out = st[r].out /\ new.taken = st[r].taken
          /\ new.produced = st[r].produced
      BY <1>1 DEF RequestRows, Before
    <2> HIDE DEF new
    <2>2. RequestKnown(new)
      BY <1>1, <2>1 DEF RequestKnown, Before, Answered, Cleaning, Wordless
    <2>3. st[r].pc \notin Holding
      BY <1>1 DEF Holding
    <2> QED BY <1>1, <1>2, <2>1, <2>2, <2>3, Moves DEF new
  <1>3. CASE Refused(r)
    BY <1>1, <1>3, Refuses
  <1> QED BY <1>2, <1>3 DEF CheckDaily

LEMMA ReserveKeeps ==
    ASSUME ChatSound, NEW r \in Requests, ReserveTrial(r)
    PROVE  ChatSound'
  <1>1. /\ st[r] \in RequestRows /\ RequestKnown(st[r]) /\ st[r].pc = "trial"
        /\ Quiet
    BY RequestRow, QuietSteps DEF ReserveTrial, At
  <1>2. CASE Set(r, [st[r] EXCEPT !.pc = "start", !.taken = "reserved"])
    <2> DEFINE new == [st[r] EXCEPT !.pc = "start", !.taken = "reserved"]
    <2>1. /\ new \in RequestRows /\ new.pc = "start" /\ new.out = st[r].out /\ new.taken = "reserved"
          /\ new.produced = st[r].produced
      BY <1>1 DEF RequestRows, Before
    <2> HIDE DEF new
    <2>2. RequestKnown(new)
      BY <1>1, <2>1 DEF RequestKnown, Before, Answered, Cleaning, Wordless
    <2>3. st[r].pc \notin Holding
      BY <1>1 DEF Holding
    <2> QED BY <1>1, <1>2, <2>1, <2>2, <2>3, Moves DEF new
  <1>3. CASE Refused(r)
    BY <1>1, <1>3, Refuses
  <1> QED BY <1>2, <1>3 DEF ReserveTrial

\* Every way in which a stage ends with an answer.
LEMMA Replies ==
    ASSUME ChatSound, NEW r \in Requests, st[r].pc \in Before, Quiet,
           \/ \E kind \in {"model", "cut", "blocked", "fixed", "notice", "cached"} : Early(r, kind) \/ Late(r, kind)
           \/ FinishBusy(r) /\ ~st[r].produced
    PROVE  ChatSound'
  <1>1. /\ lock' \in Requests \cup {None} /\ rebuilding' \subseteq rebuilding
        /\ \A q \in rebuilding' : lock' = q
    BY Locks DEF Quiet
  <1>2. ASSUME NEW kind \in {"model", "cut", "blocked", "fixed", "notice", "cached"}, Early(r, kind)
        PROVE  ChatSound'
    <2>1. Deliver(r, kind, TRUE, "close")
      BY <1>2 DEF Early
    <2> QED BY <1>1, <2>1, Answers DEF Quiet
  <1>3. ASSUME NEW kind \in {"model", "cut", "blocked", "fixed", "notice", "cached"}, Late(r, kind)
        PROVE  ChatSound'
    <2>1. Deliver(r, kind, FALSE, "close")
      BY <1>3 DEF Late
    <2> QED BY <1>1, <2>1, Answers DEF Quiet
  <1>4. CASE FinishBusy(r) /\ ~st[r].produced
    <2>1. Deliver(r, "fixed", TRUE, "refund")
      BY <1>4 DEF FinishBusy
    <2> QED BY <1>1, <1>4, <2>1, Answers DEF Quiet
  <1> QED BY <1>2, <1>3, <1>4

LEMMA RefundedKeeps ==
    ASSUME ChatSound, NEW r \in Requests, Refund(r)
    PROVE  ChatSound'
  <1>1. /\ st[r] \in RequestRows /\ RequestKnown(st[r]) /\ st[r].pc = "refund"
        /\ Quiet
    BY RequestRow, QuietSteps DEF Refund, At
  <1>2. PICK t \in {"no", "reserved", "returned"} : Set(r, [st[r] EXCEPT !.pc = "close", !.taken = t])
    <2>1. [st[r] EXCEPT !.pc = "close"] = [st[r] EXCEPT !.pc = "close", !.taken = st[r].taken]
          /\ st[r].taken \in {"no", "reserved", "returned"}
      BY <1>1 DEF RequestRows
    <2> QED BY <2>1 DEF Refund, Refunded
  <1> DEFINE new == [st[r] EXCEPT !.pc = "close", !.taken = t]
  <1>3. /\ new \in RequestRows /\ new.pc = "close" /\ new.out = st[r].out /\ new.produced = st[r].produced
    BY <1>1 DEF RequestRows, Answered
  <1> HIDE DEF new
  <1>4. RequestKnown(new) /\ new.pc \in Holding
    BY <1>1, <1>3 DEF RequestKnown, Before, Answered, Cleaning, Wordless, Holding
  <1> QED BY <1>1, <1>2, <1>3, <1>4, Moves DEF new

\* From the answer to the cleanup.
LEMMA SaveKeeps ==
    ASSUME ChatSound, NEW r \in Requests, SaveAnswer(r) \/ CountAnswer(r)
    PROVE  ChatSound'
  <1>1. /\ st[r] \in RequestRows /\ RequestKnown(st[r]) /\ st[r].pc \in {"close", "count"}
        /\ Quiet
    BY RequestRow, QuietSteps DEF SaveAnswer, CountAnswer, At
  <1>2. st[r].kept + 1 \in Nat
    BY <1>1 DEF RequestRows
  <1>3. ASSUME NEW new, Set(r, new),
               \/ new = [st[r] EXCEPT !.pc = "count", !.kept = st[r].kept + 1]
               \/ new = [st[r] EXCEPT !.pc = "unlock", !.saved = TRUE]
        PROVE  ChatSound'
    <2>1. /\ new \in RequestRows /\ new.pc \in {"count", "unlock"} /\ new.out = st[r].out
          /\ new.produced = st[r].produced /\ new.taken = st[r].taken
      <3>1. CASE new = [st[r] EXCEPT !.pc = "count", !.kept = st[r].kept + 1]
        BY <1>1, <1>2, <3>1 DEF RequestRows, Answered
      <3>2. CASE new = [st[r] EXCEPT !.pc = "unlock", !.saved = TRUE]
        BY <1>1, <3>2 DEF RequestRows, Cleaning
      <3> QED BY <1>3, <3>1, <3>2
    <2>2. RequestKnown(new) /\ new.pc \in Holding
      BY <1>1, <2>1 DEF RequestKnown, Before, Answered, Cleaning, Wordless, Holding
    <2> QED BY <1>1, <1>3, <2>1, <2>2, Moves
  <1> QED BY <1>3 DEF SaveAnswer, CountAnswer

LEMMA PrepareKeeps ==
    ASSUME ChatSound, NEW r \in Requests, Prepare(r)
    PROVE  ChatSound'
  <1>1. /\ st[r] \in RequestRows /\ RequestKnown(st[r]) /\ st[r].pc = "start"
        /\ Quiet
    BY RequestRow, QuietSteps DEF Prepare, At
  <1>2. CASE Set(r, [st[r] EXCEPT !.pc = "civil"])
    <2> DEFINE new == [st[r] EXCEPT !.pc = "civil"]
    <2>1. /\ new \in RequestRows /\ new.pc = "civil" /\ new.out = st[r].out
          /\ new.produced = st[r].produced /\ new.taken = st[r].taken
      BY <1>1 DEF RequestRows, Before
    <2> HIDE DEF new
    <2>2. st[r].pc \in Before /\ ~st[r].produced /\ st[r].pc \notin Holding
      BY <1>1 DEF Before, Wordless, Holding, RequestKnown
    <2>3. new.pc \in Before \ {"arrive", "daily", "trial"}
      BY <2>1 DEF Before
    <2> QED BY <1>1, <1>2, <2>1, <2>2, <2>3, Passes DEF new
  <1>3. CASE Set(r, [st[r] EXCEPT !.pc = "unbuilt", !.out = 1])
    <2> DEFINE new == [st[r] EXCEPT !.pc = "unbuilt", !.out = 1]
    <2>1. /\ new \in RequestRows /\ new.pc = "unbuilt" /\ new.out = 1
          /\ new.produced = st[r].produced /\ new.taken = st[r].taken
      BY <1>1 DEF RequestRows, Cleaning
    <2> HIDE DEF new
    <2>2. RequestKnown(new) /\ st[r].pc \notin Holding
      BY <1>1, <2>1 DEF RequestKnown, Before, Answered, Cleaning, Wordless, Holding
    <2> QED BY <1>1, <1>3, <2>1, <2>2, Moves DEF new
  <1> QED BY <1>2, <1>3 DEF Prepare

\* A request may go from a stage to another: with the lock it goes on with it, and
\* only without a word of a model it goes where that is asked for.
Onward(r, p) ==
    /\ st[r].pc \in Before /\ p \in Before \ {"arrive", "daily", "trial"}
    /\ p \in Wordless => ~st[r].produced
    /\ st[r].pc \in Holding => p \in Holding

\* Such a step may set the mode, the number of the call and the call as well.
LEMMA StepTo ==
    ASSUME ChatSound, NEW r \in Requests, Quiet, NEW p, Onward(r, p),
           Set(r, [st[r] EXCEPT !.pc = p])
    PROVE  ChatSound'
  <1> DEFINE new == [st[r] EXCEPT !.pc = p]
  <1>1. st[r] \in RequestRows /\ p \in Before
    BY RequestRow DEF Onward
  <1>2. /\ new \in RequestRows /\ new.pc = p /\ new.out = st[r].out
        /\ new.produced = st[r].produced /\ new.taken = st[r].taken
    BY <1>1 DEF RequestRows
  <1> HIDE DEF new
  <1>3. Set(r, new)
    BY DEF new
  <1> QED BY <1>2, <1>3, Passes DEF Onward

\* The same with a mode, a model, a call or some of them changed on the way.
LEMMA StepMode ==
    ASSUME ChatSound, NEW r \in Requests, Quiet, NEW p, NEW m \in {"simple", "recommend", "react", "flash"}, Onward(r, p),
           Set(r, [st[r] EXCEPT !.pc = p, !.mode = m])
    PROVE  ChatSound'
  <1> DEFINE new == [st[r] EXCEPT !.pc = p, !.mode = m]
  <1>1. st[r] \in RequestRows /\ p \in Before
    BY RequestRow DEF Onward
  <1>2. /\ new \in RequestRows /\ new.pc = p /\ new.out = st[r].out
        /\ new.produced = st[r].produced /\ new.taken = st[r].taken
    BY <1>1 DEF RequestRows
  <1> HIDE DEF new
  <1>3. Set(r, new)
    BY DEF new
  <1> QED BY <1>2, <1>3, Passes DEF Onward

LEMMA StepCount ==
    ASSUME ChatSound, NEW r \in Requests, Quiet, NEW p, NEW k \in Nat, Onward(r, p),
           Set(r, [st[r] EXCEPT !.pc = p, !.n = k])
    PROVE  ChatSound'
  <1> DEFINE new == [st[r] EXCEPT !.pc = p, !.n = k]
  <1>1. st[r] \in RequestRows /\ p \in Before
    BY RequestRow DEF Onward
  <1>2. /\ new \in RequestRows /\ new.pc = p /\ new.out = st[r].out
        /\ new.produced = st[r].produced /\ new.taken = st[r].taken
    BY <1>1 DEF RequestRows
  <1> HIDE DEF new
  <1>3. Set(r, new)
    BY DEF new
  <1> QED BY <1>2, <1>3, Passes DEF Onward

LEMMA StepModeCount ==
    ASSUME ChatSound, NEW r \in Requests, Quiet, NEW p, NEW m \in {"simple", "recommend", "react", "flash"}, NEW k \in Nat, Onward(r, p),
           Set(r, [st[r] EXCEPT !.pc = p, !.mode = m, !.n = k])
    PROVE  ChatSound'
  <1> DEFINE new == [st[r] EXCEPT !.pc = p, !.mode = m, !.n = k]
  <1>1. st[r] \in RequestRows /\ p \in Before
    BY RequestRow DEF Onward
  <1>2. /\ new \in RequestRows /\ new.pc = p /\ new.out = st[r].out
        /\ new.produced = st[r].produced /\ new.taken = st[r].taken
    BY <1>1 DEF RequestRows
  <1> HIDE DEF new
  <1>3. Set(r, new)
    BY DEF new
  <1> QED BY <1>2, <1>3, Passes DEF Onward

LEMMA StepCall ==
    ASSUME ChatSound, NEW r \in Requests, Quiet, NEW p, Onward(r, p),
           Set(r, [st[r] EXCEPT !.pc = p, !.call = NoCall])
    PROVE  ChatSound'
  <1> DEFINE new == [st[r] EXCEPT !.pc = p, !.call = NoCall]
  <1>0. NoCall \in Calls
    BY DEF NoCall, Calls
  <1>1. st[r] \in RequestRows /\ p \in Before
    BY RequestRow DEF Onward
  <1>2. /\ new \in RequestRows /\ new.pc = p /\ new.out = st[r].out
        /\ new.produced = st[r].produced /\ new.taken = st[r].taken
    BY <1>1, <1>0 DEF RequestRows
  <1> HIDE DEF new
  <1>3. Set(r, new)
    BY DEF new
  <1> QED BY <1>2, <1>3, Passes DEF Onward

LEMMA StepCountCall ==
    ASSUME ChatSound, NEW r \in Requests, Quiet, NEW p, NEW k \in Nat, Onward(r, p),
           Set(r, [st[r] EXCEPT !.pc = p, !.n = k, !.call = NoCall])
    PROVE  ChatSound'
  <1> DEFINE new == [st[r] EXCEPT !.pc = p, !.n = k, !.call = NoCall]
  <1>0. NoCall \in Calls
    BY DEF NoCall, Calls
  <1>1. st[r] \in RequestRows /\ p \in Before
    BY RequestRow DEF Onward
  <1>2. /\ new \in RequestRows /\ new.pc = p /\ new.out = st[r].out
        /\ new.produced = st[r].produced /\ new.taken = st[r].taken
    BY <1>1, <1>0 DEF RequestRows
  <1> HIDE DEF new
  <1>3. Set(r, new)
    BY DEF new
  <1> QED BY <1>2, <1>3, Passes DEF Onward

LEMMA StepAll ==
    ASSUME ChatSound, NEW r \in Requests, Quiet, NEW p, NEW m \in {"simple", "recommend", "react", "flash"}, NEW k \in Nat, Onward(r, p),
           Set(r, [st[r] EXCEPT !.pc = p, !.mode = m, !.n = k, !.call = NoCall])
    PROVE  ChatSound'
  <1> DEFINE new == [st[r] EXCEPT !.pc = p, !.mode = m, !.n = k, !.call = NoCall]
  <1>0. NoCall \in Calls
    BY DEF NoCall, Calls
  <1>1. st[r] \in RequestRows /\ p \in Before
    BY RequestRow DEF Onward
  <1>2. /\ new \in RequestRows /\ new.pc = p /\ new.out = st[r].out
        /\ new.produced = st[r].produced /\ new.taken = st[r].taken
    BY <1>1, <1>0 DEF RequestRows
  <1> HIDE DEF new
  <1>3. Set(r, new)
    BY DEF new
  <1> QED BY <1>2, <1>3, Passes DEF Onward

\* The stages, one after the other: each leaves every request known.
LEMMA GatesKeep ==
    ASSUME ChatSound, NEW r \in Requests, CivilGate(r) \/ LawMapping(r)
    PROVE  ChatSound'
  <1>1. /\ RequestKnown(st[r]) /\ st[r].pc \in {"civil", "law"} /\ st[r].pc \in Before /\ Quiet /\ ~st[r].produced
    BY RequestRow, QuietSteps DEF CivilGate, LawMapping, At, RequestKnown, Wordless, Before
  <1>2. CASE Late(r, "notice")
    BY <1>1, <1>2, Replies
  <1>3. CASE Set(r, [st[r] EXCEPT !.pc = "cache"]) /\ st[r].pc = "civil"
    <2>1. Onward(r, "cache")
      BY <1>1, <1>3 DEF Onward, Before, Holding
    <2> QED BY <1>1, <1>3, <2>1, StepTo
  <1>4. CASE Set(r, [st[r] EXCEPT !.pc = "tools"]) /\ st[r].pc = "law"
    <2>1. Onward(r, "tools")
      BY <1>1, <1>4 DEF Onward, Before, Holding
    <2> QED BY <1>1, <1>4, <2>1, StepTo
  <1> QED BY <1>2, <1>3, <1>4 DEF CivilGate, LawMapping, At

LEMMA CacheKeeps ==
    ASSUME ChatSound, NEW r \in Requests, ServeFromCache(r) \/ Reread(r)
    PROVE  ChatSound'
  <1>1. /\ RequestKnown(st[r]) /\ st[r].pc \in {"cache", "wait"} /\ st[r].pc \in Before /\ Quiet /\ ~st[r].produced
    BY RequestRow, QuietSteps DEF ServeFromCache, Reread, At, RequestKnown, Wordless, Before
  <1>2. CASE Early(r, "cached") \/ FinishBusy(r)
    BY <1>1, <1>2, Replies
  <1>3. CASE Set(r, [st[r] EXCEPT !.pc = "key"])
    <2>1. Onward(r, "key")
      BY <1>1, <1>3 DEF Onward, Before, Holding
    <2> QED BY <1>1, <1>3, <2>1, StepTo
  <1>4. CASE Set(r, [st[r] EXCEPT !.pc = "lock"]) /\ st[r].pc = "cache"
    <2>1. Onward(r, "lock")
      BY <1>1, <1>4 DEF Onward, Before, Holding
    <2> QED BY <1>1, <1>4, <2>1, StepTo
  <1> QED BY <1>2, <1>3, <1>4 DEF ServeFromCache, Reread, At

LEMMA AcquireKeeps ==
    ASSUME ChatSound, NEW r \in Requests, AcquireLock(r)
    PROVE  ChatSound'
  <1>1. /\ st[r] \in RequestRows /\ RequestKnown(st[r]) /\ st[r].pc = "lock" /\ st[r].pc \in Before
        /\ ~st[r].produced /\ drains' \subseteq DrainRows /\ unpaid' = {}
    BY RequestRow, QuietSteps DEF AcquireLock, At, RequestKnown, Wordless, Before, ChatSound, ChatTypes, billVars
  <1>2. ASSUME lock = None
        PROVE  rebuilding = {}
    BY <1>2, ChatAssumption DEF ChatSound, ChatTypes
  <1>3. CASE /\ lock = None /\ lock' = r /\ rebuilding' = rebuilding \cup {r}
             /\ Set(r, [st[r] EXCEPT !.pc = "key", !.token = TRUE])
    <2> DEFINE new == [st[r] EXCEPT !.pc = "key", !.token = TRUE]
    <2>1. /\ new \in RequestRows /\ new.pc = "key" /\ new.out = st[r].out
          /\ new.produced = st[r].produced /\ new.taken = st[r].taken
      BY <1>1 DEF RequestRows, Before
    <2> HIDE DEF new
    <2>2. RequestKnown(new) /\ new.pc \in Holding
      BY <1>1, <2>1 DEF RequestKnown, Before, Answered, Cleaning, Wordless, Holding
    <2>3. rebuilding' \subseteq rebuilding \cup {r} /\ \A q \in rebuilding' : lock' = q
      BY <1>2, <1>3
    <2> QED BY <1>1, <1>3, <2>1, <2>2, <2>3, OneRequest DEF new
  <1>4. CASE UNCHANGED lockVars /\ Set(r, [st[r] EXCEPT !.pc = "wait"])
    <2>1. Quiet
      BY <1>1, <1>4 DEF Quiet
    <2>2. Onward(r, "wait")
      BY <1>1 DEF Onward, Before, Holding
    <2> QED BY <1>4, <2>1, <2>2, StepTo
  <1>5. CASE lock' \in {lock, IF lock = None THEN r ELSE lock} /\ FinishBusy(r) /\ UNCHANGED rebuilding
    <2>1. lock' \in Requests \cup {None} /\ rebuilding' \subseteq rebuilding /\ \A q \in rebuilding' : lock' = q
      BY <1>2, <1>5 DEF ChatSound, ChatTypes
    <2>2. Deliver(r, "fixed", TRUE, "refund")
      BY <1>5 DEF FinishBusy
    <2> QED BY <1>1, <2>1, <2>2, Answers
  <1> QED BY <1>3, <1>4, <1>5 DEF AcquireLock

LEMMA RoutesKeep ==
    ASSUME ChatSound, NEW r \in Requests, GetKey(r) \/ RouteIntent(r)
    PROVE  ChatSound'
  <1>1. /\ RequestKnown(st[r]) /\ st[r].pc \in {"key", "route"} /\ st[r].pc \in Before /\ Quiet /\ ~st[r].produced
        /\ st[r].ways \subseteq {"simple", "recommend", "react"}
    BY RequestRow, QuietSteps DEF GetKey, RouteIntent, At, RequestKnown, Wordless, Before, RequestRows
  <1>2. CASE Early(r, "fixed") \/ FinishBusy(r)
    BY <1>1, <1>2, Replies
  <1>3. CASE Set(r, [st[r] EXCEPT !.pc = "route"])
    <2>1. Onward(r, "route")
      BY <1>1, <1>3 DEF Onward, Before, Holding
    <2> QED BY <1>1, <1>3, <2>1, StepTo
  <1>4. CASE Set(r, [st[r] EXCEPT !.pc = "law"])
    <2>1. Onward(r, "law")
      BY <1>1, <1>4 DEF Onward, Before, Holding
    <2> QED BY <1>1, <1>4, <2>1, StepTo
  <1>5. ASSUME NEW w \in st[r].ways, Set(r, [st[r] EXCEPT !.pc = IF w = "react" THEN "loop" ELSE "tools", !.mode = w])
        PROVE  ChatSound'
    <2> DEFINE p == IF w = "react" THEN "loop" ELSE "tools"
    <2>1. p \in Before \ {"arrive", "daily", "trial"} /\ p \in Holding
      BY DEF Before, Holding
    <2>2. Set(r, [st[r] EXCEPT !.pc = p, !.mode = w])
      BY <1>5
    <2> HIDE DEF p
    <2>3. Onward(r, p)
      BY <1>1, <2>1 DEF Onward
    <2> QED BY <1>1, <2>2, <2>3, StepMode
  <1> QED BY <1>2, <1>3, <1>4, <1>5 DEF GetKey, RouteIntent

LEMMA ToolsKeep ==
    ASSUME ChatSound, NEW r \in Requests, Unexpected(r) \/ Tools(r) \/ ReactStart(r)
    PROVE  ChatSound'
  <1>1. /\ RequestKnown(st[r]) /\ st[r].pc \in {"key", "law", "loop", "tools"} /\ st[r].pc \in Before /\ Quiet
        /\ ~st[r].produced
    BY RequestRow, QuietSteps DEF Unexpected, Tools, ReactStart, At, RequestKnown, Wordless, Before
  <1>2. CASE Late(r, "fixed") \/ FinishBusy(r)
    BY <1>1, <1>2, Replies
  <1>3. CASE Set(r, [st[r] EXCEPT !.pc = "ask", !.mode = "flash", !.n = 0])
    <2>1. Onward(r, "ask")
      BY <1>1, <1>3 DEF Onward, Before, Holding
    <2> QED BY <1>1, <1>3, <2>1, StepModeCount
  <1>4. CASE Set(r, [st[r] EXCEPT !.pc = "ask", !.n = 0])
    <2>1. Onward(r, "ask")
      BY <1>1, <1>4 DEF Onward, Before, Holding
    <2> QED BY <1>1, <1>4, <2>1, StepCount
  <1>5. CASE Set(r, [st[r] EXCEPT !.pc = "loop", !.mode = "react"])
    <2>1. Onward(r, "loop")
      BY <1>1, <1>5 DEF Onward, Before, Holding
    <2> QED BY <1>1, <1>5, <2>1, StepMode
  <1> QED BY <1>2, <1>3, <1>4, <1>5 DEF Unexpected, Tools, ReactStart

\* Text that is charged for as it ends is not left unpaid.
LEMMA ChargedOnce ==
    ASSUME ChatSound, NEW r \in Requests, Charged(r, 1)
    PROVE  unpaid' = {}
  BY DEF Charged, ChatSound

LEMMA CallsKeep ==
    ASSUME ChatSound, NEW r \in Requests, OpenCall(r) \/ Text(r) \/ Usage(r)
    PROVE  ChatSound'
  <1>1. /\ st[r] \in RequestRows /\ RequestKnown(st[r]) /\ st[r].pc \in {"ask", "stream"} /\ st[r].pc \in Before
        /\ Quiet /\ st[r].call \in Calls
    BY RequestRow, QuietSteps DEF OpenCall, Text, Usage, At, Before, RequestRows
  <1>2. CASE OpenCall(r)
    <2>1. Set(r, [st[r] EXCEPT !.pc = "stream", !.call = NoCall])
      BY <1>2 DEF OpenCall
    <2>2. Onward(r, "stream")
      BY <1>1 DEF Onward, Before, Holding, Wordless
    <2> QED BY <1>1, <2>1, <2>2, StepCall
  <1>3. CASE Text(r)
    <2> DEFINE new == [st[r] EXCEPT !.call.text = TRUE, !.produced = TRUE]
    <2>1. Set(r, new) /\ st[r].pc = "stream"
      BY <1>3 DEF Text, At
    <2>2. [st[r].call EXCEPT !.text = TRUE] \in Calls
      BY <1>1 DEF Calls
    <2>3. /\ new \in RequestRows /\ new.pc = "stream" /\ new.out = st[r].out /\ new.taken = st[r].taken
      BY <1>1, <2>1, <2>2 DEF RequestRows
    <2> HIDE DEF new
    <2>4. RequestKnown(new) /\ new.pc \in Holding
      BY <1>1, <2>1, <2>3 DEF RequestKnown, Before, Answered, Cleaning, Wordless, Holding
    <2> QED BY <1>1, <2>1, <2>3, <2>4, Moves
  <1>4. CASE Usage(r)
    <2> DEFINE new == [st[r] EXCEPT !.call.usage = TRUE]
    <2>1. Set(r, new) /\ st[r].pc = "stream"
      BY <1>4 DEF Usage, At
    <2>2. [st[r].call EXCEPT !.usage = TRUE] \in Calls
      BY <1>1 DEF Calls
    <2>3. /\ new \in RequestRows /\ new.pc = "stream" /\ new.out = st[r].out /\ new.taken = st[r].taken
          /\ new.produced = st[r].produced
      BY <1>1, <2>1, <2>2 DEF RequestRows
    <2> HIDE DEF new
    <2>4. RequestKnown(new) /\ new.pc \in Holding
      BY <1>1, <2>1, <2>3 DEF RequestKnown, Before, Answered, Cleaning, Wordless, Holding
    <2> QED BY <1>1, <2>1, <2>3, <2>4, Moves
  <1> QED BY <1>2, <1>3, <1>4

\* The next of the models, or the answer that there is none.
LEMMA NextModelKeeps ==
    ASSUME ChatSound, NEW r \in Requests, st[r].pc \in {"ask", "stream"}, Quiet, NextModel(r)
    PROVE  ChatSound'
  <1>1. st[r].pc \in Before /\ st[r].n + 1 \in Nat
    BY RequestRow DEF Before, RequestRows
  <1>2. CASE Set(r, [st[r] EXCEPT !.pc = "ask", !.n = @ + 1, !.call = NoCall])
    <2>1. Onward(r, "ask")
      BY DEF Onward, Before, Holding, Wordless
    <2> QED BY <1>1, <1>2, <2>1, StepCountCall
  <1>3. CASE Late(r, "fixed")
    BY <1>1, <1>3, Replies
  <1> QED BY <1>2, <1>3 DEF NextModel

LEMMA EndKeeps ==
    ASSUME ChatSound, NEW r \in Requests, End(r)
    PROVE  ChatSound'
  <1>1. st[r].pc = "stream" /\ st[r].pc \in Before
    BY DEF End, At, Before
  <1>2. Charged(r, 1) /\ drains' = drains /\ UNCHANGED lockVars
    BY DEF End, EndFast, EndReact, EndFlash
  <1>3. Quiet
    BY <1>2, ChargedOnce DEF Quiet, ChatSound, ChatTypes
  <1>4. CASE Whole(r)
    BY <1>1, <1>3, <1>4, Replies DEF Whole
  <1>5. CASE NextModel(r)
    BY <1>1, <1>3, <1>5, NextModelKeeps
  <1>6. CASE Set(r, [st[r] EXCEPT !.pc = "react", !.call = NoCall])
    <2>1. Onward(r, "react")
      BY <1>1 DEF Onward, Before, Holding, Wordless
    <2> QED BY <1>3, <1>6, <2>1, StepCall
  <1>7. CASE Late(r, "fixed") \/ Early(r, "model") \/ NoFallback(r)
    BY <1>1, <1>3, <1>7, Replies DEF NoFallback
  <1> QED BY <1>4, <1>5, <1>6, <1>7 DEF End, EndFast, EndReact, EndFlash

LEMMA FailKeeps ==
    ASSUME ChatSound, NEW r \in Requests, Fail(r)
    PROVE  ChatSound'
  <1>1. st[r].pc \in {"ask", "stream"} /\ st[r].pc \in Before /\ Quiet
    BY QuietSteps DEF Fail, Before
  <1>2. CASE Late(r, "cut") \/ Late(r, "fixed") \/ Early(r, "cut") \/ NoFallback(r)
    BY <1>1, <1>2, Replies DEF NoFallback
  <1>3. CASE NextModel(r)
    BY <1>1, <1>3, NextModelKeeps
  <1>4. CASE Set(r, [st[r] EXCEPT !.pc = "ask", !.mode = "flash", !.n = 0, !.call = NoCall])
    <2>1. Onward(r, "ask")
      BY <1>1 DEF Onward, Before, Holding, Wordless
    <2> QED BY <1>1, <1>4, <2>1, StepAll
  <1> QED BY <1>2, <1>3, <1>4 DEF Fail

\* What is left to be drained has been charged once at most.
LEMMA LeftRow ==
    ASSUME ChatSound, NEW r \in Requests, NEW n \in {0, 1}, LeaveToDrain(r, n)
    PROVE  drains' \subseteq DrainRows
  <1>1. st[r].call \in Calls
    BY RequestRow DEF RequestRows
  <1>2. [of |-> r, text |-> st[r].call.text, usage |-> st[r].call.usage, paid |-> n] \in DrainRows
    BY <1>1 DEF Calls, DrainRows
  <1> QED BY <1>2 DEF LeaveToDrain, ChatSound, ChatTypes

LEMMA BlockKeeps ==
    ASSUME ChatSound, NEW r \in Requests, Block(r)
    PROVE  ChatSound'
  <1>1. st[r].pc \in Before /\ UNCHANGED lockVars
    BY DEF Block, At, Before
  <1>2. Late(r, "blocked") \/ Early(r, "blocked")
    BY DEF Block
  <1>3. drains' \subseteq DrainRows /\ unpaid' = {}
    <2>1. CASE Charged(r, 1) /\ UNCHANGED drains
      BY <2>1, ChargedOnce DEF ChatSound, ChatTypes
    <2>2. CASE LeaveToDrain(r, ChargedSoFar(r)) /\ UNCHANGED unpaid
      <3>1. ChargedSoFar(r) \in {0, 1}
        BY DEF ChargedSoFar
      <3> QED BY <2>2, <3>1, LeftRow DEF ChatSound
    <2>3. CASE LeaveToDrain(r, IF st[r].call.usage THEN 1 ELSE 0) /\ UNCHANGED unpaid
      <3> DEFINE n == IF st[r].call.usage THEN 1 ELSE 0
      <3>1. n \in {0, 1} /\ LeaveToDrain(r, n)
        BY <2>3
      <3> HIDE DEF n
      <3> QED BY <2>3, <3>1, LeftRow DEF ChatSound
    <2> QED BY <2>1, <2>2, <2>3 DEF Block
  <1>4. Quiet
    BY <1>1, <1>3 DEF Quiet
  <1> QED BY <1>1, <1>2, <1>4, Replies

LEMMA DrainKeeps ==
    ASSUME ChatSound, NEW d \in drains, Drain(d)
    PROVE  ChatSound'
  <1>1. PICK n \in {IF d.text THEN 1 ELSE 0, IF d.text \/ ~d.usage THEN 1 ELSE 0} :
          unpaid' = IF d.text /\ d.paid + n = 0 THEN unpaid \cup {d.of} ELSE unpaid
    BY DEF Drain
  <1>2. d \in DrainRows
    BY DEF ChatSound, ChatTypes
  <1>3. d.text => n = 1
    BY <1>1
  <1>4. ~(d.text /\ d.paid + n = 0)
    BY <1>2, <1>3 DEF DrainRows
  <1>5. unpaid' = {}
    BY <1>1, <1>4 DEF ChatSound
  <1>6. drains' \subseteq drains /\ UNCHANGED <<st, lock, rebuilding>>
    BY DEF Drain, lockVars
  <1> QED BY <1>5, <1>6 DEF ChatSound, ChatTypes

LEMMA ReactToolsKeep ==
    ASSUME ChatSound, NEW r \in Requests, ReactTools(r)
    PROVE  ChatSound'
  <1>1. st[r].pc = "react" /\ st[r].pc \in Before /\ Quiet /\ st[r].n + 1 \in Nat
    BY QuietSteps, RequestRow DEF ReactTools, At, Before, RequestRows
  <1>2. CASE Late(r, "notice") \/ Late(r, "fixed")
    BY <1>1, <1>2, Replies
  <1>3. CASE Set(r, [st[r] EXCEPT !.pc = "ask", !.n = @ + 1])
    <2>1. Onward(r, "ask")
      BY <1>1 DEF Onward, Before, Holding, Wordless
    <2> QED BY <1>1, <1>3, <2>1, StepCount
  <1> QED BY <1>2, <1>3 DEF ReactTools

\* The cleanup: one place after the other, the lock first.
LEMMA CleansUp ==
    ASSUME ChatSound, NEW r \in Requests, NEW new, Set(r, new), new \in RequestRows,
           st[r].pc \in Cleaning, new.pc \in (Cleaning \ {"unbuilt"}) \cup {"over"},
           new.out = st[r].out, new.produced = st[r].produced,
           new.taken = st[r].taken \/ (new.taken = "returned" /\ ~st[r].produced),
           new.conn => st[r].conn,
           lock' \in Requests \cup {None}, rebuilding' \subseteq rebuilding \ {r},
           \A q \in rebuilding' : lock' = q, UNCHANGED billVars
    PROVE  ChatSound'
  <1>1. RequestKnown(st[r])
    BY RequestRow
  <1>2. RequestKnown(new)
    BY <1>1 DEF RequestKnown, Before, Answered, Cleaning, Wordless
  <1>3. drains' \subseteq DrainRows /\ unpaid' = {}
    BY DEF ChatSound, ChatTypes, billVars
  <1> QED BY <1>2, <1>3, OneRequest

LEMMA UnlockKeeps ==
    ASSUME ChatSound, NEW r \in Requests, Unlock(r)
    PROVE  ChatSound'
  <1> DEFINE new == [st[r] EXCEPT !.pc = "release"]
  <1>1. /\ st[r] \in RequestRows /\ st[r].pc = "unlock" /\ Set(r, new) /\ UNCHANGED billVars
        /\ rebuilding' = rebuilding \ {r}
    BY RequestRow DEF Unlock, At
  <1>2. /\ new \in RequestRows /\ new.pc = "release" /\ new.out = st[r].out /\ new.produced = st[r].produced
        /\ new.taken = st[r].taken /\ new.conn = st[r].conn
    BY <1>1 DEF RequestRows, Cleaning
  <1> HIDE DEF new
  <1>3. lock' = lock \/ (lock = r /\ lock' = None)
    BY DEF Unlock, FreesLock
  <1>4. lock' \in Requests \cup {None} /\ \A q \in rebuilding' : lock' = q
    BY <1>1, <1>3 DEF ChatSound, ChatTypes
  <1>5. st[r].pc \in Cleaning /\ new.pc \in (Cleaning \ {"unbuilt"}) \cup {"over"}
    BY <1>1, <1>2 DEF Cleaning
  <1> QED BY <1>1, <1>2, <1>4, <1>5, CleansUp

LEMMA ReleaseKeeps ==
    ASSUME ChatSound, NEW r \in Requests, Release(r) \/ KeepPartial(r) \/ Unbuilt(r)
    PROVE  ChatSound'
  <1>1. /\ st[r] \in RequestRows /\ RequestKnown(st[r]) /\ UNCHANGED <<lockVars, billVars>>
        /\ st[r].pc \in {"release", "keep", "unbuilt"}
    BY RequestRow DEF Release, KeepPartial, Unbuilt, At
  <1>2. r \notin rebuilding
    BY <1>1, RequestRow DEF Holding
  <1>3. lock' \in Requests \cup {None} /\ rebuilding' \subseteq rebuilding \ {r} /\ \A q \in rebuilding' : lock' = q
    BY <1>1, <1>2 DEF ChatSound, ChatTypes, lockVars
  <1>4. st[r].pc \in Cleaning /\ UNCHANGED billVars
    BY <1>1 DEF Cleaning
  <1>5. /\ Done(st[r]) \in RequestRows /\ Done(st[r]).pc = "over" /\ Done(st[r]).out = st[r].out
        /\ Done(st[r]).taken = st[r].taken /\ Done(st[r]).produced = st[r].produced
        /\ Done(st[r]).conn = st[r].conn
    BY <1>1, DoneRow
  <1>6. CASE Release(r)
    <2> DEFINE new == [st[r] EXCEPT !.pc = "keep"]
    <2>1. /\ new \in RequestRows /\ new.pc = "keep" /\ new.out = st[r].out /\ new.produced = st[r].produced
          /\ new.taken = st[r].taken /\ new.conn = st[r].conn
      BY <1>1 DEF RequestRows, Cleaning
    <2>2. Set(r, new)
      BY <1>6 DEF Release
    <2> HIDE DEF new
    <2>3. new.pc \in (Cleaning \ {"unbuilt"}) \cup {"over"}
      BY <2>1 DEF Cleaning
    <2> QED BY <1>3, <1>4, <2>1, <2>2, <2>3, CleansUp
  <1>7. CASE KeepPartial(r)
    <2> DEFINE done == Done(st[r])
               k == IF st[r].partial /\ ~st[r].saved THEN done.kept + 1 ELSE done.kept
               new == [done EXCEPT !.kept = k]
    <2>1. Set(r, new)
      BY <1>7 DEF KeepPartial
    <2>2. done \in RequestRows /\ done.kept \in Nat
      BY <1>5 DEF RequestRows
    <2>3. k \in Nat
      BY <2>2
    <2> HIDE DEF k, done
    <2>4. /\ new \in RequestRows /\ new.pc = done.pc /\ new.out = done.out /\ new.produced = done.produced
          /\ new.taken = done.taken /\ new.conn = done.conn
      BY <2>2, <2>3 DEF RequestRows
    <2> HIDE DEF new
    <2>5. /\ new.pc = "over" /\ new.out = st[r].out /\ new.produced = st[r].produced
          /\ new.taken = st[r].taken /\ new.conn = st[r].conn
      BY <1>5, <2>4 DEF done
    <2> QED BY <1>3, <1>4, <2>1, <2>4, <2>5, CleansUp
  <1>8. CASE Unbuilt(r)
    <2> DEFINE done == Done(st[r])
               new == [done EXCEPT !.taken = "returned"]
    <2>1. Set(r, new) /\ st[r].pc = "unbuilt"
      BY <1>8 DEF Unbuilt, At
    <2>2. done \in RequestRows
      BY <1>5
    <2> HIDE DEF done
    <2>3. /\ new \in RequestRows /\ new.pc = done.pc /\ new.out = done.out /\ new.produced = done.produced
          /\ new.taken = "returned" /\ new.conn = done.conn
      BY <2>2 DEF RequestRows
    <2> HIDE DEF new
    <2>4. /\ new.pc = "over" /\ new.out = st[r].out /\ new.produced = st[r].produced /\ new.conn = st[r].conn
      BY <1>5, <2>3 DEF done
    <2>5. ~st[r].produced
      BY <1>1, <2>1 DEF RequestKnown, Wordless
    <2> QED BY <1>3, <1>4, <2>1, <2>3, <2>4, <2>5, CleansUp
  <1> QED BY <1>6, <1>7, <1>8

LEMMA CutKeeps ==
    ASSUME ChatSound, NEW r \in Requests, Cut(r)
    PROVE  ChatSound'
  <1>1. /\ st[r] \in RequestRows /\ RequestKnown(st[r]) /\ lock' = lock /\ UNCHANGED billVars
        /\ st[r].pc \in Cleaning /\ rebuilding' \subseteq rebuilding
    BY RequestRow DEF Cut, At, Cleaning
  <1>2. r \notin rebuilding'
    BY RequestRow DEF Cut, At, Holding
  <1>3. lock' \in Requests \cup {None} /\ rebuilding' \subseteq rebuilding \ {r} /\ \A q \in rebuilding' : lock' = q
    BY <1>1, <1>2 DEF ChatSound, ChatTypes
  <1> DEFINE new == Done(st[r])
  <1>4. /\ new \in RequestRows /\ new.pc = "over" /\ new.out = st[r].out
        /\ new.taken = st[r].taken /\ new.produced = st[r].produced /\ new.conn = st[r].conn
    BY <1>1, DoneRow
  <1>5. Set(r, new)
    BY DEF Cut, Refused
  <1> HIDE DEF new
  <1> QED BY <1>1, <1>3, <1>4, <1>5, CleansUp

\* The client leaves: whatever went out before, the request goes to its cleanup.
LEMMA LeavesFor ==
    ASSUME ChatSound, NEW r \in Requests, NEW new, Set(r, new), new \in RequestRows, Quiet,
           new.pc = "unlock" \/ (new.pc = "unbuilt" /\ ~st[r].produced /\ st[r].pc \notin Holding)
             \/ (new.pc = "over" /\ st[r].pc \notin Holding) \/ (new.pc \in Cleaning /\ new.pc = st[r].pc),
           new.out = st[r].out, new.produced = st[r].produced, new.taken = st[r].taken, ~new.conn
    PROVE  ChatSound'
  <1>1. RequestKnown(st[r]) /\ st[r] \in RequestRows
    BY RequestRow
  <1>2. st[r].out <= 1 /\ (st[r].taken = "returned" => ~st[r].produced)
    BY <1>1 DEF RequestKnown, RequestRows, Before, Answered, Cleaning
  <1>3. RequestKnown(new)
    BY <1>1, <1>2 DEF RequestKnown, Before, Answered, Cleaning, Wordless
  <1>4. st[r].pc \in Holding => new.pc \in Holding
    BY DEF Holding, Cleaning
  <1> QED BY <1>3, <1>4, Moves

LEMMA LeaveKeeps ==
    ASSUME ChatSound, NEW r \in Requests, Leave(r)
    PROVE  ChatSound'
  <1>1. st[r] \in RequestRows /\ RequestKnown(st[r]) /\ UNCHANGED lockVars
    BY RequestRow DEF Leave
  <1>2. ASSUME UNCHANGED billVars
        PROVE  Quiet
    BY <1>1, <1>2, QuietSteps
  <1>3. CASE LeaveStream(r)
    <2> DEFINE new == [st[r] EXCEPT !.pc = "unlock", !.conn = FALSE, !.call = NoCall]
    <2>1. NoCall \in Calls
      BY DEF NoCall, Calls
    <2>2. /\ new \in RequestRows /\ new.pc = "unlock" /\ new.out = st[r].out /\ new.produced = st[r].produced
          /\ new.taken = st[r].taken /\ ~new.conn
      BY <1>1, <2>1 DEF RequestRows, Cleaning
    <2>3. Set(r, new)
      BY <1>3 DEF LeaveStream
    <2> HIDE DEF new
    <2>4. drains' \subseteq DrainRows /\ unpaid' = {}
      <3>1. CASE Charged(r, 1) /\ UNCHANGED drains
        BY <3>1, ChargedOnce DEF ChatSound, ChatTypes
      <3>2. CASE LeaveToDrain(r, ChargedSoFar(r)) /\ UNCHANGED unpaid
        <4>1. ChargedSoFar(r) \in {0, 1}
          BY DEF ChargedSoFar
        <4> QED BY <3>2, <4>1, LeftRow DEF ChatSound
      <3> QED BY <1>3, <3>1, <3>2 DEF LeaveStream
    <2>5. Quiet
      BY <1>1, <2>4 DEF Quiet
    <2> QED BY <2>2, <2>3, <2>5, LeavesFor
  <1>4. CASE /\ At(r, "start") /\ UNCHANGED billVars
             /\ \E then \in {Done(st[r]), [st[r] EXCEPT !.pc = "unbuilt"]} : Set(r, [then EXCEPT !.conn = FALSE])
    <2>1. PICK then \in {Done(st[r]), [st[r] EXCEPT !.pc = "unbuilt"]} : Set(r, [then EXCEPT !.conn = FALSE])
      BY <1>4
    <2>2. then \in RequestRows /\ then.pc \in {"over", "unbuilt"} /\ then.out = st[r].out
          /\ then.produced = st[r].produced /\ then.taken = st[r].taken
      <3>1. CASE then = Done(st[r])
        BY <1>1, <3>1, DoneRow
      <3>2. CASE then = [st[r] EXCEPT !.pc = "unbuilt"]
        BY <1>1, <3>2 DEF RequestRows, Cleaning
      <3> QED BY <2>1, <3>1, <3>2
    <2> DEFINE new == [then EXCEPT !.conn = FALSE]
    <2>3. /\ new \in RequestRows /\ new.pc \in {"over", "unbuilt"} /\ new.out = st[r].out
          /\ new.produced = st[r].produced /\ new.taken = st[r].taken /\ ~new.conn
      BY <2>2 DEF RequestRows
    <2> HIDE DEF new
    <2>4. ~st[r].produced /\ st[r].pc \notin Holding
      BY <1>1, <1>4 DEF At, RequestKnown, Wordless, Before, Holding
    <2>5. Set(r, new)
      BY <2>1 DEF new
    <2> QED BY <1>2, <1>4, <2>3, <2>4, <2>5, LeavesFor
  <1>5. ASSUME NEW p \in {"unlock", st[r].pc}, p = "unlock" \/ p \in Cleaning,
               Set(r, [st[r] EXCEPT !.pc = p, !.conn = FALSE]), UNCHANGED billVars
        PROVE  ChatSound'
    <2> DEFINE new == [st[r] EXCEPT !.pc = p, !.conn = FALSE]
    <2>1. /\ new \in RequestRows /\ new.pc = p /\ new.out = st[r].out
          /\ new.produced = st[r].produced /\ new.taken = st[r].taken /\ ~new.conn
      BY <1>1, <1>5 DEF RequestRows, Cleaning
    <2>2. Set(r, new)
      BY <1>5
    <2> HIDE DEF new
    <2> QED BY <1>2, <1>5, <2>1, <2>2, LeavesFor
  <1>6. CASE Set(r, [st[r] EXCEPT !.pc = "unlock", !.conn = FALSE]) /\ UNCHANGED billVars
    BY <1>5, <1>6
  <1>7. CASE st[r].pc \in Cleaning /\ Set(r, [st[r] EXCEPT !.conn = FALSE]) /\ UNCHANGED billVars
    <2>1. [st[r] EXCEPT !.conn = FALSE] = [st[r] EXCEPT !.pc = st[r].pc, !.conn = FALSE]
      BY <1>1 DEF RequestRows
    <2> QED BY <1>5, <1>7, <2>1
  <1> QED BY <1>3, <1>4, <1>6, <1>7 DEF Leave

\* What only time changes, and the writing of an entry.
LEMMA TimeKeeps ==
    ASSUME ChatSound,
           \/ \E r \in Requests : SlotLapses(r) \/ RenewalFails(r)
           \/ LockLapses \/ HotLapses \/ \E e \in writing : CacheWritten(e)
    PROVE  ChatSound'
  <1>1. UNCHANGED <<st, drains, unpaid>> /\ rebuilding' \subseteq rebuilding
    BY DEF SlotLapses, RenewalFails, LockLapses, HotLapses, CacheWritten, billVars, lockVars
  <1>2. lock' \in Requests \cup {None} /\ \A q \in rebuilding' : lock' = lock
    BY ChatAssumption DEF SlotLapses, RenewalFails, LockLapses, HotLapses, CacheWritten, lockVars, ChatSound, ChatTypes
  <1> QED BY <1>1, <1>2 DEF ChatSound, ChatTypes

\* Every step, with those of time and of the drains, keeps the invariant.
LEMMA ChatStep == ChatSound /\ [Next]_vars => ChatSound'
  <1> SUFFICES ASSUME ChatSound, [Next]_vars
               PROVE  ChatSound'
    OBVIOUS
  <1>1. CASE UNCHANGED vars
    BY <1>1 DEF vars, lockVars, billVars, ChatSound, ChatTypes
  <1>2. ASSUME NEW r \in Requests, Admit(r) \/ Stage(r)
        PROVE  ChatSound'
    BY <1>2, ConcurrentKeeps, DailyKeeps, ReserveKeeps, PrepareKeeps, GatesKeep, CacheKeeps, AcquireKeeps,
       RoutesKeep, ToolsKeep, CallsKeep, EndKeeps, ReactToolsKeep DEF Admit, Stage
  <1>3. ASSUME NEW r \in Requests, Finish(r)
        PROVE  ChatSound'
    BY <1>3, RefundedKeeps, SaveKeeps, ReleaseKeeps, UnlockKeeps DEF Finish
  <1>4. ASSUME NEW r \in Requests,
               Text(r) \/ Usage(r) \/ Fail(r) \/ Block(r) \/ Unexpected(r) \/ Cut(r) \/ Leave(r)
        PROVE  ChatSound'
    BY <1>4, CallsKeep, FailKeeps, BlockKeeps, ToolsKeep, CutKeeps, LeaveKeeps
  <1>5. CASE Background \/ HotLapses \/ \E r \in Requests : SlotLapses(r) \/ RenewalFails(r)
    BY <1>5, TimeKeeps, DrainKeeps DEF Background
  <1> QED BY <1>1, <1>2, <1>3, <1>4, <1>5 DEF Next

\* The invariant holds always.
LEMMA ChatAlways == Spec => []ChatSound
  BY ChatInitial, ChatStep, PTL DEF Spec

\* Whatever fails or leaves on the way, a request is answered at most once, and one that was admitted and
\* whose client stays is answered once it is over: by a model, the cache, a notice or a block.
THEOREM AlwaysOneAnswer == Spec => []OneAnswer
  <1>1. ASSUME ChatSound, NEW r \in Requests
        PROVE  st[r].out <= 1 /\ (Admitted(r) /\ st[r].conn /\ At(r, "over") => st[r].out = 1)
    <2>1. RequestKnown(st[r]) /\ st[r] \in RequestRows
      BY <1>1, RequestRow
    <2> QED BY <2>1 DEF RequestKnown, RequestRows, Before, Answered, Cleaning, Admitted, At
  <1>2. ChatSound => OneAnswer
    BY <1>1 DEF OneAnswer
  <1> QED BY <1>2, ChatAlways, PTL

\* Text that a model gave is paid for when its stream ends, also by a drain, and a question is given back
\* only when there was none.
THEOREM AlwaysChargedRight == Spec => []ChargesMatchText
  <1>1. ASSUME ChatSound, NEW r \in Requests, st[r].taken = "returned"
        PROVE  ~st[r].produced
    BY <1>1, RequestRow DEF RequestKnown
  <1>2. ChatSound => ChargesMatchText
    BY <1>1 DEF ChargesMatchText, TextIsPaid, RefundOnlyUnproduced, ChatSound
  <1> QED BY <1>2, ChatAlways, PTL

\* Who renews the rebuild lock of a question has it and is still at work: no release and no lapse takes it
\* away, also when the stream is cut, its client leaves or its slot is given back.
THEOREM AlwaysHoldsRenewed == Spec => []RenewedLockHolds
  <1>1. ChatSound => RenewedLockHolds
    BY DEF ChatSound, RenewedLockHolds, Holding, At
  <1> QED BY <1>1, ChatAlways, PTL

-----------------------------------------------------------------------------
(* What is remembered of a conversation (ChatMemory).                      *)

All == Turns \cup Elsewhere
RowSet == [of : SUBSET All, role : {"user", "assistant", "system"}, uid : (All \X {0}) \cup {Nil}]
SaveRows == [t : All, p : Processes \cup {Nil}, tries : Nat, done : BOOLEAN]
CareRows == [pc : {"idle", "read", "write"}, read : SUBSET RowSet, cutoff : SUBSET Turns]
UserRow(t) == Row(User(t), <<t, 0>>)
AnswerRow(t) == Row(Answer(t), <<t, 0>>)

\* Of a turn only its place and its process matter for what follows.
TurnKnown(x) ==
    /\ {"pc", "p"} \subseteq DOMAIN x
    /\ x.p \in Processes \cup {Nil} /\ (x.p \in Processes \/ x.pc \in {"never", "new"})

MemoryTypes ==
    /\ DOMAIN turn = All /\ \A t \in All : TurnKnown(turn[t])
    /\ rows \subseteq RowSet /\ saves \subseteq SaveRows /\ committed \subseteq All
    /\ aged \subseteq Turns /\ archiving \in [Maintainers -> CareRows]
    /\ deletion \in [pc : {"none", "rows", "checked", "redis", "done"}, rows : SUBSET RowSet, orphan : BOOLEAN]

\* The rows of a turn are there together.
Paired(s) == \A t \in All : UserRow(t) \in s <=> AnswerRow(t) \in s

\* No row of a turn that is a month old is still to come, so that a maintenance has read
\* every row it deletes.
RowsKnown ==
    /\ \A w \in Raw : \E t \in All : w \in {UserRow(t), AnswerRow(t)}
    /\ Paired(rows) /\ Paired(deletion.rows)
    /\ \A t \in aged : Over(t) /\ \A v \in saves : v.t # t
    /\ \A m \in Maintainers :
        /\ archiving[m].cutoff \subseteq aged
        /\ archiving[m].pc = "write" =>
             {w \in Raw : w.of \subseteq archiving[m].cutoff \ Elsewhere} \subseteq archiving[m].read
    /\ CommittedIsKept

MemorySound == MemoryTypes /\ RowsKnown

\* The summaries under way: at most one in a process.
JobKnown(j) ==
    /\ DOMAIN j = {"by", "p", "pc", "batch", "old"}
    /\ j.by \in Turns /\ j.p \in Processes /\ j.pc \in {"wait", "sum", "trim"}
JobsKnown ==
    /\ \A j \in jobs : JobKnown(j) /\ (j.pc = "sum" => summing[j.p] # Nil)
    /\ \A j, k \in jobs : j.pc = "sum" /\ k.pc = "sum" /\ j.p = k.p => j = k
    /\ DOMAIN summing = Processes

OneProcess == \A p, q \in Processes : p = q
\* Every batch is short enough to be told in full.
BatchesFit == \A j \in jobs : Len(j.batch) < SummaryWindow

\* The summary a job has read is still the one there is, and a job trims what it has told.
TellingKnown ==
    deletion.pc # "done" =>
        /\ cut \subseteq summary
        /\ \A j \in jobs : /\ j.pc = "sum" => j.old = summary
                           /\ j.pc = "trim" => Messages(j.batch) \subseteq summary
SummarySound == MemorySound /\ JobsKnown /\ TellingKnown

\* What the rows of turns are.
LEMMA RowFacts ==
    ASSUME NEW t \in All
    PROVE  /\ UserRow(t) \in RowSet /\ AnswerRow(t) \in RowSet
           /\ UserRow(t).of = {t} /\ UserRow(t).role = "user" /\ Message(UserRow(t)) = User(t)
           /\ AnswerRow(t).of = {t} /\ AnswerRow(t).role = "assistant" /\ Message(AnswerRow(t)) = Answer(t)
  BY DEF UserRow, AnswerRow, Row, User, Answer, RowSet, Message

LEMMA RowsApart ==
    ASSUME NEW t \in All, NEW u \in All
    PROVE  /\ UserRow(t) # AnswerRow(u) /\ User(t) # Answer(u)
           /\ UserRow(t) = UserRow(u) => t = u
           /\ AnswerRow(t) = AnswerRow(u) => t = u
           /\ User(t) = User(u) => t = u
           /\ Answer(t) = Answer(u) => t = u
  BY DEF UserRow, AnswerRow, Row, User, Answer

\* A turn has one row of each role, and both rows or none.
LEMMA RowsAreOnce == MemorySound => RowsOnce
  <1> SUFFICES ASSUME MemorySound
               PROVE  RowsOnce
    OBVIOUS
  <1>1. \A w \in Raw : \E t \in All : w \in {UserRow(t), AnswerRow(t)}
    BY DEF MemorySound, RowsKnown
  <1>2. ASSUME NEW v \in Raw, NEW w \in Raw, Message(v) = Message(w)
        PROVE  v = w
    <2>1. PICK t \in All : v \in {UserRow(t), AnswerRow(t)}
      BY <1>1
    <2>2. PICK u \in All : w \in {UserRow(u), AnswerRow(u)}
      BY <1>1
    <2> QED BY <1>2, <2>1, <2>2, RowFacts, RowsApart
  <1>3. ASSUME NEW t \in Turns
        PROVE  /\ (\E w \in Raw : Message(w) = User(t)) <=> UserRow(t) \in rows
               /\ (\E w \in Raw : Message(w) = Answer(t)) <=> AnswerRow(t) \in rows
    <2>1. t \in All
      BY DEF All
    <2>2. UserRow(t) \in rows => UserRow(t) \in Raw
      BY <2>1, RowFacts DEF Raw
    <2>3. AnswerRow(t) \in rows => AnswerRow(t) \in Raw
      BY <2>1, RowFacts DEF Raw
    <2>4. ASSUME NEW w \in Raw, Message(w) = User(t)
          PROVE  UserRow(t) \in rows
      <3>1. PICK u \in All : w \in {UserRow(u), AnswerRow(u)}
        BY <1>1
      <3> QED BY <2>1, <2>4, <3>1, RowFacts, RowsApart DEF Raw
    <2>5. ASSUME NEW w \in Raw, Message(w) = Answer(t)
          PROVE  AnswerRow(t) \in rows
      <3>1. PICK u \in All : w \in {UserRow(u), AnswerRow(u)}
        BY <1>1
      <3> QED BY <2>1, <2>5, <3>1, RowFacts, RowsApart DEF Raw
    <2> QED BY <2>1, <2>2, <2>3, <2>4, <2>5, RowFacts
  <1>4. \A t \in Turns : UserRow(t) \in rows <=> AnswerRow(t) \in rows
    BY DEF MemorySound, RowsKnown, Paired, All
  <1> QED BY <1>2, <1>3, <1>4 DEF RowsOnce

\* There are no rows.
LEMMA MemoryInitial == MemoryInit => MemorySound
  <1> SUFFICES ASSUME MemoryInit
               PROVE  MemorySound
    OBVIOUS
  <1>1. DOMAIN turn = All
    BY DEF MemoryInit, All
  <1>2. ASSUME NEW t \in All
        PROVE  TurnKnown(turn[t])
    <2> DEFINE pc == IF t \in scene.turns THEN "new" ELSE "never"
    <2>1. turn[t] = [pc |-> pc, p |-> Nil, last |-> Nil, size |-> 0, read |-> <<>>]
      BY DEF MemoryInit, All
    <2>2. pc \in {"never", "new"}
      OBVIOUS
    <2> HIDE DEF pc
    <2>3. DOMAIN turn[t] = {"pc", "p", "last", "size", "read"} /\ turn[t].pc = pc /\ turn[t].p = Nil
      BY <2>1
    <2> QED BY <2>2, <2>3 DEF TurnKnown
  <1>3. archiving \in [Maintainers -> CareRows]
    BY DEF MemoryInit, Idle, CareRows
  <1>4. /\ deletion = [pc |-> "none", rows |-> {}, orphan |-> FALSE]
        /\ rows = {} /\ Raw = {} /\ saves = {} /\ committed = {} /\ aged = {}
    BY DEF MemoryInit, Raw
  <1>a. deletion \in [pc : {"none", "rows", "checked", "redis", "done"}, rows : SUBSET RowSet, orphan : BOOLEAN]
    BY <1>4
  <1>5. MemoryTypes
    BY <1>1, <1>2, <1>3, <1>4, <1>a DEF MemoryTypes
  <1>6. Paired(rows) /\ Paired(deletion.rows)
    BY <1>4 DEF Paired
  <1>7. \A m \in Maintainers : archiving[m].cutoff = {} /\ archiving[m].pc = "idle"
    BY DEF MemoryInit, Idle
  <1> QED BY <1>4, <1>5, <1>6, <1>7 DEF MemoryInit, MemorySound, RowsKnown, CommittedIsKept

\* A turn goes on: what it saves is its own, and it was not over.
LEMMA PutKeeps ==
    ASSUME MemorySound, NEW t \in All, ~Over(t), NEW new, Put(t, new), TurnKnown(new),
           saves' \subseteq SaveRows, \A v \in saves' \ saves : v.t = t,
           UNCHANGED <<pgVars, careVars, deletion>>
    PROVE  MemorySound'
  <1>1. /\ DOMAIN turn' = All /\ turn'[t] = new
        /\ \A u \in All \ {t} : turn'[u] = turn[u]
    BY DEF Put, MemorySound, MemoryTypes
  <1>2. /\ rows' = rows /\ committed' = committed /\ aged' = aged /\ archiving' = archiving
        /\ deletion' = deletion /\ Raw' = Raw
    BY DEF pgVars, careVars, Raw
  <1>3. MemoryTypes'
    BY <1>1, <1>2 DEF MemorySound, MemoryTypes
  <1>4. ASSUME NEW u \in aged
        PROVE  Over(u)' /\ \A v \in saves' : v.t # u
    <2>1. u \in All /\ Over(u) /\ \A v \in saves : v.t # u
      BY DEF MemorySound, MemoryTypes, RowsKnown, All
    <2>2. u # t
      BY <2>1
    <2> QED BY <1>1, <2>1, <2>2 DEF Over
  <1>5. RowsKnown'
    BY <1>2, <1>4 DEF MemorySound, RowsKnown, Paired, CommittedIsKept
  <1> QED BY <1>3, <1>5 DEF MemorySound

\* What has no part in the rows and their turns.
LEMMA ApartKeeps ==
    ASSUME MemorySound, UNCHANGED <<turn, saves, rows, committed, aged, archiving, deletion>>
    PROVE  MemorySound'
  BY DEF MemorySound, MemoryTypes, RowsKnown, Paired, CommittedIsKept, Raw, Over

\* A turn keeps its process, and one that is under way has one.
LEMMA SamePlace ==
    ASSUME NEW x, TurnKnown(x), NEW pc, NEW q, q = x.p, q \in Processes \/ pc \in {"never", "new"}
    PROVE  /\ TurnKnown([x EXCEPT !.pc = pc])
           /\ \A v : TurnKnown([x EXCEPT !.pc = pc, !.last = v])
           /\ \A v : TurnKnown([x EXCEPT !.pc = pc, !.size = v])
           /\ \A v : TurnKnown([x EXCEPT !.pc = pc, !.read = v])
  BY DEF TurnKnown

\* A turn that begins gets a process.
LEMMA NewPlace ==
    ASSUME NEW x, TurnKnown(x), NEW pc, NEW p \in Processes
    PROVE  /\ TurnKnown([x EXCEPT !.pc = pc, !.p = p])
           /\ \A v : TurnKnown([x EXCEPT !.pc = pc, !.p = p, !.read = v])
  BY DEF TurnKnown

\* Saving a turn adds at most its own save.
LEMMA SavingKeeps ==
    ASSUME MemorySound, NEW t \in Turns, Saving(t)
    PROVE  MemorySound'
  <1>1. t \in All /\ TurnKnown(turn[t])
    BY DEF All, MemorySound, MemoryTypes
  <1>2. ~Over(t) /\ UNCHANGED <<pgVars, careVars, deletion>>
    BY DEF Saving, Open, Backfill, Ask, Look, PushUser, PushAnswer, Measure, Spare, GiveUp, Over, TurnAt
  <1>3. saves \subseteq SaveRows
    BY DEF MemorySound, MemoryTypes
  <1>4. ASSUME turn[t].pc \notin {"never", "new"}
        PROVE  turn[t].p \in Processes
    BY <1>1, <1>4 DEF TurnKnown
  <1>5. CASE Open(t)
    <2>1. PICK p \in Processes :
            \/ Put(t, [turn[t] EXCEPT !.pc = "fill", !.p = p, !.read = FetchFromPg])
            \/ Put(t, [turn[t] EXCEPT !.pc = IF t \in AskedFirst THEN "ask" ELSE "look", !.p = p])
      BY <1>5 DEF Open
    <2>2. saves' = saves
      BY <1>5 DEF Open
    <2> QED BY <1>1, <1>2, <1>3, <2>1, <2>2, NewPlace, PutKeeps
  <1>6. ASSUME NEW new, Put(t, new), saves' = saves, TurnKnown(new)
        PROVE  MemorySound'
    BY <1>1, <1>2, <1>3, <1>6, PutKeeps
  <1>7. CASE Backfill(t) \/ Ask(t) \/ Look(t) \/ PushUser(t) \/ PushAnswer(t) \/ Measure(t) \/ GiveUp(t)
    <2>1. saves' = saves /\ turn[t].p \in Processes
      BY <1>4, <1>7 DEF Backfill, Ask, Look, PushUser, PushAnswer, Measure, GiveUp, TurnAt
    <2>2. /\ \A pc : TurnKnown([turn[t] EXCEPT !.pc = pc])
          /\ \A pc, v : TurnKnown([turn[t] EXCEPT !.pc = pc, !.last = v])
          /\ \A pc, v : TurnKnown([turn[t] EXCEPT !.pc = pc, !.size = v])
          /\ \A pc, v : TurnKnown([turn[t] EXCEPT !.pc = pc, !.read = v])
      BY <1>1, <2>1, SamePlace
    <2> QED BY <1>6, <1>7, <2>1, <2>2 DEF Backfill, Ask, Look, PushUser, PushAnswer, Measure, GiveUp
  <1>8. CASE Spare(t)
    <2> DEFINE pc == IF TurnAt(t, "spare") THEN "over" ELSE "look"
               new == [turn[t] EXCEPT !.pc = pc, !.size = 0]
               v == [t |-> t, p |-> turn[t].p, tries |-> 0, done |-> FALSE]
    <2>1. Put(t, new) /\ saves' \subseteq saves \cup {v} /\ turn[t].p \in Processes
      BY <1>4, <1>8 DEF Spare
    <2>2. v \in SaveRows /\ v.t = t
      BY <1>1, <2>1 DEF SaveRows
    <2>3. TurnKnown(new)
      BY <1>1, <2>1, SamePlace
    <2> HIDE DEF new, v
    <2>4. saves' \subseteq SaveRows /\ \A w \in saves' \ saves : w.t = t
      BY <1>3, <2>1, <2>2
    <2> QED BY <1>1, <1>2, <2>1, <2>3, <2>4, PutKeeps
  <1> QED BY <1>5, <1>7, <1>8 DEF Saving

\* So does a turn of which only the rows matter.
LEMMA SaveOnlyKeeps ==
    ASSUME MemorySound, NEW t \in Turns \cup Elsewhere, SaveOnly(t)
    PROVE  MemorySound'
  <1>1. t \in All /\ TurnKnown(turn[t]) /\ saves \subseteq SaveRows
    BY DEF All, MemorySound, MemoryTypes
  <1>2. ~Over(t) /\ UNCHANGED <<pgVars, careVars, deletion>>
    BY DEF SaveOnly, Over, TurnAt
  <1>3. PICK p \in Processes :
         /\ Put(t, [turn[t] EXCEPT !.pc = "over", !.p = p])
         /\ saves' = saves \cup {[t |-> t, p |-> p, tries |-> 0, done |-> FALSE]}
    BY DEF SaveOnly
  <1> DEFINE v == [t |-> t, p |-> p, tries |-> 0, done |-> FALSE]
  <1>4. v \in SaveRows /\ v.t = t
    BY <1>1 DEF SaveRows
  <1>a. saves' = saves \cup {v}
    BY <1>3
  <1> HIDE DEF v
  <1>5. saves' \subseteq SaveRows /\ \A w \in saves' \ saves : w.t = t
    BY <1>1, <1>4, <1>a
  <1>6. TurnKnown([turn[t] EXCEPT !.pc = "over", !.p = p])
    BY <1>1, NewPlace
  <1> QED BY <1>1, <1>2, <1>3, <1>5, <1>6, PutKeeps

\* A commit adds the two rows of a turn whose save is under way.
LEMMA CommitKeeps ==
    ASSUME MemorySound, NEW v \in saves, CommitRows(v)
    PROVE  MemorySound'
  <1> DEFINE t == v.t
  <1>1. v \in SaveRows /\ t \in All /\ v.t = t
    BY DEF MemorySound, MemoryTypes, SaveRows
  <1>2. /\ rows' = rows \cup {UserRow(t), AnswerRow(t)} /\ committed' = committed \cup {t}
        /\ turn' = turn /\ aged' = aged /\ archiving' = archiving /\ deletion' = deletion
    BY <1>1 DEF CommitRows, careVars, Written, Uid, UserRow, AnswerRow
  <1>3. /\ saves' \subseteq SaveRows
        /\ \A w \in saves' : \E u \in saves : w.t = u.t
    <2>1. [v EXCEPT !.done = TRUE] \in SaveRows /\ [v EXCEPT !.done = TRUE].t = t
      BY <1>1 DEF SaveRows
    <2>2. [v EXCEPT !.tries = @ + 1] \in SaveRows /\ [v EXCEPT !.tries = @ + 1].t = t
      BY <1>1 DEF SaveRows
    <2>3. saves \subseteq SaveRows
      BY DEF MemorySound, MemoryTypes
    <2>4. saves' \subseteq saves \cup {[v EXCEPT !.done = TRUE], [v EXCEPT !.tries = @ + 1]}
      BY DEF CommitRows, Again
    <2> HIDE DEF t
    <2> QED BY <1>1, <2>1, <2>2, <2>3, <2>4
  <1> HIDE DEF t
  <1>4. Raw' = Raw \cup {UserRow(t), AnswerRow(t)}
    BY <1>1, <1>2, RowFacts DEF Raw
  <1>5. MemoryTypes'
    BY <1>1, <1>2, <1>3, RowFacts DEF MemorySound, MemoryTypes
  <1>6. t \notin aged
    BY <1>1 DEF MemorySound, RowsKnown
  <1>7. Paired(rows)' /\ Paired(deletion.rows)'
    <2>1. ASSUME NEW u \in All
          PROVE  UserRow(u) \in rows' <=> AnswerRow(u) \in rows'
      <3>1. UserRow(u) \in rows <=> AnswerRow(u) \in rows
        BY DEF MemorySound, RowsKnown, Paired
      <3>2. CASE u = t
        BY <1>2, <3>2
      <3>3. CASE u # t
        BY <1>1, <1>2, <3>1, <3>3, RowsApart
      <3> QED BY <3>2, <3>3
    <2> QED BY <1>2, <2>1 DEF MemorySound, RowsKnown, Paired
  <1>8. \A u \in aged' : Over(u)' /\ \A w \in saves' : w.t # u
    BY <1>2, <1>3 DEF MemorySound, RowsKnown, Over
  <1>9. ASSUME NEW m \in Maintainers, archiving[m].pc = "write", NEW w \in Raw',
               w.of \subseteq archiving[m].cutoff \ Elsewhere
        PROVE  w \in archiving[m].read
    <2>1. archiving[m].cutoff \subseteq aged
      BY DEF MemorySound, RowsKnown
    <2>2. w \notin {UserRow(t), AnswerRow(t)}
      BY <1>1, <1>6, <1>9, <2>1, RowFacts
    <2> QED BY <1>4, <1>9, <2>2 DEF MemorySound, RowsKnown
  <1>10. CommittedIsKept'
    BY <1>1, <1>2, RowFacts DEF MemorySound, RowsKnown, CommittedIsKept
  <1>11. RowsKnown'
    BY <1>1, <1>2, <1>4, <1>7, <1>8, <1>9, <1>10 DEF MemorySound, RowsKnown
  <1> QED BY <1>5, <1>11 DEF MemorySound

\* A save that fails is tried again for the same turn, or given up.
LEMMA MissKeeps ==
    ASSUME MemorySound, NEW v \in saves, MissRows(v) \/ UpdateProfile(v)
    PROVE  MemorySound'
  <1>1. v \in SaveRows
    BY DEF MemorySound, MemoryTypes
  <1>2. UNCHANGED <<turn, rows, committed, aged, archiving, deletion>>
    BY DEF MissRows, UpdateProfile, pgVars, careVars
  <1>3. /\ saves' \subseteq SaveRows
        /\ \A w \in saves' : \E u \in saves : w.t = u.t
    <2>1. [v EXCEPT !.tries = @ + 1] \in SaveRows /\ [v EXCEPT !.tries = @ + 1].t = v.t
      BY <1>1 DEF SaveRows
    <2>2. saves \subseteq SaveRows
      BY DEF MemorySound, MemoryTypes
    <2>3. saves' \subseteq saves \cup {[v EXCEPT !.tries = @ + 1]}
      BY DEF MissRows, UpdateProfile, Again
    <2> QED BY <2>1, <2>2, <2>3
  <1> QED BY <1>2, <1>3 DEF MemorySound, MemoryTypes, RowsKnown, Paired, CommittedIsKept, Raw, Over

\* What leaves the turns and their rows alone.
LEMMA SummariesKeep ==
    ASSUME MemorySound,
           \/ \E j \in jobs : TakeSummary(j) \/ WriteSummary(j) \/ Trim(j)
           \/ ListLapses \/ KeeperLapses
    PROVE  MemorySound'
  <1>1. UNCHANGED <<turn, saves, rows, committed, aged, archiving, deletion>>
    BY DEF TakeSummary, WriteSummary, Trim, ListLapses, KeeperLapses, pgVars, careVars
  <1> QED BY <1>1, ApartKeeps

\* A month passes only for a turn without a save.
LEMMA GrowsOldKeeps ==
    ASSUME MemorySound, NEW t \in Turns, GrowsOld(t)
    PROVE  MemorySound'
  <1>1. /\ Over(t) /\ \A v \in saves : v.t # t
        /\ aged' = aged \cup {t}
        /\ UNCHANGED <<turn, saves, rows, committed, archiving, deletion>>
    BY DEF GrowsOld, pgVars
  <1>2. MemoryTypes'
    BY <1>1 DEF MemorySound, MemoryTypes
  <1>3. RowsKnown'
    BY <1>1 DEF MemorySound, RowsKnown, Paired, CommittedIsKept, Raw, Over
  <1> QED BY <1>2, <1>3 DEF MemorySound

\* A maintenance keeps the others as they are.
LEMMA StartMaintenanceKeeps ==
    ASSUME MemorySound, NEW m \in Maintainers, StartMaintenance(m)
    PROVE  MemorySound'
  <1> DEFINE new == [pc |-> "read", read |-> {}, cutoff |-> aged]
  <1>1. /\ archiving' = [archiving EXCEPT ![m] = new]
        /\ UNCHANGED <<turn, saves, rows, committed, aged, deletion>>
    BY DEF StartMaintenance, pgVars
  <1>2. aged \subseteq Turns /\ archiving \in [Maintainers -> CareRows]
    BY DEF MemorySound, MemoryTypes
  <1>3. new \in CareRows /\ new.cutoff = aged /\ new.pc # "write"
    BY <1>2 DEF CareRows
  <1> HIDE DEF new
  <1>4. archiving' \in [Maintainers -> CareRows] /\ \A n \in Maintainers : archiving'[n] \in {new, archiving[n]}
    BY <1>1, <1>2, <1>3
  <1>5. MemoryTypes'
    BY <1>1, <1>4 DEF MemorySound, MemoryTypes
  <1>6. RowsKnown'
    BY <1>1, <1>3, <1>4 DEF MemorySound, RowsKnown, Paired, CommittedIsKept, Raw, Over
  <1> QED BY <1>5, <1>6 DEF MemorySound

\* What is read is all there is before the cutoff.
LEMMA ReadOldKeeps ==
    ASSUME MemorySound, NEW m \in Maintainers, ReadOld(m)
    PROVE  MemorySound'
  <1> DEFINE old == {w \in Raw : w.of \subseteq archiving[m].cutoff \ Elsewhere}
             a == archiving[m]
  <1>1. UNCHANGED <<turn, saves, rows, committed, aged, deletion>>
    BY DEF ReadOld, pgVars
  <1>2. rows \subseteq RowSet /\ archiving \in [Maintainers -> CareRows] /\ a \in CareRows
    BY DEF MemorySound, MemoryTypes
  <1>3. \/ archiving' = [archiving EXCEPT ![m] = Idle]
        \/ archiving' = [archiving EXCEPT ![m].pc = "write", ![m].read = old]
    BY DEF ReadOld
  <1>4. old \subseteq RowSet
    BY <1>2 DEF Raw
  <1>5. \/ archiving'[m] = Idle
        \/ archiving'[m] \in CareRows /\ archiving'[m].read = old /\ archiving'[m].cutoff = a.cutoff
    <2> HIDE DEF old
    <2> QED BY <1>2, <1>3, <1>4 DEF CareRows
  <1>6. /\ archiving' \in [Maintainers -> CareRows]
        /\ \A n \in Maintainers \ {m} : archiving'[n] = archiving[n]
    <2>1. Idle \in CareRows
      BY DEF Idle, CareRows
    <2>2. DOMAIN archiving' = Maintainers /\ \A n \in Maintainers \ {m} : archiving'[n] = archiving[n]
      BY <1>2, <1>3
    <2>3. archiving' = [n \in Maintainers |-> archiving'[n]]
      BY <1>2, <1>3
    <2> QED BY <1>2, <1>5, <2>1, <2>2, <2>3
  <1>7. MemoryTypes'
    BY <1>1, <1>6 DEF MemorySound, MemoryTypes
  <1>8. ASSUME NEW n \in Maintainers
        PROVE  /\ archiving'[n].cutoff \subseteq aged
               /\ archiving'[n].pc = "write" =>
                    {w \in Raw : w.of \subseteq archiving'[n].cutoff \ Elsewhere} \subseteq archiving'[n].read
    <2>1. CASE n # m
      BY <1>6, <2>1 DEF MemorySound, RowsKnown
    <2>2. CASE n = m /\ archiving'[m] = Idle
      BY <2>2 DEF Idle
    <2>3. CASE n = m /\ archiving'[m].read = old /\ archiving'[m].cutoff = a.cutoff
      BY <2>3 DEF MemorySound, RowsKnown
    <2> QED BY <1>5, <2>1, <2>2, <2>3
  <1>9. RowsKnown'
    BY <1>1, <1>8 DEF MemorySound, RowsKnown, Paired, CommittedIsKept, Raw, Over
  <1> QED BY <1>7, <1>9 DEF MemorySound

\* The archive takes the place of the rows it has read.
LEMMA ArchiveKeeps ==
    ASSUME MemorySound, NEW m \in Maintainers, Archive(m)
    PROVE  MemorySound'
  <1> DEFINE a == archiving[m]
             old == {w \in Raw : w.of \subseteq a.cutoff \ Elsewhere}
             new == Summarized(a.read)
  <1>1. /\ a.pc = "write"
        /\ rows' = (rows \ old) \cup {new} /\ archiving' = [archiving EXCEPT ![m] = Idle]
        /\ UNCHANGED <<turn, saves, committed, aged, deletion>>
    BY DEF Archive
  <1>2. rows \subseteq RowSet /\ archiving \in [Maintainers -> CareRows] /\ a \in CareRows
    BY DEF MemorySound, MemoryTypes
  <1>3. /\ new \in RowSet /\ new.role = "system"
        /\ \A w \in a.read : w.of \subseteq new.of
    <2>1. a.read \subseteq RowSet
      BY <1>2 DEF CareRows
    <2>2. UNION {w.of : w \in a.read} \subseteq All
      BY <2>1 DEF RowSet
    <2> QED BY <2>2 DEF Summarized, RowSet
  <1>4. Raw' = Raw \ old
    BY <1>1, <1>3 DEF Raw
  <1>5. old \subseteq a.read /\ old \subseteq Raw
    BY <1>1 DEF MemorySound, RowsKnown
  <1>6. \A t \in All : UserRow(t) # new /\ AnswerRow(t) # new
    BY <1>3, RowFacts
  <1>7. ASSUME NEW t \in All
        PROVE  UserRow(t) \in old <=> AnswerRow(t) \in old
    <2>1. UserRow(t) \in rows <=> AnswerRow(t) \in rows
      BY DEF MemorySound, RowsKnown, Paired
    <2> QED BY <2>1, RowFacts DEF Raw
  <1> HIDE DEF old, new, a
  <1>8. Paired(rows)' /\ Paired(deletion.rows)'
    <2>1. \A t \in All : UserRow(t) \in rows <=> AnswerRow(t) \in rows
      BY DEF MemorySound, RowsKnown, Paired
    <2>2. ASSUME NEW t \in All
          PROVE  UserRow(t) \in rows' <=> AnswerRow(t) \in rows'
      <3>1. UserRow(t) # new /\ AnswerRow(t) # new
        BY <1>6
      <3>2. UserRow(t) \in old <=> AnswerRow(t) \in old
        BY <1>7
      <3>3. UserRow(t) \in rows <=> AnswerRow(t) \in rows
        BY <2>1
      <3> QED BY <1>1, <3>1, <3>2, <3>3
    <2> QED BY <1>1, <2>2 DEF MemorySound, RowsKnown, Paired
  <1>9. /\ archiving' \in [Maintainers -> CareRows] /\ archiving'[m] = Idle
        /\ \A n \in Maintainers \ {m} : archiving'[n] = archiving[n]
    <2>1. Idle \in CareRows
      BY DEF Idle, CareRows
    <2> QED BY <1>1, <1>2, <2>1
  <1>10. MemoryTypes'
    BY <1>1, <1>2, <1>3, <1>9 DEF MemorySound, MemoryTypes
  <1>11. ASSUME NEW n \in Maintainers
         PROVE  /\ archiving'[n].cutoff \subseteq aged
                /\ archiving'[n].pc = "write" =>
                     {w \in Raw' : w.of \subseteq archiving'[n].cutoff \ Elsewhere} \subseteq archiving'[n].read
    <2>1. CASE n # m
      BY <1>4, <1>9, <2>1 DEF MemorySound, RowsKnown
    <2>2. CASE n = m
      BY <1>9, <2>2 DEF Idle
    <2> QED BY <2>1, <2>2
  <1>12. CommittedIsKept'
    <2> SUFFICES ASSUME NEW t \in committed
                 PROVE  \E w \in rows' : t \in w.of
      BY <1>1 DEF CommittedIsKept
    <2>1. PICK w \in rows : t \in w.of
      BY DEF MemorySound, RowsKnown, CommittedIsKept
    <2> QED BY <1>1, <1>3, <1>5, <2>1
  <1>13. RowsKnown'
    BY <1>1, <1>4, <1>8, <1>11, <1>12 DEF MemorySound, RowsKnown, Over
  <1> QED BY <1>10, <1>13 DEF MemorySound

\* The deletion takes both rows of a turn, or none.
LEMMA DeletingKeeps ==
    ASSUME MemorySound, Deleting
    PROVE  MemorySound'
  <1> DEFINE Phases == {"none", "rows", "checked", "redis", "done"}
             Deletions == [pc : Phases, rows : SUBSET RowSet, orphan : BOOLEAN]
  <1>1. deletion \in Deletions /\ rows \subseteq RowSet
    BY DEF MemorySound, MemoryTypes
  <1>2. UNCHANGED <<turn, saves, aged, archiving>>
    BY DEF Deleting, DeleteRows, CheckOrphan, CommitDeletion, ClearRedis, careVars
  <1>3. ASSUME UNCHANGED <<rows, committed>>, deletion' \in Deletions, Paired(deletion'.rows)
        PROVE  MemorySound'
    <2>1. MemoryTypes'
      BY <1>2, <1>3 DEF MemorySound, MemoryTypes
    <2>2. RowsKnown'
      BY <1>2, <1>3 DEF MemorySound, RowsKnown, Paired, CommittedIsKept, Raw, Over
    <2> QED BY <2>1, <2>2 DEF MemorySound
  <1>4. CASE DeleteRows
    <2> DEFINE mine == {w \in rows : w.of \cap Elsewhere = {}}
    <2>1. UNCHANGED <<rows, committed>> /\ deletion' = [deletion EXCEPT !.pc = "rows", !.rows = mine]
      BY <1>4 DEF DeleteRows, pgVars
    <2>2. mine \subseteq RowSet
      BY <1>1
    <2>3. Paired(mine)
      BY RowFacts DEF MemorySound, RowsKnown, Paired
    <2> HIDE DEF mine
    <2>4. deletion' \in Deletions /\ deletion'.rows = mine
      BY <1>1, <2>1, <2>2
    <2> QED BY <1>3, <2>1, <2>3, <2>4
  <1>5. CASE CheckOrphan \/ ClearRedis
    <2>1. UNCHANGED <<rows, committed>> /\ deletion' \in Deletions /\ deletion'.rows = deletion.rows
      BY <1>1, <1>5 DEF CheckOrphan, ClearRedis, pgVars
    <2> QED BY <1>3, <2>1 DEF MemorySound, RowsKnown
  <1>6. CASE CommitDeletion
    <2>1. /\ deletion' = [pc |-> "redis", rows |-> {}, orphan |-> FALSE]
          /\ rows' = rows \ deletion.rows
          /\ committed' = committed \ UNION {w.of : w \in deletion.rows}
      BY <1>6 DEF CommitDeletion
    <2>2. deletion' \in Deletions /\ deletion'.rows = {}
      BY <2>1
    <2>3. MemoryTypes'
      BY <1>2, <2>1, <2>2 DEF MemorySound, MemoryTypes
    <2>4. Paired(rows)' /\ Paired(deletion.rows)'
      BY <2>1, <2>2 DEF MemorySound, RowsKnown, Paired
    <2>5. Raw' \subseteq Raw
      BY <2>1 DEF Raw
    <2>6. CommittedIsKept'
      BY <2>1 DEF MemorySound, RowsKnown, CommittedIsKept
    <2>7. RowsKnown'
      BY <1>2, <2>4, <2>5, <2>6 DEF MemorySound, RowsKnown, Over
    <2> QED BY <2>3, <2>7 DEF MemorySound
  <1> QED BY <1>4, <1>5, <1>6 DEF Deleting

\* A crash ends turns and saves.
LEMMA CrashKeeps ==
    ASSUME MemorySound, NEW p \in Processes, Crash(p)
    PROVE  MemorySound'
  <1>1. /\ turn' = [t \in DOMAIN turn |->
                     IF turn[t].p = p THEN [turn[t] EXCEPT !.pc = "over"] ELSE turn[t]]
        /\ saves' \subseteq saves /\ UNCHANGED <<rows, committed, aged, archiving, deletion>>
    BY DEF Crash, pgVars, careVars
  <1>2. DOMAIN turn' = All
    BY <1>1 DEF MemorySound, MemoryTypes
  <1>3. ASSUME NEW t \in All
        PROVE  TurnKnown(turn'[t]) /\ (Over(t) => Over(t)')
    <2>1. TurnKnown(turn[t]) /\ turn'[t] = IF turn[t].p = p THEN [turn[t] EXCEPT !.pc = "over"] ELSE turn[t]
      BY <1>1 DEF MemorySound, MemoryTypes
    <2>2. CASE turn[t].p = p
      BY <2>1, <2>2, SamePlace DEF Over, TurnKnown
    <2>3. CASE turn[t].p # p
      BY <2>1, <2>3 DEF Over
    <2> QED BY <2>2, <2>3
  <1>4. MemoryTypes'
    BY <1>1, <1>2, <1>3 DEF MemorySound, MemoryTypes
  <1>5. \A t \in aged' : Over(t)' /\ \A v \in saves' : v.t # t
    BY <1>1, <1>3 DEF MemorySound, MemoryTypes, RowsKnown, All
  <1>6. RowsKnown'
    BY <1>1, <1>5 DEF MemorySound, RowsKnown, Paired, CommittedIsKept, Raw
  <1> QED BY <1>4, <1>6 DEF MemorySound

\* Every step keeps the rows known.
LEMMA MemoryStep ==
    ASSUME MemorySound, [MemoryNext]_memoryVars
    PROVE  MemorySound'
  <1>1. CASE UNCHANGED memoryVars
    BY <1>1, ApartKeeps DEF memoryVars, pgVars, careVars
  <1>2. CASE Caring
    BY <1>2, GrowsOldKeeps, StartMaintenanceKeeps, ReadOldKeeps, ArchiveKeeps, SummariesKeep DEF Caring
  <1>3. CASE MemoryNext /\ ~Caring
    BY <1>3, SavingKeeps, SaveOnlyKeeps, SummariesKeep, CommitKeeps, MissKeeps, DeletingKeeps, CrashKeeps
       DEF MemoryNext
  <1> QED BY <1>1, <1>2, <1>3

\* The rows are known always.
LEMMA MemoryAlways == MemorySpec => []MemorySound
  BY MemoryInitial, MemoryStep, PTL DEF MemorySpec

\* With any number of processes and maintainers, lost replies, retries and crashes: a message has one row,
\* both rows of a turn are there or none, and what was committed is in a row or an archived one until the
\* user deletes it.
THEOREM AlwaysRowsKept == MemorySpec => [](RowsOnce /\ CommittedIsKept)
  <1>1. MemorySound => RowsOnce /\ CommittedIsKept
    BY RowsAreOnce DEF MemorySound, RowsKnown
  <1> QED BY <1>1, MemoryAlways, PTL

-----------------------------------------------------------------------------
\* No summary is under way.
LEMMA JobsInitial == MemoryInit => JobsKnown /\ TellingKnown
  BY DEF MemoryInit, JobsKnown, TellingKnown

\* A turn leaves at most a job that waits.
LEMMA SavingJobs ==
    ASSUME MemorySound, NEW t \in Turns, Saving(t)
    PROVE  /\ UNCHANGED <<summing, summary, cut, deletion>>
           /\ \/ jobs' = jobs
              \/ \E b : LET j == [by |-> t, p |-> turn[t].p, pc |-> "wait", batch |-> b, old |-> {}] IN
                         jobs' = jobs \cup {j} /\ JobKnown(j)
  <1>1. UNCHANGED <<summing, summary, cut, deletion>>
    BY DEF Saving, Open, Backfill, Ask, Look, PushUser, PushAnswer, Measure, Spare, GiveUp, redisVars, jobVars
  <1>2. CASE ~Spare(t)
    BY <1>1, <1>2 DEF Saving, Open, Backfill, Ask, Look, PushUser, PushAnswer, Measure, GiveUp, jobVars
  <1>3. CASE Spare(t)
    <2>1. turn[t].p \in Processes
      <3>1. TurnKnown(turn[t]) /\ turn[t].pc \in {"spare", "spared"}
        BY <1>3 DEF Spare, MemorySound, MemoryTypes, All
      <3> QED BY <3>1 DEF TurnKnown
    <2>2. \A b : JobKnown([by |-> t, p |-> turn[t].p, pc |-> "wait", batch |-> b, old |-> {}])
      BY <2>1 DEF JobKnown
    <2>3. jobs' = jobs \/ jobs' = jobs \cup {[by |-> t, p |-> turn[t].p, pc |-> "wait", batch |-> Overflow(t), old |-> {}]}
      BY <1>3 DEF Spare
    <2> QED BY <1>1, <2>2, <2>3
  <1> QED BY <1>2, <1>3

\* The other steps, those of the jobs and a crash excepted, leave jobs and locks alone.
LEMMA OthersJobs ==
    ASSUME MemorySound,
           \/ \E t \in Turns \cup Elsewhere : SaveOnly(t)
           \/ \E v \in saves : CommitRows(v) \/ MissRows(v) \/ UpdateProfile(v)
           \/ Caring \/ Deleting \/ ListLapses \/ UNCHANGED memoryVars
    PROVE  /\ UNCHANGED <<jobs, summing>>
           /\ \/ UNCHANGED <<summary, cut>> /\ (deletion'.pc # "done" => deletion.pc # "done")
              \/ deletion'.pc = "done"
  <1>1. CASE \/ \E t \in Turns \cup Elsewhere : SaveOnly(t)
             \/ \E v \in saves : CommitRows(v) \/ MissRows(v) \/ UpdateProfile(v)
             \/ ListLapses \/ UNCHANGED memoryVars
    <2>1. UNCHANGED <<jobs, summing, summary, cut, deletion>>
      BY <1>1 DEF SaveOnly, CommitRows, MissRows, UpdateProfile, ListLapses, memoryVars, jobVars, redisVars
    <2> QED BY <2>1
  <1>2. CASE Caring
    <2>1. UNCHANGED <<jobs, summing, summary, cut, deletion>>
      BY <1>2 DEF Caring, GrowsOld, StartMaintenance, ReadOld, Archive, KeeperLapses, jobVars, redisVars
    <2> QED BY <2>1
  <1>3. CASE DeleteRows \/ CheckOrphan \/ CommitDeletion
    <2>1. UNCHANGED <<jobs, summing, summary, cut>> /\ deletion.pc # "done"
      BY <1>3 DEF DeleteRows, CheckOrphan, CommitDeletion, jobVars, redisVars
    <2> QED BY <2>1
  <1>4. CASE ClearRedis
    <2>1. UNCHANGED <<jobs, summing>> /\ deletion' = [deletion EXCEPT !.pc = "done"]
      BY <1>4 DEF ClearRedis, jobVars
    <2>2. deletion'.pc = "done"
      BY <2>1 DEF MemorySound, MemoryTypes
    <2> QED BY <2>1, <2>2
  <1> QED BY <1>1, <1>2, <1>3, <1>4 DEF Deleting

\* What a step of a job makes of the jobs.
LEMMA TakeJobs ==
    ASSUME JobsKnown, NEW j \in jobs, TakeSummary(j)
    PROVE  LET k == [j EXCEPT !.pc = "sum", !.old = summary] IN
           /\ summing[j.p] = Nil /\ summing' = [summing EXCEPT ![j.p] = j.by]
           /\ jobs' = (jobs \ {j}) \cup {k}
           /\ JobKnown(k) /\ k.pc = "sum" /\ k.p = j.p /\ k.old = summary
           /\ UNCHANGED <<summary, cut, deletion>>
  <1>1. JobKnown(j)
    BY DEF JobsKnown
  <1> QED BY <1>1 DEF TakeSummary, JobKnown, redisVars

\* A summary is written, or it fails and its job ends.
LEMMA WriteJobs ==
    ASSUME JobsKnown, NEW j \in jobs, WriteSummary(j)
    PROVE  LET k == [j EXCEPT !.pc = "trim", !.old = {}] IN
           /\ j.pc = "sum" /\ summing' = [summing EXCEPT ![j.p] = Nil]
           /\ \/ jobs' = jobs \ {j} /\ UNCHANGED summary
              \/ summary' = ToldOf(j.old, j.batch) /\ jobs' = (jobs \ {j}) \cup {k}
           /\ JobKnown(k) /\ k.pc = "trim" /\ k.p = j.p /\ k.batch = j.batch
           /\ UNCHANGED <<cut, deletion>>
  <1>1. JobKnown(j)
    BY DEF JobsKnown
  <1> QED BY <1>1 DEF WriteSummary, JobKnown, redisVars

\* A job trims what it has told, or nothing.
LEMMA TrimJobs ==
    ASSUME JobsKnown, NEW j \in jobs, Trim(j)
    PROVE  /\ j.pc = "trim" /\ jobs' = jobs \ {j}
           /\ cut' = cut \/ cut' = cut \cup Messages(j.batch)
           /\ UNCHANGED <<summing, summary, deletion>>
  BY DEF Trim

\* A process has at most one summary under way: its lock is free before it, and after it.
LEMMA JobsStep ==
    ASSUME MemorySound, JobsKnown, [MemoryNext]_memoryVars
    PROVE  JobsKnown'
  <1>1. /\ \A j \in jobs : JobKnown(j) /\ (j.pc = "sum" => summing[j.p] # Nil)
        /\ \A j, k \in jobs : j.pc = "sum" /\ k.pc = "sum" /\ j.p = k.p => j = k
        /\ DOMAIN summing = Processes
    BY DEF JobsKnown
  <1>2. ASSUME NEW t \in Turns, Saving(t)
        PROVE  JobsKnown'
    <2>1. CASE jobs' = jobs
      BY <1>1, <1>2, <2>1, SavingJobs DEF JobsKnown
    <2>2. CASE jobs' # jobs
      <3>1. PICK b : LET j == [by |-> t, p |-> turn[t].p, pc |-> "wait", batch |-> b, old |-> {}] IN
                     jobs' = jobs \cup {j} /\ JobKnown(j)
        BY <1>2, <2>2, SavingJobs
      <3> DEFINE j == [by |-> t, p |-> turn[t].p, pc |-> "wait", batch |-> b, old |-> {}]
      <3>2. jobs' = jobs \cup {j} /\ JobKnown(j) /\ j.pc = "wait"
        BY <3>1
      <3>3. summing' = summing
        BY <1>2, SavingJobs
      <3> HIDE DEF j
      <3> QED BY <1>1, <3>2, <3>3 DEF JobsKnown
    <2> QED BY <2>1, <2>2
  <1>3. ASSUME NEW j \in jobs, TakeSummary(j)
        PROVE  JobsKnown'
    <2> DEFINE k == [j EXCEPT !.pc = "sum", !.old = summary]
    <2>1. /\ summing[j.p] = Nil /\ summing' = [summing EXCEPT ![j.p] = j.by]
          /\ jobs' = (jobs \ {j}) \cup {k} /\ JobKnown(k) /\ k.pc = "sum" /\ k.p = j.p
      BY <1>3, TakeJobs
    <2>2. j.p \in Processes /\ j.by # Nil
      BY <1>1, MemoryAssumption DEF JobKnown
    <2> HIDE DEF k
    <2>3. summing'[k.p] # Nil /\ DOMAIN summing' = Processes /\ \A p \in Processes \ {j.p} : summing'[p] = summing[p]
      BY <1>1, <2>1, <2>2
    <2>4. \A i \in jobs : i.pc = "sum" => i.p # j.p
      BY <1>1, <2>1
    <2>5. \A i \in jobs : i.p \in Processes
      BY <1>1 DEF JobKnown
    <2> QED BY <1>1, <2>1, <2>3, <2>4, <2>5 DEF JobsKnown
  <1>4. ASSUME NEW j \in jobs, WriteSummary(j)
        PROVE  JobsKnown'
    <2> DEFINE k == [j EXCEPT !.pc = "trim", !.old = {}]
    <2>1. /\ j.pc = "sum" /\ summing' = [summing EXCEPT ![j.p] = Nil]
          /\ jobs' \subseteq (jobs \ {j}) \cup {k} /\ JobKnown(k) /\ k.pc = "trim"
      BY <1>4, WriteJobs
    <2> HIDE DEF k
    <2>2. j.p \in Processes /\ \A i \in jobs : i.p \in Processes
      BY <1>1 DEF JobKnown
    <2>3. DOMAIN summing' = Processes /\ \A p \in Processes \ {j.p} : summing'[p] = summing[p]
      BY <1>1, <2>1
    <2>4. \A i \in jobs \ {j} : i.pc = "sum" => i.p # j.p
      BY <1>1, <2>1
    <2> QED BY <1>1, <2>1, <2>2, <2>3, <2>4 DEF JobsKnown
  <1>5. ASSUME NEW j \in jobs, Trim(j)
        PROVE  JobsKnown'
    <2>1. jobs' \subseteq jobs /\ summing' = summing
      BY <1>5, TrimJobs
    <2> QED BY <1>1, <2>1 DEF JobsKnown
  <1>6. ASSUME NEW p \in Processes, Crash(p)
        PROVE  JobsKnown'
    <2>1. jobs' = {j \in jobs : j.p # p} /\ summing' = [summing EXCEPT ![p] = Nil]
      BY <1>6 DEF Crash
    <2>2. \A i \in jobs : i.p \in Processes
      BY <1>1 DEF JobKnown
    <2>3. DOMAIN summing' = Processes /\ \A q \in Processes \ {p} : summing'[q] = summing[q]
      BY <1>1, <2>1
    <2> QED BY <1>1, <2>1, <2>2, <2>3 DEF JobsKnown
  <1>7. ASSUME UNCHANGED <<jobs, summing>>
        PROVE  JobsKnown'
    BY <1>1, <1>7 DEF JobsKnown
  <1> QED BY <1>2, <1>3, <1>4, <1>5, <1>6, <1>7, OthersJobs DEF MemoryNext

\* One process: the summary that is written tells of the one before it.
LEMMA TellingStep ==
    ASSUME MemorySound, JobsKnown, TellingKnown, BatchesFit, OneProcess, [MemoryNext]_memoryVars
    PROVE  TellingKnown'
  <1>1. ASSUME NEW t \in Turns, Saving(t)
        PROVE  TellingKnown'
    <2>1. CASE jobs' = jobs
      BY <1>1, <2>1, SavingJobs DEF TellingKnown
    <2>2. CASE jobs' # jobs
      <3>1. PICK b : LET j == [by |-> t, p |-> turn[t].p, pc |-> "wait", batch |-> b, old |-> {}] IN
                     jobs' = jobs \cup {j} /\ JobKnown(j)
        BY <1>1, <2>2, SavingJobs
      <3> DEFINE j == [by |-> t, p |-> turn[t].p, pc |-> "wait", batch |-> b, old |-> {}]
      <3>2. jobs' = jobs \cup {j} /\ j.pc = "wait"
        BY <3>1
      <3>3. UNCHANGED <<summary, cut, deletion>>
        BY <1>1, SavingJobs
      <3> HIDE DEF j
      <3> QED BY <3>2, <3>3 DEF TellingKnown
    <2> QED BY <2>1, <2>2
  <1>2. ASSUME NEW j \in jobs, TakeSummary(j)
        PROVE  TellingKnown'
    <2> DEFINE k == [j EXCEPT !.pc = "sum", !.old = summary]
    <2>1. /\ jobs' = (jobs \ {j}) \cup {k} /\ k.pc = "sum" /\ k.old = summary
          /\ UNCHANGED <<summary, cut, deletion>>
      BY <1>2, TakeJobs
    <2> HIDE DEF k
    <2> QED BY <2>1 DEF TellingKnown
  <1>3. ASSUME NEW j \in jobs, WriteSummary(j), deletion.pc # "done"
        PROVE  TellingKnown'
    <2> DEFINE k == [j EXCEPT !.pc = "trim", !.old = {}]
    <2>1. /\ j.pc = "sum" /\ k.pc = "trim" /\ k.batch = j.batch
          /\ \/ jobs' = jobs \ {j} /\ UNCHANGED summary
             \/ summary' = ToldOf(j.old, j.batch) /\ jobs' = (jobs \ {j}) \cup {k}
          /\ UNCHANGED <<cut, deletion>>
      BY <1>3, WriteJobs
    <2> HIDE DEF k
    <2>2. j.old = summary /\ ToldOf(j.old, j.batch) = summary \cup Messages(j.batch)
      BY <1>3, <2>1 DEF TellingKnown, BatchesFit, ToldOf
    <2>3. \A i \in jobs \ {j} : i.pc # "sum"
      BY <2>1 DEF JobsKnown, JobKnown, OneProcess
    <2>4. summary \subseteq summary' /\ (k \in jobs' \ jobs => Messages(k.batch) \subseteq summary')
      BY <2>1, <2>2
    <2>5. cut' \subseteq summary'
      BY <1>3, <2>1, <2>4 DEF TellingKnown
    <2>6. ASSUME NEW i \in jobs'
          PROVE  i.pc # "sum" /\ (i.pc = "trim" => Messages(i.batch) \subseteq summary')
      <3>1. CASE i \in jobs \ {j}
        BY <1>3, <2>3, <2>4, <3>1 DEF TellingKnown
      <3>2. CASE i \notin jobs \ {j}
        BY <2>1, <2>2, <3>2
      <3> QED BY <3>1, <3>2
    <2> QED BY <2>5, <2>6 DEF TellingKnown
  <1>4. ASSUME NEW j \in jobs, Trim(j)
        PROVE  TellingKnown'
    <2>1. /\ j.pc = "trim" /\ jobs' \subseteq jobs
          /\ cut' \subseteq cut \cup Messages(j.batch)
          /\ UNCHANGED <<summary, deletion>>
      BY <1>4, TrimJobs
    <2> QED BY <2>1 DEF TellingKnown
  <1>5. ASSUME NEW p \in Processes, Crash(p)
        PROVE  TellingKnown'
    <2>1. jobs' \subseteq jobs /\ UNCHANGED <<summary, cut, deletion>>
      BY <1>5 DEF Crash, redisVars
    <2> QED BY <2>1 DEF TellingKnown
  <1>6. ASSUME UNCHANGED <<jobs, summary, cut>>, deletion'.pc # "done" => deletion.pc # "done"
        PROVE  TellingKnown'
    BY <1>6 DEF TellingKnown
  <1>7. ASSUME deletion'.pc = "done"
        PROVE  TellingKnown'
    BY <1>7 DEF TellingKnown
  <1>8. ASSUME NEW j \in jobs, WriteSummary(j), deletion.pc = "done"
        PROVE  TellingKnown'
    BY <1>7, <1>8, WriteJobs
  <1> QED BY <1>1, <1>2, <1>3, <1>4, <1>5, <1>6, <1>7, <1>8, OthersJobs DEF MemoryNext

\* In one process, and with batches that generate_summary reads to their end, nothing is trimmed from the list
\* that the summary does not tell of, and the rows are kept as above.  With two processes, or with a longer
\* batch, a summary may be lost: neither condition can be dropped.
THEOREM AlwaysKeptWhole ==
    ASSUME OneProcess
    PROVE  MemorySpec /\ []BatchesFit => []HistoryIsKept
  <1>1. MemorySound /\ TellingKnown => HistoryIsKept
    BY RowsAreOnce DEF MemorySound, RowsKnown, TellingKnown, HistoryIsKept, CutIsSummarized
  <1>2. MemoryInit => MemorySound /\ JobsKnown /\ TellingKnown
    BY MemoryInitial, JobsInitial
  <1>3. /\ MemorySound /\ JobsKnown /\ TellingKnown
        /\ BatchesFit /\ [MemoryNext]_memoryVars
        => (MemorySound /\ JobsKnown /\ TellingKnown)'
    BY MemoryStep, JobsStep, TellingStep
  <1> QED BY <1>1, <1>2, <1>3, PTL DEF MemorySpec

-----------------------------------------------------------------------------
(* The travel plan of a conversation (TravelSlots).                        *)

Somewhere == Places \cup {Nowhere}
Pairs == [to : Somewhere, from : Somewhere]
Pendings == [lacks : {"to", "from", "nothing"}, places : Pairs, fresh : BOOLEAN]
Kinds == {"chat", "place", "cancel", "recommend", "other"}
MessageRows ==
    [at : {"idle", "routing", "filling", "planning", "gate", "answering", "tools"},
     says : [kind : Kinds, to : Somewhere, from : Somewhere, place : Somewhere],
     sure : Pairs, asks : Pendings, waiting : BOOLEAN, clears : BOOLEAN, plan : Pairs]

TravelTypes ==
    /\ slot \in Pendings /\ stated \in Pairs
    /\ msg \in [Messengers -> MessageRows] /\ messages \in Nat

\* The message is going to ask, and so will not reach the tools.
WillAsk(me) == me.waiting /\ me.asks # NoSlot

\* The plan is whole, and keeps what the message is sure of.
Fits(me) ==
    /\ Nowhere \notin {me.plan.to, me.plan.from}
    /\ me.sure.from # Nowhere => me.plan.from = me.sure.from
    /\ me.sure.to \in Listed => me.plan.to = me.sure.to

\* Before the plan is made, whatever the message is sure of is going to be its question.
MessageKnown(me) ==
    /\ me.at \in {"idle", "routing", "filling"} => me.sure = NoPlaces
    /\ me.at = "filling" => me.asks # NoSlot
    /\ me.at = "planning" =>
         \/ me.says.kind = "recommend"
         \/ me.asks # NoSlot /\ me.asks.lacks = "nothing"
         \/ me.sure = NoPlaces
         \/ WillAsk(me)
    /\ me.at = "gate" => WillAsk(me) \/ Fits(me)
    /\ me.at = "tools" => Fits(me)

TravelSound == TravelTypes /\ \A m \in Messengers : MessageKnown(msg[m])

\* No message is under way.
LEMMA TravelInitial == TravelInit => TravelSound
  <1> SUFFICES ASSUME TravelInit
               PROVE  TravelSound
    OBVIOUS
  <1>1. NoPlaces \in Pairs /\ NoSlot \in Pendings
    BY DEF NoPlaces, Said, NoSlot, Pairs, Pendings, Somewhere
  <1>2. Silence \in MessageRows /\ MessageKnown(Silence)
    BY <1>1 DEF Silence, MessageRows, Kinds, Somewhere, MessageKnown
  <1>3. slot \in Pendings
    <2>1. ASSUME NEW p \in Listed
          PROVE  [lacks |-> "from", places |-> Said(p, Nowhere), fresh |-> FALSE] \in Pendings
      BY TravelAssumption DEF Said, Pairs, Pendings, Somewhere
    <2> QED BY <1>1, <2>1 DEF TravelInit
  <1> QED BY <1>1, <1>2, <1>3 DEF TravelInit, TravelSound, TravelTypes

\* A step of one message that leaves it known keeps the others as they are.
LEMMA OneMessage ==
    ASSUME TravelSound, NEW m \in Messengers, NEW new, Goes(m, new),
           new \in MessageRows, MessageKnown(new),
           slot' \in Pendings, stated' \in Pairs, messages' \in Nat
    PROVE  TravelSound'
  <1>1. msg' \in [Messengers -> MessageRows]
    BY DEF Goes, TravelSound, TravelTypes
  <1>2. ASSUME NEW q \in Messengers
        PROVE  MessageKnown(msg'[q])
    <2>1. CASE q = m
      BY <2>1 DEF Goes, TravelSound, TravelTypes
    <2>2. CASE q # m
      BY <2>2 DEF Goes, TravelSound, TravelTypes
    <2> QED BY <2>1, <2>2
  <1> QED BY <1>1, <1>2 DEF TravelSound, TravelTypes

\* Merging keeps the types; what the new one has it keeps, and nothing empty wins.
LEMMA Overlays ==
    ASSUME NEW old \in Pairs, NEW new \in Pairs
    PROVE  /\ Overlaid(old, new) \in Pairs /\ Extracted(new) \in Pairs
           /\ TravelState(old, new) \in Pairs
           /\ new.from # Nowhere => TravelState(old, new).from = new.from
           /\ new.to \in Listed => TravelState(old, new).to = new.to
  <1>1. \A x, y \in Pairs : Overlaid(x, y) \in Pairs
    BY DEF Overlaid, Said, Pairs
  <1>2. Extracted(new) \in Pairs
    BY DEF Extracted, ExtractDestination, Said, Pairs
  <1>3. TravelState(old, new) \in Pairs
    BY <1>1, <1>2 DEF TravelState
  <1>4. new.from # Nowhere => TravelState(old, new).from = new.from
    BY DEF TravelState, Overlaid, Extracted, Said
  <1>5. new.to \in Listed => TravelState(old, new).to = new.to
    BY TravelAssumption DEF TravelState, Overlaid, Extracted, ExtractDestination, Said
  <1> QED BY <1>1, <1>2, <1>3, <1>4, <1>5

\* Nothing said is a state, and no question.
LEMMA Blank == /\ NoPlaces \in Pairs /\ NoSlot \in Pendings /\ NoSlot.lacks = "nothing" /\ ~NoSlot.fresh
               /\ Silence \in MessageRows /\ MessageKnown(Silence) /\ Silence.sure = NoPlaces
  <1>1. NoPlaces \in Pairs /\ NoSlot \in Pendings
    BY DEF NoPlaces, Said, NoSlot, Pairs, Pendings, Somewhere
  <1> QED BY <1>1 DEF Silence, MessageRows, Kinds, Somewhere, MessageKnown, NoSlot

\* The steps of a message, each with what it reads and stores.
LEMMA ArriveKeeps ==
    ASSUME TravelSound, NEW m \in Messengers, Arrive(m)
    PROVE  TravelSound'
  <1>1. PICK s \in Sayings : Goes(m, [Silence EXCEPT !.at = "routing", !.says = s])
    BY DEF Arrive
  <1> DEFINE new == [Silence EXCEPT !.at = "routing", !.says = s]
  <1>2. s \in [kind : Kinds, to : Somewhere, from : Somewhere, place : Somewhere]
    BY TravelAssumption DEF Kinds, Somewhere
  <1>3. new \in MessageRows
    BY <1>2, Blank DEF MessageRows
  <1>4. MessageKnown(new)
    BY Blank DEF MessageKnown, MessageRows
  <1>5. slot' \in Pendings /\ stated' \in Pairs /\ messages' \in Nat
    BY DEF Arrive, TravelSound, TravelTypes
  <1> HIDE DEF new
  <1> QED BY <1>1, <1>3, <1>4, <1>5, OneMessage DEF new

LEMMA MemoryKeeps ==
    ASSUME TravelSound, NEW m \in Messengers, ApplyTravelMemory(m)
    PROVE  TravelSound'
  <1> DEFINE me == msg[m]
             said == Said(me.says.to, me.says.from)
  <1>1. /\ me \in MessageRows /\ MessageKnown(me) /\ me.at = "routing" /\ me.sure = NoPlaces
        /\ slot' \in Pendings /\ stated' \in Pairs /\ messages' \in Nat
    BY DEF ApplyTravelMemory, TravelSound, TravelTypes, MessageKnown
  <1>2. PICK pending \in PendingTravel :
           LET drops == Drops(me.says, pending)
               recalls == pending # NoSlot /\ ~drops
           IN \/ me.says.kind = "recommend" /\ Goes(m, [me EXCEPT !.at = "planning", !.sure = said, !.clears = drops])
              \/ Goes(m, [me EXCEPT !.at = "answering", !.clears = drops])
              \/ recalls /\ Goes(m, [me EXCEPT !.at = "planning", !.asks = pending, !.waiting = TRUE])
              \/ recalls /\ Goes(m, [me EXCEPT !.at = "filling", !.asks = pending])
    BY DEF ApplyTravelMemory
  <1>3. pending \in Pendings
    BY Blank DEF PendingTravel, TravelSound, TravelTypes
  <1>4. said \in Pairs /\ Drops(me.says, pending) \in BOOLEAN
    BY <1>1 DEF Said, Pairs, MessageRows, Drops
  <1> HIDE DEF me, said
  <1> DEFINE drops == Drops(me.says, pending)
  <1> HIDE DEF drops
  <1>5. drops \in BOOLEAN
    BY <1>4 DEF drops
  <1>6. CASE me.says.kind = "recommend" /\ Goes(m, [me EXCEPT !.at = "planning", !.sure = said, !.clears = drops])
    <2> DEFINE new == [me EXCEPT !.at = "planning", !.sure = said, !.clears = drops]
    <2>1. new \in MessageRows /\ MessageKnown(new)
      BY <1>1, <1>4, <1>5, <1>6 DEF MessageRows, MessageKnown
    <2> HIDE DEF new
    <2> QED BY <1>1, <1>6, <2>1, OneMessage DEF new
  <1>7. CASE Goes(m, [me EXCEPT !.at = "answering", !.clears = drops])
    <2> DEFINE new == [me EXCEPT !.at = "answering", !.clears = drops]
    <2>1. new \in MessageRows /\ MessageKnown(new)
      BY <1>1, <1>5 DEF MessageRows, MessageKnown
    <2> HIDE DEF new
    <2> QED BY <1>1, <1>7, <2>1, OneMessage DEF new
  <1>8. CASE pending # NoSlot /\ Goes(m, [me EXCEPT !.at = "planning", !.asks = pending, !.waiting = TRUE])
    <2> DEFINE new == [me EXCEPT !.at = "planning", !.asks = pending, !.waiting = TRUE]
    <2>1. new \in MessageRows /\ MessageKnown(new)
      BY <1>1, <1>3, <1>8 DEF MessageRows, MessageKnown
    <2> HIDE DEF new
    <2> QED BY <1>1, <1>8, <2>1, OneMessage DEF new
  <1>9. CASE pending # NoSlot /\ Goes(m, [me EXCEPT !.at = "filling", !.asks = pending])
    <2> DEFINE new == [me EXCEPT !.at = "filling", !.asks = pending]
    <2>1. new \in MessageRows /\ MessageKnown(new)
      BY <1>1, <1>3, <1>9 DEF MessageRows, MessageKnown
    <2> HIDE DEF new
    <2> QED BY <1>1, <1>9, <2>1, OneMessage DEF new
  <1> QED BY <1>2, <1>6, <1>7, <1>8, <1>9 DEF drops

LEMMA PersistKeeps ==
    ASSUME TravelSound, NEW m \in Messengers, PersistTravelSlot(m)
    PROVE  TravelSound'
  <1> DEFINE me == msg[m]
             filled == [me.asks.places EXCEPT ![me.asks.lacks] = me.says.place]
             lacks == NextMissing(filled)
             new == [me EXCEPT !.at = "planning",
                               !.sure = filled,
                               !.asks = [lacks |-> lacks, places |-> filled, fresh |-> TRUE],
                               !.waiting = lacks # "nothing",
                               !.clears = lacks = "nothing"]
  <1>1. /\ me \in MessageRows /\ Goes(m, new)
        /\ slot' \in Pendings /\ messages' \in Nat
    BY DEF PersistTravelSlot, TravelSound, TravelTypes
  <1>2. stated' \in Pairs
    BY <1>1 DEF PersistTravelSlot, TravelSound, TravelTypes, Pairs, MessageRows
  <1>3. filled \in Pairs
    BY <1>1 DEF MessageRows, Pendings, Pairs
  <1>4. lacks \in {"to", "from", "nothing"}
    BY DEF NextMissing
  <1> HIDE DEF filled, lacks
  <1>5. [lacks |-> lacks, places |-> filled, fresh |-> TRUE] \in Pendings
    BY <1>3, <1>4 DEF Pendings
  <1>6. new \in MessageRows
    BY <1>1, <1>3, <1>5 DEF MessageRows
  <1>7. /\ new.at = "planning" /\ new.asks = [lacks |-> lacks, places |-> filled, fresh |-> TRUE]
        /\ new.waiting = (lacks # "nothing")
    BY <1>1 DEF MessageRows
  <1>9. new.asks # NoSlot /\ new.asks.lacks = lacks
    <2> HIDE DEF new
    <2> QED BY <1>7, Blank
  <1>8. MessageKnown(new)
    <2> HIDE DEF new
    <2> QED BY <1>7, <1>9 DEF MessageKnown, WillAsk
  <1> HIDE DEF new
  <1> QED BY <1>1, <1>2, <1>6, <1>8, OneMessage

LEMMA FailToPersistKeeps ==
    ASSUME TravelSound, NEW m \in Messengers, FailToPersist(m)
    PROVE  TravelSound'
  <1> DEFINE new == [msg[m] EXCEPT !.at = "answering", !.asks = NoSlot]
  <1>1. /\ msg[m] \in MessageRows /\ Goes(m, new)
        /\ slot' \in Pendings /\ stated' \in Pairs /\ messages' \in Nat
    BY DEF FailToPersist, TravelSound, TravelTypes
  <1>2. new \in MessageRows /\ MessageKnown(new)
    BY <1>1, Blank DEF MessageRows, MessageKnown
  <1> HIDE DEF new
  <1> QED BY <1>1, <1>2, OneMessage

LEMMA BuildKeeps ==
    ASSUME TravelSound, NEW m \in Messengers, BuildTravelState(m)
    PROVE  TravelSound'
  <1> DEFINE me == msg[m]
             question == IF me.says.kind = "recommend" \/ (me.asks # NoSlot /\ me.asks.lacks = "nothing")
                         THEN me.sure ELSE NoPlaces
  <1>1. PICK before \in StoredProfile :
           LET state == TravelState(before, question)
               lacks == NextMissing(state)
           IN Goes(m, IF lacks = "nothing" THEN [me EXCEPT !.at = "gate", !.plan = state]
                      ELSE [me EXCEPT !.at = "gate", !.waiting = TRUE, !.clears = FALSE,
                                      !.asks = [lacks |-> lacks, places |-> state, fresh |-> TRUE]])
    BY DEF BuildTravelState
  <1> DEFINE state == TravelState(before, question)
             lacks == NextMissing(state)
  <1>2. /\ me \in MessageRows /\ MessageKnown(me) /\ me.at = "planning"
        /\ slot' \in Pendings /\ stated' \in Pairs /\ messages' \in Nat
    BY DEF BuildTravelState, TravelSound, TravelTypes
  <1>3. before \in Pairs
    BY Blank DEF StoredProfile, TravelSound, TravelTypes
  <1>4. question \in Pairs
    BY <1>2, Blank DEF MessageRows
  <1>5. WillAsk(me) \/ question = me.sure
    BY <1>2 DEF MessageKnown
  <1> HIDE DEF me, question
  <1>6. /\ state \in Pairs
        /\ question.from # Nowhere => state.from = question.from
        /\ question.to \in Listed => state.to = question.to
    BY <1>3, <1>4, Overlays
  <1> HIDE DEF state
  <1>7. CASE lacks = "nothing"
    <2> DEFINE new == [me EXCEPT !.at = "gate", !.plan = state]
    <2>1. Goes(m, new)
      BY <1>1, <1>7 DEF state
    <2>2. new \in MessageRows
      BY <1>2, <1>6 DEF MessageRows
    <2>3. /\ new.at = "gate" /\ new.plan = state /\ new.sure = me.sure
          /\ new.waiting = me.waiting /\ new.asks = me.asks
      BY <1>2 DEF MessageRows
    <2>4. Nowhere \notin {state.to, state.from}
      BY <1>7 DEF NextMissing
    <2> HIDE DEF new
    <2>5. MessageKnown(new)
      BY <1>5, <1>6, <2>3, <2>4 DEF MessageKnown, WillAsk, Fits
    <2> QED BY <1>2, <2>1, <2>2, <2>5, OneMessage
  <1>8. CASE lacks # "nothing"
    <2> DEFINE asks == [lacks |-> lacks, places |-> state, fresh |-> TRUE]
               new == [me EXCEPT !.at = "gate", !.waiting = TRUE, !.clears = FALSE, !.asks = asks]
    <2>1. Goes(m, new)
      BY <1>1, <1>8 DEF state
    <2>2. asks \in Pendings /\ asks # NoSlot
      BY <1>6, Blank DEF Pendings, NextMissing
    <2>3. new \in MessageRows /\ new.at = "gate" /\ new.waiting /\ new.asks = asks
      BY <1>2, <2>2 DEF MessageRows
    <2> HIDE DEF new
    <2>4. MessageKnown(new)
      BY <2>2, <2>3 DEF MessageKnown, WillAsk
    <2> QED BY <1>2, <2>1, <2>3, <2>4, OneMessage
  <1> QED BY <1>7, <1>8

LEMMA GateKeeps ==
    ASSUME TravelSound, NEW m \in Messengers, TravelClarificationGate(m)
    PROVE  TravelSound'
  <1> DEFINE me == msg[m]
  <1>1. /\ me \in MessageRows /\ MessageKnown(me) /\ me.at = "gate"
        /\ slot \in Pendings /\ stated' \in Pairs /\ messages' \in Nat
    BY DEF TravelClarificationGate, TravelSound, TravelTypes
  <1>2. CASE WillAsk(me)
    <2> DEFINE new == [me EXCEPT !.at = "answering", !.clears = FALSE]
    <2>1. Goes(m, new) /\ slot' \in {slot, [me.asks EXCEPT !.fresh = TRUE]}
      BY <1>2 DEF TravelClarificationGate, WillAsk
    <2>2. slot' \in Pendings
      BY <1>1, <2>1 DEF MessageRows, Pendings
    <2>3. new \in MessageRows /\ MessageKnown(new)
      BY <1>1 DEF MessageRows, MessageKnown
    <2> HIDE DEF new
    <2> QED BY <1>1, <2>1, <2>2, <2>3, OneMessage
  <1>3. CASE ~WillAsk(me)
    <2> DEFINE new == [me EXCEPT !.at = "tools"]
    <2>1. Goes(m, new) /\ slot' \in Pendings
      BY <1>1, <1>3 DEF TravelClarificationGate, WillAsk
    <2>2. new \in MessageRows /\ new.at = "tools" /\ new.sure = me.sure /\ new.plan = me.plan
      BY <1>1 DEF MessageRows
    <2>3. Fits(me)
      BY <1>1, <1>3 DEF MessageKnown
    <2> HIDE DEF new
    <2>4. MessageKnown(new)
      BY <2>2, <2>3 DEF MessageKnown, Fits
    <2> QED BY <1>1, <2>1, <2>2, <2>4, OneMessage
  <1> QED BY <1>2, <1>3

LEMMA FinalizeKeeps ==
    ASSUME TravelSound, NEW m \in Messengers, FinalizeAnswer(m)
    PROVE  TravelSound'
  <1>1. slot' \in Pendings /\ messages' \in Nat /\ Goes(m, Silence)
    BY Blank DEF FinalizeAnswer, TravelSound, TravelTypes
  <1> DEFINE said == Said(msg[m].says.to, msg[m].says.from)
  <1>2. said \in Pairs /\ stated \in Pairs
    BY DEF TravelSound, TravelTypes, MessageRows, Said, Pairs
  <1>3. stated' \in {stated, TravelState(stated, said)}
    BY DEF FinalizeAnswer, TravelState
  <1>4. stated' \in Pairs
    <2> HIDE DEF said
    <2> QED BY <1>2, <1>3, Overlays
  <1> QED BY <1>1, <1>4, Blank, OneMessage

\* Every step keeps the invariant.
LEMMA TravelStep == TravelSound /\ [TravelNext]_travelVars => TravelSound'
  <1> SUFFICES ASSUME TravelSound, [TravelNext]_travelVars
               PROVE  TravelSound'
    OBVIOUS
  <1>1. CASE UNCHANGED travelVars
    BY <1>1 DEF travelVars, TravelSound, TravelTypes
  <1>2. CASE QuestionLapses
    BY <1>2, Blank DEF QuestionLapses, TravelSound, TravelTypes
  <1>3. ASSUME NEW m \in Messengers,
               \/ Arrive(m) \/ ApplyTravelMemory(m) \/ PersistTravelSlot(m) \/ FailToPersist(m)
               \/ BuildTravelState(m) \/ TravelClarificationGate(m) \/ FinalizeAnswer(m)
        PROVE  TravelSound'
    BY <1>3, ArriveKeeps, MemoryKeeps, PersistKeeps, FailToPersistKeeps, BuildKeeps, GateKeeps, FinalizeKeeps
  <1> QED BY <1>1, <1>2, <1>3 DEF TravelNext

\* Whatever several messages of a conversation read and store between each other's steps,
\* the tools get a whole plan that has what their own message said or its reply confirmed.
THEOREM AlwaysPlannedAsSaid == TravelSpec => []PlannedAsSaid
  <1>1. TravelSound => PlannedAsSaid
    BY DEF TravelSound, MessageKnown, Fits, PlannedAsSaid
  <1> QED BY <1>1, TravelInitial, TravelStep, PTL DEF TravelSpec

-----------------------------------------------------------------------------
(* The trace of a request (RequestTrace).                                  *)

Uids == Tasks \X Nat

TraceRows == [at : {"none", "open", "finished"}, found : Seq(Uids), spans : Nat]
TaskRows == [at : {"idle", "running", "over"}, of : Asked \cup {Untraced}, done : Nat]
AnswerRows == [at : {"none", "due", "written", "failed"}, due : Seq(Uids), row : Seq(Uids)]
RootRows == [at : {"none", "due", "over"}, status : {"running", "success", "failed"}, spans : Nat, rows : Nat]

TraceTypes ==
    /\ trace \in [Asked -> TraceRows] /\ seen \in [Tasks -> Asked \cup {Untraced}]
    /\ task \in [Tasks -> TaskRows] /\ answer \in [Asked -> AnswerRows] /\ root \in [Asked -> RootRows]
    /\ made \in [Asked -> Seq(Uids)]

\* A running task works for one request, and sees the trace of that one or none.
TaskTold(t) ==
    Runs(t) => /\ task[t].of \in Asked /\ seen[t] \in {task[t].of, Untraced}
               /\ t \in Asked => task[t].of = t

\* Up to the end of the request its trace knows every search, and every task sees it.
OpenTold(r) ==
    /\ task[r].at = "idle" => trace[r].at = "none" /\ answer[r].at = "none"
    /\ trace[r].at = "none" => task[r].at = "idle" /\ \A t \in Tasks : Runs(t) => task[t].of # r
    /\ trace[r].at = "open" => Runs(r) /\ seen[r] = r
    /\ Runs(r) /\ seen[r] = r => trace[r].at = "open"
    /\ trace[r].at \in {"none", "open"} =>
         /\ trace[r].found = made[r] /\ trace[r].spans = Len(made[r])
         /\ root[r].at = "none" /\ root[r].rows = 0 /\ root[r].status = "running"
         /\ \A t \in Tasks : Runs(t) /\ task[t].of = r => seen[t] = r

\* What the rows are written from.
RowsTold(r) ==
    /\ answer[r].at # "none" => trace[r].at # "none" /\ IsPrefix(answer[r].due, trace[r].found)
    /\ ToSet(trace[r].found) \subseteq ToSet(made[r])
    /\ trace[r].spans <= Len(made[r])
    /\ root[r].at = "due" => root[r].rows = 0
    /\ answer[r].at = "written" =>
         IsPrefix(answer[r].due, answer[r].row) /\ ToSet(answer[r].row) \subseteq ToSet(made[r])
    /\ root[r].rows <= 1
    /\ root[r].status = "success" => answer[r].at # "none"
    /\ root[r].at # "none" =>
         root[r].spans <= Len(made[r]) /\ (answer[r].at # "none" => root[r].spans >= Len(answer[r].due))

TraceSound ==
    /\ TraceTypes
    /\ \A t \in Tasks : TaskTold(t)
    /\ \A r \in Asked : OpenTold(r) /\ RowsTold(r)

\* Prefixes and members of a sequence that grows.
LEMMA PrefixItself ==
    ASSUME NEW S, NEW s \in Seq(S)
    PROVE  IsPrefix(s, s)
  BY DEF IsPrefix

LEMMA PrefixAppended ==
    ASSUME NEW S, NEW s \in Seq(S), NEW t \in Seq(S), NEW e \in S, IsPrefix(s, t)
    PROVE  IsPrefix(s, Append(t, e))
  <1>1. Append(t, e) \in Seq(S) /\ Len(Append(t, e)) = Len(t) + 1
        /\ \A i \in 1 .. Len(t) : Append(t, e)[i] = t[i]
    BY AppendProperties
  <1>2. Len(s) \in Nat /\ Len(t) \in Nat /\ Len(s) <= Len(t)
    BY DEF IsPrefix
  <1> DEFINE u == Append(t, e)
  <1>3. SubSeq(u, 1, Len(s)) = [i \in 1 .. Len(s) |-> u[i]]
    BY <1>1, <1>2, SubSeqProperties DEF u
  <1> QED BY <1>1, <1>2 DEF IsPrefix

LEMMA MembersAppended ==
    ASSUME NEW S, NEW s \in Seq(S), NEW e \in S
    PROVE  ToSet(Append(s, e)) = ToSet(s) \cup {e}
  BY AppendProperties DEF ToSet

\* No request has begun.
LEMMA TraceInitial == TraceInit => TraceSound
  <1> SUFFICES ASSUME TraceInit
               PROVE  TraceSound
    OBVIOUS
  <1>1. <<>> \in Seq(Uids) /\ Len(<<>>) = 0
    OBVIOUS
  <1>2. TraceTypes
    <2>1. \A t \in Tasks : task[t] = [at |-> "idle", of |-> Untraced, done |-> 0]
      BY DEF TraceInit
    <2> QED BY <1>1 DEF TraceInit, TraceTypes, TraceRows, TaskRows, AnswerRows, RootRows
  <1>3. \A t \in Tasks : ~Runs(t) /\ task[t].at = "idle" /\ seen[t] = Untraced
    BY DEF TraceInit, Runs
  <1>4. ASSUME NEW r \in Asked
        PROVE  OpenTold(r) /\ RowsTold(r)
    <2>1. /\ r \in Tasks /\ made[r] = <<>>
          /\ trace[r] = [at |-> "none", found |-> <<>>, spans |-> 0]
          /\ answer[r] = [at |-> "none", due |-> <<>>, row |-> <<>>]
          /\ root[r] = [at |-> "none", status |-> "running", spans |-> 0, rows |-> 0]
      BY DEF TraceInit, Tasks
    <2>2. OpenTold(r)
      BY <1>1, <1>3, <2>1 DEF OpenTold
    <2>3. RowsTold(r)
      BY <1>1, <2>1 DEF RowsTold
    <2> QED BY <2>2, <2>3
  <1> QED BY <1>2, <1>3, <1>4 DEF TraceSound, TaskTold

\* What is known of the rows of a request and of a task.
LEMMA TraceRow ==
    ASSUME TraceSound, NEW r \in Asked
    PROVE  /\ r \in Tasks /\ r \notin Finders /\ r # Untraced
           /\ trace[r] \in TraceRows /\ answer[r] \in AnswerRows /\ root[r] \in RootRows
           /\ made[r] \in Seq(Uids) /\ Len(made[r]) \in Nat
           /\ OpenTold(r) /\ RowsTold(r)
  BY TraceAssumption DEF TraceSound, TraceTypes, Tasks

\* What the invariant says of one task.
LEMMA TaskRow ==
    ASSUME TraceSound, NEW t \in Tasks
    PROVE  /\ task[t] \in TaskRows /\ seen[t] \in Asked \cup {Untraced} /\ TaskTold(t)
           /\ task[t].done \in Nat
  BY DEF TraceSound, TraceTypes, TaskRows

\* A step that leaves the rows, the trace and the tasks of a request leaves it sound.
LEMMA OpenStays ==
    ASSUME NEW q \in Asked, OpenTold(q), q \in Tasks,
           trace'[q] = trace[q], made'[q] = made[q], root'[q] = root[q],
           answer'[q].at = answer[q].at, seen'[q] = seen[q],
           task'[q].at = task[q].at,
           \A t \in Tasks : Runs(t)' /\ task'[t].of = q =>
               Runs(t) /\ task[t].of = q /\ seen'[t] = seen[t]
    PROVE  OpenTold(q)'
  BY DEF OpenTold, Runs

\* What the rows are written from stays as it is.
LEMMA RowsStay ==
    ASSUME NEW q \in Asked, RowsTold(q),
           trace'[q] = trace[q], made'[q] = made[q], root'[q] = root[q], answer'[q] = answer[q]
    PROVE  RowsTold(q)'
  BY DEF RowsTold

\* The steps of a request and its tasks.
LEMMA BeginKeeps ==
    ASSUME TraceSound, NEW r \in Asked, BeginRequest(r)
    PROVE  TraceSound'
  <1>1. r \in Tasks /\ r \notin Finders
    BY TraceAssumption DEF Tasks
  <1>2. TraceTypes'
    <2>1. [trace[r] EXCEPT !.at = "open"] \in TraceRows
      BY TraceRow DEF TraceRows
    <2>2. [at |-> "running", of |-> r, done |-> 0] \in TaskRows
      BY DEF TaskRows
    <2> QED BY <1>1, <2>1, <2>2 DEF BeginRequest, TraceSound, TraceTypes
  <1>3. ASSUME NEW t \in Tasks
        PROVE  TaskTold(t)'
    BY <1>1, <1>3 DEF BeginRequest, TraceSound, TraceTypes, TaskTold, Runs
  <1>4. ASSUME NEW q \in Asked
        PROVE  OpenTold(q)' /\ RowsTold(q)'
    <2>1. OpenTold(q) /\ RowsTold(q) /\ q \in Tasks
      BY DEF TraceSound, Tasks
    <2>2. /\ answer' = answer /\ root' = root /\ made' = made
          /\ trace'[q].found = trace[q].found /\ trace'[q].spans = trace[q].spans
          /\ trace'[q].at = IF q = r THEN "open" ELSE trace[q].at
      BY DEF BeginRequest, TraceSound, TraceTypes
    <2>3. \A t \in Tasks \ {r} : task'[t] = task[t] /\ seen'[t] = seen[t]
      BY DEF BeginRequest, TraceSound, TraceTypes
    <2>4. task'[r] = [at |-> "running", of |-> r, done |-> 0] /\ seen'[r] = r /\ task[r].at = "idle"
      BY <1>1 DEF BeginRequest, TraceSound, TraceTypes
    <2>5. RowsTold(q)'
      BY <2>1, <2>2 DEF RowsTold
    <2>6. CASE q = r
      <3>1. trace[q].at = "none" /\ answer[q].at = "none"
        BY <2>1, <2>4, <2>6 DEF OpenTold
      <3>2. \A t \in Tasks : Runs(t) /\ task[t].of = r => seen[t] = r
        BY <3>1, <2>1, <2>6 DEF OpenTold
      <3>3. \A t \in Tasks : Runs(t)' /\ task'[t].of = r => seen'[t] = r
        BY <3>2, <2>3, <2>4 DEF Runs
      <3>4. /\ trace[q].found = made[q] /\ trace[q].spans = Len(made[q])
            /\ root[q].at = "none" /\ root[q].rows = 0 /\ root[q].status = "running"
        BY <2>1, <3>1 DEF OpenTold
      <3>5. task'[q].at = "running" /\ trace'[q].at = "open" /\ seen'[q] = q
        BY <2>2, <2>4, <2>6
      <3>6. /\ trace'[q].found = made'[q] /\ trace'[q].spans = Len(made'[q])
            /\ root'[q].at = "none" /\ root'[q].rows = 0 /\ root'[q].status = "running"
        BY <2>2, <3>4
      <3>7. \A t \in Tasks : Runs(t)' /\ task'[t].of = q => seen'[t] = q
        BY <2>6, <3>3
      <3>8. Runs(q)'
        BY <3>5 DEF Runs
      <3>9. OpenTold(q)'
        BY <3>5, <3>6, <3>7, <3>8 DEF OpenTold
      <3> QED BY <2>5, <3>9
    <2>7. CASE q # r
      <3>1. task'[q] = task[q] /\ seen'[q] = seen[q] /\ trace'[q].at = trace[q].at
        BY <2>1, <2>2, <2>3, <2>7
      <3>2. ASSUME NEW t \in Tasks, Runs(t)', task'[t].of = q
            PROVE  Runs(t) /\ task[t].of = q /\ seen'[t] = seen[t]
        BY <3>2, <2>3, <2>4, <2>7 DEF Runs
      <3>3. trace'[q] = trace[q]
        BY <2>7 DEF BeginRequest, TraceSound, TraceTypes
      <3>4. task'[q].at = task[q].at /\ answer'[q].at = answer[q].at
        BY <2>2, <3>1
      <3>5. made'[q] = made[q] /\ root'[q] = root[q]
        BY <2>2
      <3>6. OpenTold(q)'
        BY <2>1, <3>1, <3>2, <3>3, <3>4, <3>5, OpenStays
      <3> QED BY <2>5, <3>6
    <2> QED BY <2>5, <2>6, <2>7
  <1> QED BY <1>2, <1>3, <1>4 DEF TraceSound

LEMMA StartTaskKeeps ==
    ASSUME TraceSound, NEW r \in Asked, NEW f \in Finders, StartFinder(r, f)
    PROVE  TraceSound'
  <1>1. r \in Tasks /\ f \in Tasks /\ f \notin Asked
    BY TraceAssumption DEF Tasks
  <1>2. TraceTypes'
    <2>1. [at |-> "running", of |-> r, done |-> 0] \in TaskRows
      BY DEF TaskRows
    <2>2. seen[r] \in Asked \cup {Untraced}
      BY <1>1, TaskRow
    <2> QED BY <1>1, <2>1, <2>2 DEF StartFinder, TraceSound, TraceTypes
  <1>3. task[r].of = r /\ seen[r] \in {r, Untraced}
    BY <1>1 DEF StartFinder, TraceSound, TaskTold
  <1>4. task'[f] = [at |-> "running", of |-> r, done |-> 0] /\ seen'[f] = seen[r]
    BY <1>1 DEF StartFinder, TraceSound, TraceTypes
  <1>5. \A t \in Tasks \ {f} : task'[t] = task[t] /\ seen'[t] = seen[t]
    BY DEF StartFinder, TraceSound, TraceTypes
  <1>6. ASSUME NEW t \in Tasks
        PROVE  TaskTold(t)'
    BY <1>1, <1>3, <1>4, <1>5, <1>6 DEF TraceSound, TaskTold, Runs
  <1>7. ASSUME NEW q \in Asked
        PROVE  OpenTold(q)' /\ RowsTold(q)'
    <2>1. OpenTold(q) /\ RowsTold(q) /\ q \in Tasks /\ q # f
      BY <1>1 DEF TraceSound, Tasks
    <2>2. answer' = answer /\ root' = root /\ made' = made /\ trace' = trace
      BY DEF StartFinder
    <2>3. RowsTold(q)'
      BY <2>1, <2>2 DEF RowsTold
    <2>4. trace[q].at \in {"none", "open"} /\ r = q => seen[r] = r
      BY <1>1, <1>3, <2>1 DEF OpenTold, StartFinder
    <2>5. ASSUME trace[q].at \in {"none", "open"}, NEW t \in Tasks, Runs(t)', task'[t].of = q
          PROVE  seen'[t] = q
      BY <2>5, <1>4, <1>5, <2>1, <2>4 DEF OpenTold, Runs
    <2>6. task'[q] = task[q] /\ seen'[q] = seen[q]
      BY <1>5, <2>1
    <2>7. ASSUME trace[q].at = "none", NEW t \in Tasks, Runs(t)'
          PROVE  task'[t].of # q
      <3>1. task[q].at = "idle" /\ q # r
        BY <2>1, <2>7 DEF OpenTold, StartFinder, Runs
      <3> QED BY <3>1, <1>4, <1>5, <2>1, <2>7 DEF OpenTold, Runs
    <2>8. OpenTold(q)'
      BY <2>1, <2>2, <2>5, <2>6, <2>7 DEF OpenTold, Runs
    <2> QED BY <2>3, <2>8
  <1> QED BY <1>2, <1>6, <1>7 DEF TraceSound

LEMMA EndFinderKeeps ==
    ASSUME TraceSound, NEW f \in Finders, EndFinder(f)
    PROVE  TraceSound'
  <1>1. f \in Tasks /\ f \notin Asked
    BY TraceAssumption DEF Tasks
  <1>2. TraceTypes'
    <2>1. [task[f] EXCEPT !.at = "over"] \in TaskRows
      BY <1>1, TaskRow DEF TaskRows
    <2> QED BY <1>1, <2>1 DEF EndFinder, TraceSound, TraceTypes
  <1>3. ~Runs(f)' /\ \A t \in Tasks \ {f} : task'[t] = task[t]
    BY <1>1 DEF EndFinder, Runs, TraceSound, TraceTypes
  <1>4. ASSUME NEW t \in Tasks
        PROVE  TaskTold(t)'
    BY <1>3, <1>4 DEF EndFinder, TraceSound, TaskTold, Runs
  <1>5. ASSUME NEW q \in Asked
        PROVE  OpenTold(q)' /\ RowsTold(q)'
    <2>1. OpenTold(q) /\ RowsTold(q) /\ q \in Tasks /\ q # f
      BY <1>1 DEF TraceSound, Tasks
    <2>2. answer' = answer /\ root' = root /\ made' = made /\ trace' = trace /\ seen' = seen
      BY DEF EndFinder
    <2>3. RowsTold(q)'
      BY <2>1, <2>2 DEF RowsTold
    <2>4. \A t \in Tasks : Runs(t)' => Runs(t) /\ task'[t] = task[t]
      BY <1>3 DEF Runs
    <2>5. OpenTold(q)'
      BY <1>3, <2>1, <2>2, <2>4, OpenStays
    <2> QED BY <2>3, <2>5
  <1> QED BY <1>2, <1>4, <1>5 DEF TraceSound

LEMMA SearchKeeps ==
    ASSUME TraceSound, NEW t \in Tasks, Search(t)
    PROVE  TraceSound'
  <1> DEFINE uid == <<t, task[t].done + 1>>
             r == seen[t]
             o == task[t].of
  <1>1. /\ uid \in Uids /\ o \in Asked /\ r \in {o, Untraced} /\ (t \in Asked => o = t)
        /\ task[t].at = "running"
    <2>1. Runs(t) /\ TaskTold(t) /\ task[t].done + 1 \in Nat
      BY TaskRow DEF Search
    <2> QED BY <2>1 DEF TaskTold, Runs, Uids
  <1>2. task' = [task EXCEPT ![t].done = @ + 1] /\ UNCHANGED <<seen, answer, root>>
        /\ made' = [made EXCEPT ![o] = Append(@, uid)]
        /\ trace' = IF r = Untraced THEN trace
                    ELSE [trace EXCEPT ![r].found = Append(@, uid),
                                       ![r].spans = IF StillOpen(r) THEN @ + 1 ELSE @]
    BY DEF Search, FoundAlso
  <1>3. made[o] \in Seq(Uids) /\ trace[o].found \in Seq(Uids) /\ trace[o].spans \in Nat
    BY <1>1, TraceRow DEF TraceRows
  <1> HIDE DEF uid, r, o
  <1>4. /\ Append(made[o], uid) \in Seq(Uids) /\ Len(Append(made[o], uid)) = Len(made[o]) + 1
        /\ ToSet(Append(made[o], uid)) = ToSet(made[o]) \cup {uid}
    BY <1>1, <1>3, AppendProperties, MembersAppended
  <1>5. /\ Append(trace[o].found, uid) \in Seq(Uids)
        /\ ToSet(Append(trace[o].found, uid)) = ToSet(trace[o].found) \cup {uid}
    BY <1>1, <1>3, AppendProperties, MembersAppended
  <1>6. TraceTypes'
    <2>1. trace' \in [Asked -> TraceRows]
      <3>1. CASE r = Untraced
        BY <3>1, <1>2 DEF TraceSound, TraceTypes
      <3>2. CASE r # Untraced
        <4>1. r = o /\ trace[r] \in TraceRows
          BY <3>2, <1>1 DEF TraceSound, TraceTypes
        <4> DEFINE n == IF StillOpen(r) THEN trace[r].spans + 1 ELSE trace[r].spans
        <4>2. n \in Nat
          BY <4>1, <1>3
        <4> HIDE DEF n
        <4>3. [trace[r] EXCEPT !.found = Append(trace[r].found, uid), !.spans = n] \in TraceRows
          BY <4>1, <4>2, <1>5 DEF TraceRows
        <4>4. trace' = [trace EXCEPT ![r] = [trace[r] EXCEPT !.found = Append(trace[r].found, uid), !.spans = n]]
          BY <3>2, <4>1, <1>1, <1>2 DEF TraceSound, TraceTypes, n
        <4> QED BY <4>1, <4>3, <4>4, <1>1 DEF TraceSound, TraceTypes
      <3> QED BY <3>1, <3>2
    <2>2. made' \in [Asked -> Seq(Uids)]
      BY <1>1, <1>2, <1>4 DEF TraceSound, TraceTypes
    <2>3. task' \in [Tasks -> TaskRows]
      <3>1. [task[t] EXCEPT !.done = @ + 1] \in TaskRows
        BY TaskRow DEF TaskRows
      <3> QED BY <3>1, <1>2 DEF TraceSound, TraceTypes
    <2> QED BY <1>2, <2>1, <2>2, <2>3 DEF TraceSound, TraceTypes
  <1>7. \A u \in Tasks : task'[u].at = task[u].at /\ task'[u].of = task[u].of
    BY <1>1, <1>2 DEF TraceSound, TraceTypes
  <1>8. ASSUME NEW u \in Tasks
        PROVE  TaskTold(u)'
    BY <1>2, <1>7, <1>8 DEF TraceSound, TaskTold, Runs
  <1>9. ASSUME NEW q \in Asked
        PROVE  OpenTold(q)' /\ RowsTold(q)'
    <2>1. OpenTold(q) /\ RowsTold(q) /\ q \in Tasks /\ trace[q].spans \in Nat /\ made[q] \in Seq(Uids)
      BY TraceRow DEF TraceRows
    <2>2. CASE q # o
      <3>1. made'[q] = made[q] /\ trace'[q] = trace[q]
        BY <2>2, <1>1, <1>2 DEF TraceSound, TraceTypes
      <3>2. OpenTold(q)'
        BY <2>1, <3>1, <1>2, <1>7 DEF OpenTold, Runs
      <3>3. RowsTold(q)'
        BY <2>1, <3>1, <1>2 DEF RowsTold
      <3> QED BY <3>2, <3>3
    <2>3. CASE q = o
      <3>1. made'[q] = Append(made[q], uid) /\ Len(made'[q]) = Len(made[q]) + 1
            /\ ToSet(made'[q]) = ToSet(made[q]) \cup {uid} /\ Len(made[q]) \in Nat
        BY <2>3, <1>1, <1>2, <1>3, <1>4 DEF TraceSound, TraceTypes
      <3>2. CASE r = Untraced
        <4>1. trace' = trace
          BY <3>2, <1>2
        <4>2. trace[q].at = "finished"
          <5>1. q # Untraced
            BY TraceAssumption
          <5>2. ~(trace[q].at \in {"none", "open"})
            BY <3>2, <5>1, <2>1, <2>3, <1>1 DEF OpenTold, Runs, r, o
          <5> QED BY <5>2, TraceRow DEF TraceRows
        <4>3. OpenTold(q)'
          BY <4>1, <4>2, <2>1, <1>2, <1>7 DEF OpenTold, Runs
        <4>4. RowsTold(q)'
          <5>1. root[q].spans \in Nat /\ trace[q].spans <= Len(made'[q])
            BY <2>1, <3>1, TraceRow DEF RootRows, RowsTold
          <5>2. ToSet(trace[q].found) \subseteq ToSet(made'[q])
            BY <2>1, <3>1 DEF RowsTold
          <5>3. root[q].at # "none" => root[q].spans <= Len(made'[q])
            BY <2>1, <3>1, <5>1 DEF RowsTold
          <5>4. answer[q].at = "written" => ToSet(answer[q].row) \subseteq ToSet(made'[q])
            BY <2>1, <3>1 DEF RowsTold
          <5> QED BY <4>1, <2>1, <5>1, <5>2, <5>3, <5>4, <1>2 DEF RowsTold
        <4> QED BY <4>3, <4>4
      <3>3. CASE r # Untraced
        <4>1. r = q
          BY <3>3, <2>3, <1>1
        <4>2. trace'[q] = [trace[q] EXCEPT !.found = Append(@, uid), !.spans = IF StillOpen(q) THEN @ + 1 ELSE @]
          BY <4>1, <3>3, <1>2 DEF TraceSound, TraceTypes
        <4>3. /\ trace'[q].at = trace[q].at /\ trace'[q].found = Append(trace[q].found, uid)
              /\ trace'[q].spans = IF trace[q].at = "open" THEN trace[q].spans + 1 ELSE trace[q].spans
          BY <4>1, <3>3, <4>2 DEF StillOpen, TraceSound, TraceTypes
        <4>4. trace[q].at # "none"
          <5>1. Runs(t) /\ task[t].of = q /\ seen[t] = q
            BY <1>1, <2>3, <4>1 DEF Runs, r, o
          <5> QED BY <5>1, <2>1 DEF OpenTold
        <4>5. OpenTold(q)'
          <5>1. task'[q].at = task[q].at /\ seen' = seen /\ answer' = answer /\ root' = root
            BY <1>2, <1>7, <2>1
          <5>2. \A u \in Tasks : Runs(u)' <=> Runs(u)
            BY <1>7 DEF Runs
          <5>3. trace[q].at \in {"none", "open"} =>
                  trace'[q].found = made'[q] /\ trace'[q].spans = Len(made'[q])
            BY <2>1, <3>1, <4>3, <4>4 DEF OpenTold
          <5> QED BY <2>1, <4>3, <4>4, <5>1, <5>2, <5>3, <1>7 DEF OpenTold
        <4>6. RowsTold(q)'
          <5>1. answer[q].due \in Seq(Uids) /\ root[q].spans \in Nat /\ trace[q].found \in Seq(Uids)
            BY TraceRow DEF TraceRows, AnswerRows, RootRows
          <5>2. answer[q].at # "none" => IsPrefix(answer[q].due, trace'[q].found)
            BY <5>1, <2>1, <4>3, <1>1, PrefixAppended DEF RowsTold
          <5>3. ToSet(trace'[q].found) \subseteq ToSet(made'[q])
            BY <2>1, <2>3, <3>1, <4>3, <1>5 DEF RowsTold
          <5>4. trace'[q].spans <= Len(made'[q])
            BY <2>1, <3>1, <4>3 DEF RowsTold
          <5>5. root[q].at # "none" => root[q].spans <= Len(made'[q])
            BY <2>1, <3>1, <5>1 DEF RowsTold
          <5> QED BY <2>1, <3>1, <4>3, <4>4, <5>2, <5>3, <5>4, <5>5, <1>2 DEF RowsTold
        <4> QED BY <4>5, <4>6
      <3> QED BY <3>2, <3>3
    <2> QED BY <2>2, <2>3
  <1> QED BY <1>6, <1>8, <1>9 DEF TraceSound

LEMMA RecordKeeps ==
    ASSUME TraceSound, NEW r \in Asked, RecordAnswer(r)
    PROVE  TraceSound'
  <1>1. answer'[r] = [answer[r] EXCEPT !.at = "due", !.due = made[r]] /\ answer[r].at = "none"
        /\ trace' = trace /\ seen' = seen /\ task' = task /\ root' = root /\ made' = made
    BY DEF RecordAnswer, TraceSound, TraceTypes
  <1>2. /\ made[r] \in Seq(Uids) /\ r \in Tasks /\ answer[r] \in AnswerRows /\ trace[r].spans \in Nat
        /\ root[r].spans \in Nat /\ Runs(r) /\ seen[r] = r
    BY TraceRow DEF RecordAnswer, TraceRows, RootRows
  <1>3. [answer[r] EXCEPT !.at = "due", !.due = made[r]] \in AnswerRows
    BY <1>2 DEF AnswerRows
  <1>4. TraceTypes'
    BY <1>1, <1>3 DEF RecordAnswer, TraceSound, TraceTypes
  <1>5. trace[r].at = "open" /\ trace[r].found = made[r] /\ root[r].at = "none" /\ root[r].status = "running"
    BY <1>2, TraceRow DEF OpenTold
  <1>6. answer'[r].at = "due" /\ answer'[r].due = made[r]
    BY <1>1, <1>2 DEF AnswerRows
  <1>7. ASSUME NEW q \in Asked
        PROVE  OpenTold(q)' /\ RowsTold(q)'
    <2>1. OpenTold(q) /\ RowsTold(q) /\ q \in Tasks
      BY TraceRow
    <2>2. CASE q = r
      <3>1. task[q].at # "idle"
        BY <1>2, <2>2 DEF Runs
      <3>2. OpenTold(q)'
        BY <1>1, <2>1, <3>1 DEF OpenTold, Runs
      <3>3. IsPrefix(made[r], made[r])
        BY <1>2, PrefixItself
      <3>4. RowsTold(q)'
        BY <1>1, <1>5, <1>6, <2>1, <2>2, <3>3 DEF RowsTold
      <3> QED BY <3>2, <3>4
    <2>3. CASE q # r
      <3>1. answer'[q] = answer[q]
        BY <2>3 DEF RecordAnswer, TraceSound, TraceTypes
      <3>2. OpenTold(q)'
        BY <1>1, <2>1, <3>1, OpenStays DEF Runs
      <3>3. RowsTold(q)'
        BY <1>1, <2>1, <3>1, RowsStay
      <3> QED BY <3>2, <3>3
    <2> QED BY <2>2, <2>3
  <1>8. \A t \in Tasks : TaskTold(t)'
    BY <1>1 DEF TraceSound, TaskTold, Runs
  <1> QED BY <1>4, <1>7, <1>8 DEF TraceSound

\* The end of a request: what the root says is what the trace knew.
LEMMA FinishKeeps ==
    ASSUME TraceSound, NEW r \in Asked, NEW status \in {"success", "failed"}, Runs(r),
           status = "success" => answer[r].at # "none",
           FinishRequest(r, status), answer' = answer, made' = made,
           \/ task' = task
           \/ task' = [task EXCEPT ![r].at = "over"]
    PROVE  TraceSound'
  <1>1. r \in Tasks /\ r # Untraced /\ TaskTold(r) /\ OpenTold(r) /\ RowsTold(r) /\ seen[r] \in {r, Untraced}
    BY TraceRow, TaskRow DEF TaskTold
  <1>2. StillOpen(seen[r]) <=> seen[r] = r
    BY <1>1 DEF StillOpen, OpenTold
  <1>3. /\ \A t \in Tasks \ {r} : task'[t] = task[t]
        /\ task'[r].of = task[r].of /\ task'[r].at \in {"running", "over"}
        /\ task' \in [Tasks -> TaskRows]
    <2>1. [task[r] EXCEPT !.at = "over"] \in TaskRows
      BY <1>1, TaskRow DEF TaskRows
    <2>2. task[r].at = "running" /\ task[r] \in TaskRows
      BY <1>1, TaskRow DEF Runs
    <2>3. CASE task' = task
      BY <1>1, <2>2, <2>3 DEF TraceSound, TraceTypes
    <2>4. CASE task' = [task EXCEPT ![r].at = "over"]
      <3>1. task'[r] = [task[r] EXCEPT !.at = "over"]
        BY <1>1, <2>4 DEF TraceSound, TraceTypes
      <3>2. task'[r].of = task[r].of /\ task'[r].at = "over"
        BY <2>2, <3>1 DEF TaskRows
      <3> QED BY <1>1, <2>1, <2>4, <3>2 DEF TraceSound, TraceTypes
    <2> QED BY <2>3, <2>4
  <1>4. CASE seen[r] # r
    <2>1. trace' = trace /\ root' = root /\ seen' = seen /\ seen[r] = Untraced
      BY <1>1, <1>2, <1>4 DEF FinishRequest
    <2>2. TraceTypes'
      BY <1>3, <2>1 DEF TraceSound, TraceTypes
    <2>3. ASSUME NEW t \in Tasks
          PROVE  Runs(t)' => Runs(t) /\ task'[t].of = task[t].of
      BY <1>3 DEF Runs
    <2>4. ASSUME NEW t \in Tasks
          PROVE  TaskTold(t)'
      BY <2>1, <2>3, TaskRow DEF TaskTold
    <2>5. ASSUME NEW q \in Asked
          PROVE  OpenTold(q)' /\ RowsTold(q)'
      <3>1. OpenTold(q) /\ RowsTold(q) /\ q \in Tasks
        BY TraceRow
      <3>2. RowsTold(q)'
        BY <2>1, <3>1, RowsStay
      <3>3. CASE q = r
        <4>1. trace[q].at \notin {"none", "open"}
          BY <1>1, <2>1, <3>1, <3>3 DEF OpenTold, Runs
        <4>2. task'[q].at # "idle" /\ seen'[q] # q
          BY <1>1, <1>3, <2>1, <3>3
        <4> QED BY <2>1, <3>1, <3>2, <4>1, <4>2 DEF OpenTold
      <3>4. CASE q # r
        <4>1. task'[q] = task[q]
          BY <1>3, <3>1, <3>4
        <4> QED BY <2>1, <2>3, <3>1, <3>2, <4>1, OpenStays
      <3> QED BY <3>3, <3>4
    <2> QED BY <2>2, <2>4, <2>5 DEF TraceSound
  <1>5. CASE seen[r] = r
    <2>1. /\ trace' = [trace EXCEPT ![r].at = "finished"]
          /\ root' = [root EXCEPT ![r].at = "due", ![r].status = status, ![r].spans = trace[r].spans]
          /\ seen' = [seen EXCEPT ![r] = Untraced]
      BY <1>2, <1>5 DEF FinishRequest
    <2>2. trace[r] \in TraceRows /\ root[r] \in RootRows /\ trace[r].spans \in Nat /\ answer[r] \in AnswerRows
      BY TraceRow DEF TraceRows
    <2>3. TraceTypes'
      <3>1. [trace[r] EXCEPT !.at = "finished"] \in TraceRows
        BY <2>2 DEF TraceRows
      <3>2. [root[r] EXCEPT !.at = "due", !.status = status, !.spans = trace[r].spans] \in RootRows
        BY <2>2 DEF RootRows
      <3>3. root'= [root EXCEPT ![r] = [root[r] EXCEPT !.at = "due", !.status = status, !.spans = trace[r].spans]]
        BY <2>1 DEF TraceSound, TraceTypes
      <3>4. trace' \in [Asked -> TraceRows] /\ root' \in [Asked -> RootRows]
        BY <2>1, <3>1, <3>2, <3>3 DEF TraceSound, TraceTypes
      <3> QED BY <1>3, <2>1, <3>4 DEF TraceSound, TraceTypes
    <2>4. /\ trace'[r].at = "finished" /\ trace'[r].found = trace[r].found /\ trace'[r].spans = trace[r].spans
          /\ root'[r].at = "due" /\ root'[r].status = status /\ root'[r].spans = trace[r].spans
          /\ root'[r].rows = root[r].rows /\ seen'[r] = Untraced
      BY <2>1, <2>2, <1>1 DEF TraceSound, TraceTypes, TraceRows, RootRows
    <2>5. ASSUME NEW q \in Asked, q # r
          PROVE  trace'[q] = trace[q] /\ root'[q] = root[q]
      BY <2>1, <2>5 DEF TraceSound, TraceTypes
    <2>6. ASSUME NEW t \in Tasks
          PROVE  /\ Runs(t)' => Runs(t) /\ task'[t].of = task[t].of
                 /\ t # r => seen'[t] = seen[t]
      BY <1>3, <2>1 DEF Runs, TraceSound, TraceTypes
    <2>7. ASSUME NEW t \in Tasks
          PROVE  TaskTold(t)'
      BY <2>4, <2>6, <1>1, TaskRow DEF TaskTold
    <2>8. ASSUME NEW q \in Asked
          PROVE  OpenTold(q)' /\ RowsTold(q)'
      <3>1. OpenTold(q) /\ RowsTold(q) /\ q \in Tasks
        BY TraceRow
      <3>2. CASE q = r
        <4>1. OpenTold(q)'
          BY <1>1, <1>3, <2>4, <3>2 DEF OpenTold
        <4>2. trace[q].at = "open" /\ root[q].rows = 0 /\ trace[q].found = made[q] /\ trace[q].spans = Len(made[q])
          BY <1>5, <3>1, <3>2 DEF OpenTold
        <4>3. /\ answer[q].due \in Seq(Uids) /\ made[q] \in Seq(Uids)
              /\ answer[q].at # "none" => Len(answer[q].due) <= Len(made[q])
          BY <3>1, <4>2, TraceRow DEF AnswerRows, RowsTold, IsPrefix
        <4>4. /\ Len(made[q]) <= Len(made[q])
              /\ answer[q].at # "none" => Len(made[q]) >= Len(answer[q].due)
          BY <4>3
        <4>5. /\ trace'[q].at = "finished" /\ trace'[q].found = made[q] /\ trace'[q].spans = Len(made[q])
              /\ root'[q].spans = Len(made[q]) /\ root'[q].rows = 0 /\ root'[q].status = status
          BY <2>4, <3>2, <4>2
        <4>6. RowsTold(q)'
          BY <3>1, <3>2, <4>2, <4>4, <4>5 DEF RowsTold
        <4> QED BY <4>1, <4>6
      <3>3. CASE q # r
        <4>1. task'[q] = task[q] /\ seen'[q] = seen[q] /\ trace'[q] = trace[q] /\ root'[q] = root[q]
          BY <1>3, <2>5, <2>6, <3>1, <3>3
        <4>2. task[r].of = r
          BY <1>1 DEF TaskTold
        <4>3. OpenTold(q)'
          BY <2>6, <3>1, <3>3, <4>1, <4>2, OpenStays
        <4> QED BY <3>1, <4>1, <4>3, RowsStay
      <3> QED BY <3>2, <3>3
    <2> QED BY <2>3, <2>7, <2>8 DEF TraceSound
  <1> QED BY <1>4, <1>5

LEMMA PersistAnswerKeeps ==
    ASSUME TraceSound, NEW r \in Asked, PersistAnswer(r)
    PROVE  TraceSound'
  <1>1. trace' = trace /\ seen' = seen /\ task' = task /\ root' = root /\ made' = made /\ answer[r].at = "due"
    BY DEF PersistAnswer
  <1>2. /\ answer[r] \in AnswerRows /\ trace[r].found \in Seq(Uids) /\ OpenTold(r) /\ RowsTold(r)
    BY TraceRow DEF TraceRows
  <1> DEFINE new == answer'[r]
  <1>3. /\ \A q \in Asked \ {r} : answer'[q] = answer[q]
        /\ answer' = [answer EXCEPT ![r] = new]
        /\ \/ new = [answer[r] EXCEPT !.at = "written", !.row = trace[r].found]
           \/ new = [answer[r] EXCEPT !.at = "failed"]
    BY DEF PersistAnswer, TraceSound, TraceTypes
  <1> HIDE DEF new
  <1>4. /\ new \in AnswerRows /\ new.at # "none" /\ new.due = answer[r].due
        /\ new.at = "written" => new.row = trace[r].found
    BY <1>2, <1>3 DEF AnswerRows
  <1>5. answer' \in [Asked -> AnswerRows]
    BY <1>3, <1>4 DEF TraceSound, TraceTypes
  <1>6. TraceTypes'
    BY <1>1, <1>5 DEF TraceSound, TraceTypes
  <1>7. ASSUME NEW q \in Asked
        PROVE  OpenTold(q)' /\ RowsTold(q)'
    <2>1. OpenTold(q) /\ RowsTold(q) /\ q \in Tasks
      BY TraceRow
    <2>2. CASE q = r
      <3>1. answer'[q] = new
        BY <2>2 DEF new
      <3>2. task[q].at # "idle"
        BY <1>1, <2>1, <2>2 DEF OpenTold
      <3>3. OpenTold(q)'
        BY <1>1, <2>1, <3>2 DEF OpenTold, Runs
      <3>4. RowsTold(q)'
        BY <1>1, <1>4, <2>1, <2>2, <3>1 DEF RowsTold
      <3> QED BY <3>3, <3>4
    <2>3. CASE q # r
      <3>1. answer'[q] = answer[q]
        BY <1>3, <2>3
      <3>2. OpenTold(q)'
        BY <1>1, <2>1, <3>1, OpenStays DEF Runs
      <3>3. RowsTold(q)'
        BY <1>1, <2>1, <3>1, RowsStay
      <3> QED BY <3>2, <3>3
    <2> QED BY <2>2, <2>3
  <1>8. \A t \in Tasks : TaskTold(t)'
    BY <1>1 DEF TraceSound, TaskTold, Runs
  <1> QED BY <1>6, <1>7, <1>8 DEF TraceSound

LEMMA PersistRootKeeps ==
    ASSUME TraceSound, NEW r \in Asked, PersistRoot(r)
    PROVE  TraceSound'
  <1>1. trace' = trace /\ seen' = seen /\ task' = task /\ answer' = answer /\ made' = made /\ root[r].at = "due"
    BY DEF PersistRoot
  <1>2. root[r] \in RootRows /\ OpenTold(r) /\ RowsTold(r) /\ root[r].rows = 0
    BY <1>1, TraceRow DEF RowsTold
  <1> DEFINE new == root'[r]
  <1>3. PICK n \in {0, 1} : root' = [root EXCEPT ![r].at = "over", ![r].rows = @ + n]
    BY DEF PersistRoot
  <1>4. /\ \A q \in Asked \ {r} : root'[q] = root[q]
        /\ root' = [root EXCEPT ![r] = new]
        /\ new = [root[r] EXCEPT !.at = "over", !.rows = @ + n]
    BY <1>3 DEF TraceSound, TraceTypes
  <1> HIDE DEF new
  <1>5. /\ new \in RootRows /\ new.at = "over" /\ new.spans = root[r].spans /\ new.status = root[r].status
        /\ new.rows <= 1
    <2>1. root[r].rows + n \in Nat /\ root[r].rows + n <= 1
      BY <1>2
    <2> QED BY <1>2, <1>4, <2>1 DEF RootRows
  <1>6. root' \in [Asked -> RootRows]
    BY <1>4, <1>5 DEF TraceSound, TraceTypes
  <1>7. TraceTypes'
    BY <1>1, <1>6 DEF TraceSound, TraceTypes
  <1>8. ASSUME NEW q \in Asked
        PROVE  OpenTold(q)' /\ RowsTold(q)'
    <2>1. OpenTold(q) /\ RowsTold(q) /\ q \in Tasks
      BY TraceRow
    <2>2. CASE q = r
      <3>1. root'[q] = new
        BY <2>2 DEF new
      <3>2. trace[q].at \notin {"none", "open"}
        BY <1>1, <2>1, <2>2 DEF OpenTold
      <3>3. OpenTold(q)'
        BY <1>1, <2>1, <3>2 DEF OpenTold, Runs
      <3>4. RowsTold(q)'
        BY <1>1, <1>5, <2>1, <2>2, <3>1 DEF RowsTold
      <3> QED BY <3>3, <3>4
    <2>3. CASE q # r
      <3>1. root'[q] = root[q]
        BY <1>4, <2>3
      <3>2. OpenTold(q)'
        BY <1>1, <2>1, <3>1, OpenStays DEF Runs
      <3>3. RowsTold(q)'
        BY <1>1, <2>1, <3>1, RowsStay
      <3> QED BY <3>2, <3>3
    <2> QED BY <2>2, <2>3
  <1>9. \A t \in Tasks : TaskTold(t)'
    BY <1>1 DEF TraceSound, TaskTold, Runs
  <1> QED BY <1>7, <1>8, <1>9 DEF TraceSound

\* Every step keeps the invariant.
LEMMA TraceStep == TraceSound /\ [TraceNext]_traceVars => TraceSound'
  <1> SUFFICES ASSUME TraceSound, [TraceNext]_traceVars
               PROVE  TraceSound'
    OBVIOUS
  <1>1. ASSUME NEW r \in Asked, FinishTrace(r)
        PROVE  TraceSound'
    BY <1>1, FinishKeeps DEF FinishTrace
  <1>2. ASSUME NEW r \in Asked, EndMain(r)
        PROVE  TraceSound'
    BY <1>2, FinishKeeps DEF EndMain
  <1>3. CASE UNCHANGED traceVars
    BY <1>3 DEF traceVars, TraceSound, TraceTypes, TaskTold, OpenTold, RowsTold, Runs
  <1> QED BY <1>1, <1>2, <1>3, BeginKeeps, StartTaskKeeps, EndFinderKeeps, SearchKeeps, RecordKeeps,
             PersistAnswerKeeps, PersistRootKeeps DEF TraceNext

\* The row of an answer names every search its trace knew when it was due, the first one first, and none of
\* another request; a request has one root row at most, a success only with an answer, with a span for every
\* search before its end: also with searches in tasks that nobody waits for.
THEOREM AlwaysTold == TraceSpec => []RowsTellRequest
  <1>1. TraceSound => RowsTellRequest
    BY DEF TraceSound, RowsTold, RowsTellRequest
  <1> QED BY <1>1, TraceInitial, TraceStep, PTL DEF TraceSpec
=============================================================================
