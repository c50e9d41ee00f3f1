--------------------------- MODULE ServicesProofs ---------------------------
(***************************************************************************)
(* Proofs about parts that share no state with each other: the key that    *)
(* names an order (OrderCreation), the one probe of a half open breaker    *)
(* (ProbeGate), the pools that are closed last (Lifespan), the account     *)
(* modules: sessions (Sessions), codes sent to phones (SmsCode) and the    *)
(* change of the name (Identity), and the windows that bound how often     *)
(* something is done (RateWindows). Of the account modules, any number of  *)
(* requests that are finitely many at a time.                              *)
(***************************************************************************)
EXTENDS OrderCreation, ProbeGate, Lifespan, RateWindows, Sessions, SmsCode, Identity, SetFacts

-----------------------------------------------------------------------------
(* OrderCreation.                                                          *)

Marks == {"free", "processing"}
Steps == {"idle", "probe", "place", "create", "record", "undo", "answered", "failed"}

CreationTypes ==
    /\ claims \in [IdemKeys -> Calls \cup Marks]
    /\ made \in SUBSET Calls
    /\ call \in [Calls -> [at : Steps, key : IdemKeys \cup {Unasked}]]
    /\ answers \in [IdemKeys -> SUBSET Calls]

\* The calls between the placing of a key and its end: at most one for a key.
Making(c, k) == call[c].key = k /\ call[c].at \in {"create", "record", "undo"}

CallsSound ==
    \A c \in Calls :
        /\ call[c].at \in {"probe", "place"} => call[c].key \in IdemKeys
        /\ call[c].at = "record" => c \in made

\* The key of a call that is making an order is marked, and nobody was answered for it.
KeyBelongs ==
    \A k \in IdemKeys, c \in Calls :
        Making(c, k) =>
            /\ claims[k] = "processing" /\ answers[k] = {}
            /\ \A d \in Calls : Making(d, k) => d = c

\* A key that is free has no answers, and one that names an order has only that one.
KeyAnswers ==
    \A k \in IdemKeys :
        /\ claims[k] = "free" => answers[k] = {}
        /\ claims[k] \in Calls => answers[k] = {claims[k]}
        /\ answers[k] \subseteq made
        /\ \A a, b \in answers[k] : a = b

CreationInductive == CreationTypes /\ CallsSound /\ KeyBelongs /\ KeyAnswers

LEMMA KeyNamesOneFollows == CreationInductive => KeyNamesOneOrder
  <1> SUFFICES ASSUME CreationInductive, NEW k \in IdemKeys
               PROVE  /\ Cardinality(answers[k]) <= 1 /\ answers[k] \subseteq made
                      /\ claims[k] \in Calls => answers[k] = {claims[k]}
                      /\ Cardinality({c \in Calls : call[c].key = k /\ call[c].at \in {"create", "record", "undo"}}) <= 1
    BY DEF KeyNamesOneOrder
  <1>1. Cardinality(answers[k]) <= 1
    BY SoleMember DEF CreationInductive, KeyAnswers
  <1>2. Cardinality({c \in Calls : call[c].key = k /\ call[c].at \in {"create", "record", "undo"}}) <= 1
    <2> DEFINE S == {c \in Calls : call[c].key = k /\ call[c].at \in {"create", "record", "undo"}}
    <2>1. \A a, b \in S : a = b
      BY DEF CreationInductive, KeyBelongs, Making
    <2> QED BY <2>1, SoleMember
  <1> QED BY <1>1, <1>2 DEF CreationInductive, KeyAnswers

LEMMA CreationStarts == CreationInit => CreationInductive
  BY CreationAssumption
  DEF CreationInit, CreationInductive, CreationTypes, CallsSound, KeyBelongs, KeyAnswers, Making, Marks, Steps

LEMMA CreationContinues == CreationInductive /\ [CreationNext]_creationVars => CreationInductive'
  <1> SUFFICES ASSUME CreationInductive, [CreationNext]_creationVars
               PROVE  CreationInductive'
    OBVIOUS
  <1> USE CreationAssumption DEF CreationInductive, CreationTypes, Steps, Marks
  <1>1. ASSUME NEW c \in Calls, AskOrder(c)
        PROVE  CreationInductive'
    BY <1>1 DEF AskOrder, CallsSound, KeyBelongs, KeyAnswers, Making
  <1>2. ASSUME NEW c \in Calls, Probe(c)
        PROVE  CreationInductive'
    <2>1. call[c].key \in IdemKeys /\ call[c].at = "probe"
      BY <1>2 DEF Probe, CallsSound
    <2>2. answers' = answers
      <3>1. CASE claims[call[c].key] \in made
        <4>1. PICK k \in IdemKeys : call[c].key = k
          BY <2>1
        <4>2. answers[k] = {claims[k]} /\ k # Unasked
          BY <3>1, <4>1 DEF KeyAnswers
        <4>3. answers' = [answers EXCEPT ![k] = answers[k] \cup {claims[k]}]
          BY <1>2, <3>1, <4>1, <4>2 DEF Probe, Answered, Holds
        <4> QED BY <4>2, <4>3
      <3>2. CASE claims[call[c].key] \notin made
        BY <1>2, <2>1, <3>2 DEF Probe
      <3> QED BY <3>1, <3>2
    <2>3. CreationTypes'
      BY <1>2, <2>1, <2>2 DEF Probe, At
    <2>4. CallsSound'
      BY <1>2, <2>1 DEF Probe, At, CallsSound
    <2>5. UNCHANGED <<claims, made>> /\ \A d \in Calls, k \in IdemKeys : Making(d, k)' => Making(d, k)
      BY <1>2, <2>1 DEF Probe, At, Making
    <2>6. KeyBelongs'
      BY <2>2, <2>5 DEF KeyBelongs
    <2>7. KeyAnswers'
      BY <2>2, <2>5 DEF KeyAnswers
    <2> QED BY <2>3, <2>4, <2>6, <2>7
  <1>3. ASSUME NEW c \in Calls, Place(c)
        PROVE  CreationInductive'
    <2>1. call[c].key \in IdemKeys /\ call[c].at = "place"
      BY <1>3 DEF Place, CallsSound
    <2>2. CASE claims[call[c].key] # "free"
      <3>1. At(c, "failed") /\ UNCHANGED <<claims, made, answers>>
        BY <1>3, <2>2 DEF Place
      <3>2. CreationTypes' /\ CallsSound'
        BY <2>1, <3>1 DEF At, CallsSound
      <3>3. \A d \in Calls, k \in IdemKeys : Making(d, k)' => Making(d, k)
        BY <2>1, <3>1 DEF At, Making
      <3>4. KeyBelongs' /\ KeyAnswers'
        BY <3>1, <3>3 DEF KeyBelongs, KeyAnswers
      <3> QED BY <3>2, <3>4
    <2>3. CASE claims[call[c].key] = "free"
      <3>1. CreationTypes' /\ CallsSound'
        BY <1>3, <2>1, <2>3 DEF Place, At, CallsSound
      <3>2. KeyBelongs'
        <4>1. /\ claims' = [claims EXCEPT ![call[c].key] = "processing"] /\ answers' = answers
              /\ At(c, "create") \/ At(c, "failed")
          BY <1>3, <2>3 DEF Place
        <4>2. \A d \in Calls, k \in IdemKeys : d # c => (Making(d, k)' <=> Making(d, k))
          BY <4>1 DEF At, Making
        <4>3. \A k \in IdemKeys : Making(c, k)' => k = call[c].key
          BY <2>1, <4>1 DEF At, Making
        <4>4. /\ \A d \in Calls : ~Making(d, call[c].key)
              /\ answers[call[c].key] = {}
          BY <2>1, <2>3 DEF KeyBelongs, KeyAnswers
        <4> QED BY <2>1, <4>1, <4>2, <4>3, <4>4 DEF KeyBelongs
      <3>3. KeyAnswers'
        BY <1>3, <2>1, <2>3 DEF Place, At, KeyAnswers
      <3> QED BY <3>1, <3>2, <3>3
    <2> QED BY <2>2, <2>3
  <1>4. ASSUME NEW c \in Calls, CreateOrder(c)
        PROVE  CreationInductive'
    <2>1. PICK step \in {"record", "undo"} :
             /\ call' = [call EXCEPT ![c].at = step]
             /\ made' \in {made, made \cup {c}}
             /\ step = "record" => made' = made \cup {c}
      BY <1>4 DEF CreateOrder, At
    <2>2. call[c].at = "create" /\ claims' = claims /\ answers' = answers
      BY <1>4 DEF CreateOrder
    <2>3. CreationTypes' /\ CallsSound'
      BY <2>1, <2>2 DEF CallsSound
    <2>4. KeyBelongs'
      BY <2>1, <2>2 DEF KeyBelongs, Making
    <2>5. KeyAnswers'
      BY <2>1, <2>2 DEF KeyAnswers
    <2> QED BY <2>3, <2>4, <2>5
  <1>5. ASSUME NEW c \in Calls, Record(c)
        PROVE  CreationInductive'
    <2>1. call[c].at = "record" /\ c \in made
      BY <1>5 DEF Record, CallsSound
    <2>2. CreationTypes' /\ CallsSound'
      BY <1>5, <2>1 DEF Record, At, Answered, Holds, CallsSound
    <2>3. KeyBelongs'
      BY <1>5, <2>1 DEF Record, At, Answered, Holds, KeyBelongs, Making
    <2>4. KeyAnswers'
      <3>1. CASE ~Holds(c)
        BY <1>5, <3>1 DEF Record, Answered, KeyAnswers
      <3>2. CASE Holds(c)
        <4>1. PICK k \in IdemKeys : call[c].key = k
          BY <3>2 DEF Holds
        <4>2. claims[k] = "processing" /\ answers[k] = {}
          BY <2>1, <4>1 DEF KeyBelongs, Making
        <4>3. answers' = [answers EXCEPT ![k] = {c}]
          BY <1>5, <3>2, <4>1, <4>2 DEF Record, Answered
        <4>4. claims' \in {claims, [claims EXCEPT ![k] = c]} /\ made' = made
          BY <1>5, <3>2, <4>1 DEF Record
        <4> QED BY <2>1, <4>2, <4>3, <4>4 DEF KeyAnswers
      <3> QED BY <3>1, <3>2
    <2> QED BY <2>2, <2>3, <2>4
  <1>6. ASSUME NEW c \in Calls, Undo(c)
        PROVE  CreationInductive'
    <2>1. CreationTypes' /\ CallsSound'
      BY <1>6 DEF Undo, At, Holds, CallsSound
    <2>2. KeyBelongs' /\ KeyAnswers'
      <3>1. CASE claims' = claims
        BY <1>6, <3>1 DEF Undo, At, KeyBelongs, KeyAnswers, Making
      <3>2. CASE Holds(c) /\ claims' = [claims EXCEPT ![call[c].key] = "free"]
        <4>1. PICK k \in IdemKeys : call[c].key = k
          BY <3>2 DEF Holds
        <4>2. Making(c, k)
          BY <1>6, <4>1 DEF Undo, Making
        <4>3. claims[k] = "processing" /\ answers[k] = {} /\ \A d \in Calls : Making(d, k) => d = c
          BY <4>2 DEF KeyBelongs
        <4> QED BY <1>6, <3>2, <4>1, <4>3 DEF Undo, At, KeyBelongs, KeyAnswers, Making
      <3> QED BY <1>6, <3>1, <3>2 DEF Undo
    <2> QED BY <2>1, <2>2
  <1>7. ASSUME NEW c \in Calls, Die(c)
        PROVE  CreationInductive'
    BY <1>7 DEF Die, At, CallsSound, KeyBelongs, KeyAnswers, Making
  <1>8. ASSUME NEW k \in IdemKeys, KeyLapses(k)
        PROVE  CreationInductive'
    BY <1>8 DEF KeyLapses, CallsSound, KeyBelongs, KeyAnswers, Making
  <1>9. CASE UNCHANGED creationVars
    BY <1>9 DEF creationVars, CallsSound, KeyBelongs, KeyAnswers, Making
  <1> QED BY <1>1, <1>2, <1>3, <1>4, <1>5, <1>6, <1>7, <1>8, <1>9 DEF CreationNext

\* Whoever asks with a key while it lives is told of one and the same order, which is in the
\* table, and never do two calls of create_recharge_order make an order for one key.
THEOREM KeyAlwaysNamesOne == CreationSpec => []KeyNamesOneOrder
  BY CreationStarts, CreationContinues, KeyNamesOneFollows, PTL DEF CreationSpec

-----------------------------------------------------------------------------
(* ProbeGate.                                                              *)

GateTypes ==
    /\ gate \in [state : {"closed", "open", "half_open"}, failures : Nat, probing : BOOLEAN, open : Nat]
    /\ inflight = [c \in Underway |-> inflight[c]]
    /\ \A c \in Underway : inflight[c] \in 0 .. CallTimeout

\* Nothing is let into an open breaker: what is under way was there when it opened.
OlderThanTrip == gate.state = "open" => \A c \in Underway : gate.open <= inflight[c]

ProbeAlone ==
    gate.state = "half_open" =>
        /\ \A c, d \in Underway : c = d
        /\ gate.probing <=> Underway # {}

GateInductive == GateTypes /\ OlderThanTrip /\ ProbeAlone

\* When a breaker has been open for its time, every call of before the trip has ended.
LEMMA NoneOutlastsTrip ==
    ASSUME GateInductive, gate.state = "open", gate.open >= RecoverTimeout
    PROVE  Underway = {}
  <1>1. \A c \in Underway : FALSE
    BY GateAssumption DEF GateInductive, GateTypes, OlderThanTrip
  <1> QED BY <1>1

LEMMA OneProbeFollows == GateInductive => OneProbe
  <1> SUFFICES ASSUME GateInductive, gate.state = "half_open"
               PROVE  Cardinality(Underway) <= 1 /\ (gate.probing <=> Underway # {})
    BY DEF OneProbe
  <1>1. Cardinality(Underway) <= 1
    BY SoleMember DEF GateInductive, ProbeAlone
  <1> QED BY <1>1 DEF GateInductive, ProbeAlone

LEMMA GateStarts == GateInit => GateInductive
  BY GateAssumption DEF GateInit, GateInductive, GateTypes, OlderThanTrip, ProbeAlone, Underway

\* What a call finds is the breaker itself, or the half open one that is empty.
LEMMA FoundIsSound ==
    ASSUME GateInductive
    PROVE  /\ Found \in [state : {"closed", "open", "half_open"}, failures : Nat, probing : BOOLEAN, open : Nat]
           /\ Found.state = "half_open" /\ ~Found.probing => Underway = {}
  <1>1. CASE gate.state = "open" /\ gate.open >= RecoverTimeout
    BY <1>1, NoneOutlastsTrip DEF GateInductive, GateTypes, Found
  <1>2. CASE ~(gate.state = "open" /\ gate.open >= RecoverTimeout)
    BY <1>2 DEF GateInductive, GateTypes, ProbeAlone, Found
  <1> QED BY <1>1, <1>2

\* A call that ends leaves the ages of the others.
LEMMA EndsAlone ==
    ASSUME GateInductive, NEW c \in Underway, inflight' = Without(c)
    PROVE  /\ Underway' = Underway \ {c}
           /\ \A d \in Underway' : inflight'[d] = inflight[d]
           /\ inflight' = [d \in Underway' |-> inflight'[d]]
  BY DEF Without, Underway

LEMMA GateContinues == GateInductive /\ [GateNext]_gateVars => GateInductive'
  <1> SUFFICES ASSUME GateInductive, [GateNext]_gateVars
               PROVE  GateInductive'
    OBVIOUS
  <1> USE GateAssumption
  <1>1. ASSUME NEW c \in Callers, Admit(c)
        PROVE  GateInductive'
    <2> DEFINE AsProbe == Found.state = "half_open"
    <2>1. /\ Underway' = Underway \cup {c}
          /\ inflight' = [d \in Underway' |-> IF d = c THEN 0 ELSE inflight[d]]
      BY <1>1 DEF Admit, Underway
    <2>2. /\ gate' = [Found EXCEPT !.probing = AsProbe] /\ AsProbe \in BOOLEAN
          /\ Found.state # "open" /\ (AsProbe => ~Found.probing)
      BY <1>1 DEF Admit
    <2> HIDE DEF AsProbe
    <2>3. gate'.state = Found.state /\ gate'.probing = AsProbe
      BY <2>2, FoundIsSound
    <2>4. GateTypes'
      BY <2>1, <2>2, FoundIsSound DEF GateInductive, GateTypes
    <2>5. OlderThanTrip'
      BY <2>2, <2>3 DEF OlderThanTrip
    <2>6. ProbeAlone'
      BY <2>1, <2>2, <2>3, FoundIsSound DEF ProbeAlone, AsProbe
    <2> QED BY <2>4, <2>5, <2>6 DEF GateInductive
  <1>2. ASSUME NEW c \in Callers, Succeed(c)
        PROVE  GateInductive'
    BY <1>2, EndsAlone DEF Succeed, GateInductive, GateTypes, OlderThanTrip, ProbeAlone
  <1>3. ASSUME NEW c \in Callers, FailCall(c)
        PROVE  GateInductive'
    <2>1. \/ gate' = Tripped
          \/ gate' = [gate EXCEPT !.failures = gate.failures + 1] /\ gate.state # "half_open"
      BY <1>3 DEF FailCall
    <2>2. GateTypes'
      BY <1>3, <2>1, EndsAlone DEF FailCall, Tripped, GateInductive, GateTypes
    <2>3. OlderThanTrip' /\ ProbeAlone'
      BY <1>3, <2>1, EndsAlone DEF FailCall, Tripped, GateInductive, GateTypes, OlderThanTrip, ProbeAlone
    <2> QED BY <2>2, <2>3 DEF GateInductive
  <1>4. ASSUME NEW c \in Callers, Cancel(c)
        PROVE  GateInductive'
    BY <1>4, EndsAlone DEF Cancel, GateInductive, GateTypes, OlderThanTrip, ProbeAlone
  <1>5. CASE Pass
    <2>1. Underway' = Underway /\ \A c \in Underway : inflight'[c] = inflight[c] + 1
      BY <1>5 DEF Pass, Underway
    <2>2. \/ gate' = gate
          \/ gate.state = "open" /\ gate' = [gate EXCEPT !.open = gate.open + 1]
      BY <1>5 DEF Pass, GateInductive, GateTypes
    <2>3. GateTypes'
      BY <1>5, <2>1, <2>2 DEF Pass, GateInductive, GateTypes
    <2>4. OlderThanTrip' /\ ProbeAlone'
      BY <2>1, <2>2 DEF GateInductive, GateTypes, OlderThanTrip, ProbeAlone
    <2> QED BY <2>3, <2>4 DEF GateInductive
  <1>6. CASE UNCHANGED gateVars
    BY <1>6 DEF gateVars, Underway, GateInductive, GateTypes, OlderThanTrip, ProbeAlone
  <1> QED BY <1>1, <1>2, <1>3, <1>4, <1>5, <1>6 DEF GateNext

\* However many calls ask at once, a half open breaker of the reusable class has the one probe
\* in flight that decides whether it closes, and no call of before the trip beside it. It rests
\* on the recovery time being longer than the calls' timeout (GateAssumption).
THEOREM AlwaysOneProbe == GateSpec => []OneProbe
  BY GateStarts, GateContinues, OneProbeFollows, PTL DEF GateSpec

-----------------------------------------------------------------------------
(* Lifespan.                                                               *)

BeforeServing == {"pool", "tables", "redis", "loops"}
AfterDrain == {"closing", "last", "over"}
Stages == BeforeServing \cup {"serving", "refused", "cut", "drain", "draining"} \cup Loops \cup AfterDrain

LifeTypes ==
    /\ appEnv \in {"production", "test"}
    /\ stage \in Stages
    /\ pools \in [pg : {"none", "open", "closed"}, redis : {"none", "open", "closed"}]
    /\ loop \in [Loops -> {"off", "running", "ended", "dead", "deaf"}]
    /\ side \in [SideTasks -> {"none", "running", "written", "lost"}]
    /\ awaited \in SUBSET SideTasks

\* The loops that have been stopped when the process is at a stage.
Behind(s) ==
    CASE s = "payment" -> {"slowq"}
      [] s = "maintenance" -> {"slowq", "payment"}
      [] s = "cdc" -> {"slowq", "payment", "maintenance"}
      [] s \in {"drain", "draining"} \cup AfterDrain -> Loops
      [] OTHER -> {}

LoopsStopped == \A l \in Behind(stage) : loop[l] \in {"off", "ended"}

PoolsOpen ==
    appEnv = "production" =>
        /\ stage \in {"tables", "redis", "loops", "serving", "drain", "draining"} \cup Loops => pools.pg = "open"
        /\ stage \in {"loops", "serving", "drain", "draining"} \cup Loops => pools.redis = "open"

\* A task that the drain waits for runs or has left its row, until the pools are closed.
RowsKept ==
    appEnv = "production" =>
        /\ stage = "draining" => \A t \in awaited : side[t] \in {"running", "written"}
        /\ stage \in AfterDrain => \A t \in awaited \ overdue : side[t] = "written"

LifeInductive == LifeTypes /\ LoopsStopped /\ PoolsOpen /\ RowsKept

LEMMA PoolsGoLastFollows == LifeInductive => PoolsGoLast
  <1> SUFFICES ASSUME LifeInductive
               PROVE  PoolsGoLast
    OBVIOUS
  <1>1. stage \in {"draining", "closing", "last", "over"} => Behind(stage) = Loops
    BY DEF Behind, AfterDrain
  <1> QED BY <1>1 DEF LifeInductive, LoopsStopped, PoolsOpen, RowsKept, PoolsGoLast, AfterDrain

LEMMA LifeStarts == LifeInit => LifeInductive
  BY DEF LifeInit, LifeInductive, LifeTypes, LoopsStopped, PoolsOpen, RowsKept, Behind,
         Stages, BeforeServing, AfterDrain, Loops

LEMMA LifeContinues == LifeInductive /\ [LifeNext]_lifeVars => LifeInductive'
  <1> SUFFICES ASSUME LifeInductive, [LifeNext]_lifeVars
               PROVE  LifeInductive'
    OBVIOUS
  <1> USE DEF LifeInductive, LifeTypes, Stages, BeforeServing, AfterDrain, Loops
  <1>1. CASE InitPool
    BY <1>1 DEF InitPool, Startup, LoopsStopped, PoolsOpen, RowsKept, Behind
  <1>2. CASE InitDb
    BY <1>2 DEF InitDb, Startup, LoopsStopped, PoolsOpen, RowsKept, Behind
  <1>3. CASE InitRedis
    BY <1>3 DEF InitRedis, Startup, LoopsStopped, PoolsOpen, RowsKept, Behind
  <1>4. CASE StartLoops
    BY <1>4 DEF StartLoops, LoopsStopped, PoolsOpen, RowsKept, Behind
  <1>5. ASSUME NEW t \in SideTasks, Spawn(t)
        PROVE  LifeInductive'
    BY <1>5 DEF Spawn, LoopsStopped, PoolsOpen, RowsKept, Behind
  <1>6. ASSUME NEW t \in SideTasks, EndSide(t)
        PROVE  LifeInductive'
    BY <1>6 DEF EndSide, LoopsStopped, PoolsOpen, RowsKept, Behind
  <1>7. CASE CdcDies
    BY <1>7 DEF CdcDies, LoopsStopped, PoolsOpen, RowsKept, Behind
  <1>8. CASE Signal
    BY <1>8 DEF Signal, LoopsStopped, PoolsOpen, RowsKept, Behind
  <1>9. CASE Stop
    BY <1>9 DEF Stop, LoopsStopped, PoolsOpen, RowsKept, Behind
  <1>10. ASSUME NEW l \in Loops, StopLoop(l)
         PROVE  LifeInductive'
    BY <1>10 DEF StopLoop, AfterLoop, LoopsStopped, PoolsOpen, RowsKept, Behind
  <1>11. CASE MissCancel
    BY <1>11 DEF MissCancel, LoopsStopped, PoolsOpen, RowsKept, Behind
  <1>12. CASE BeginDrain
    BY <1>12 DEF BeginDrain, Running, LoopsStopped, PoolsOpen, RowsKept, Behind
  <1>13. CASE CancelRest
    BY <1>13 DEF CancelRest, LoopsStopped, PoolsOpen, RowsKept, Behind
  <1>14. CASE EndDrain
    BY <1>14 DEF EndDrain, Running, LoopsStopped, PoolsOpen, RowsKept, Behind
  <1>15. CASE CloseRedis
    BY <1>15 DEF CloseRedis, LoopsStopped, PoolsOpen, RowsKept, Behind
  <1>16. CASE ClosePool
    BY <1>16 DEF ClosePool, LoopsStopped, PoolsOpen, RowsKept, Behind
  <1>17. CASE UNCHANGED lifeVars
    BY <1>17 DEF lifeVars, LoopsStopped, PoolsOpen, RowsKept, Behind
  <1> QED BY <1>1, <1>2, <1>3, <1>4, <1>5, <1>6, <1>7, <1>8, <1>9, <1>10, <1>11, <1>12, <1>13, <1>14,
             <1>15, <1>16, <1>17 DEF LifeNext

\* A server in production has its pools from the first request until the loops have ended and
\* the drained tasks have had their time; what was running when the drain began and was not
\* cancelled by it has left its row.
THEOREM PoolsAlwaysGoLast == LifeSpec => []PoolsGoLast
  BY LifeStarts, LifeContinues, PoolsGoLastFollows, PTL DEF LifeSpec

-----------------------------------------------------------------------------
(* Sessions: the inductive invariant.                                      *)

WithToken == {"family", "claim", "exchange", "logout"}
SessionSteps == {"idle", "refused", "upgrade", "known", "marked"} \cup WithToken
OpFields ==
    [pc : SessionSteps, tok : 0..MaxRequests, old : Passwords \cup {None}, new : Passwords \cup {None}]
TokenFields == [family : Nat, at : Nat, parent : Nat, late : BOOLEAN]

SessionTypes ==
    /\ SessionsTypeOK /\ op \in [Procs -> OpFields] /\ token \in Seq(TokenFields) /\ ticket \in Nat

\* While the hash is the old one, whoever is to upgrade it checked the password it
\* stands for; a change ends the upgrades that came before it.
PasswordKnown ==
    /\ hash.pw = latest
    /\ \A p \in Procs : /\ op[p].pc = "upgrade" /\ hash.legacy => op[p].old = hash.pw
                        /\ op[p].pc = "marked" => op[p].new # None

\* What a request with a token in its hand relies on: it claimed the token, a logout may
\* have written over the claim, and nothing has been issued for the token.
HolderKnown(p) ==
    /\ op[p].pc \in WithToken => op[p].tok \in DOMAIN token
    /\ op[p].pc \in {"claim", "exchange"} => ~token[op[p].tok].late
    /\ op[p].pc = "exchange" => /\ claim[op[p].tok] \in {p, "1"}
                                /\ \A u \in DOMAIN token : token[u].parent # op[p].tok
    /\ op[p].pc = "logout" => claim[op[p].tok] = "1"

ExchangeAlone ==
    \A p, q \in Procs : op[p].pc = "exchange" /\ op[q].pc = "exchange" /\ op[p].tok = op[q].tok => p = q

\* A token that came late belongs to an ended family; one that was exchanged stays
\* claimed and did not come late.
TokenKnown(u) ==
    /\ token[u].late => token[u].family \in ended
    /\ token[u].parent # 0 => /\ token[u].parent \in DOMAIN token
                              /\ claim[token[u].parent] # None
                              /\ ~token[token[u].parent].late

LeftKnown == \A t \in left : t \in DOMAIN token /\ claim[t] = "1" /\ token[t].family \in ended

TokensKnown ==
    /\ (\A p \in Procs : HolderKnown(p)) /\ ExchangeAlone
    /\ (\A u \in DOMAIN token : TokenKnown(u)) /\ LeftKnown /\ ExchangedOnce

\* Every token was asked for by a request of its own.
Busy == {p \in Procs : op[p].pc # "idle"}
Signed == IF ticket # 0 THEN 1 ELSE 0
Budget == Len(token) + Cardinality(Busy) + Signed <= begun

SessionsSound == SessionTypes /\ PasswordKnown /\ TokensKnown /\ Budget

-----------------------------------------------------------------------------
(* Sessions: the shapes of its steps.                                      *)

\* Request p goes on; the others stay as they are.
OpGoes(p) == op' \in [Procs -> OpFields] /\ \A q \in Procs \ {p} : op'[q] = op[q]

LEMMA SessionFields ==
    ASSUME SessionsSound
    PROVE  /\ hash \in [pw : Passwords, legacy : BOOLEAN] /\ latest \in Passwords /\ active \in BOOLEAN
           /\ now \in 1..(MaxTime + 1) /\ pwdChanged \in 0..now /\ Len(token) <= MaxRequests
           /\ claim \in [Ids -> Procs \cup {None, "1"}] /\ left \subseteq Ids
           /\ fails \in 0..(FailLimit - 1) /\ locked \in BOOLEAN
           /\ begun \in 0..MaxRequests /\ op \in [Procs -> OpFields]
           /\ token \in Seq(TokenFields) /\ ticket \in Nat /\ Len(token) \in Nat
           /\ DOMAIN token = 1..Len(token) /\ DOMAIN token \subseteq Ids
           /\ FailLimit \in Nat \ {0} /\ MaxRequests \in Nat /\ MaxTime \in Nat
  <1>1. token \in Seq(TokenFields)
    BY DEF SessionsSound, SessionTypes
  <1>2. DOMAIN token = 1..Len(token) /\ Len(token) \in Nat
    BY <1>1
  <1>3. Len(token) <= MaxRequests
    BY DEF SessionsSound, SessionTypes, SessionsTypeOK
  <1>4. DOMAIN token \subseteq Ids
    BY <1>2, <1>3, SessionAssumption DEF Ids
  <1> QED BY <1>1, <1>2, <1>3, <1>4, SessionAssumption DEF SessionsSound, SessionTypes, SessionsTypeOK

LEMMA GoesOn ==
    ASSUME SessionsSound, NEW p \in Procs, NEW pc \in SessionSteps, Goes(p, pc)
    PROVE  /\ OpGoes(p) /\ begun' = begun /\ op'[p].pc = pc
           /\ op'[p].tok = op[p].tok /\ op'[p].old = op[p].old /\ op'[p].new = op[p].new
  <1>1. op \in [Procs -> OpFields]
    BY SessionFields
  <1>2. op[p] \in OpFields
    BY <1>1
  <1>3. [op[p] EXCEPT !.pc = pc] \in OpFields
    BY <1>2 DEF OpFields
  <1>4. op' = [op EXCEPT ![p] = [op[p] EXCEPT !.pc = pc]] /\ begun' = begun
    BY <1>1 DEF Goes
  <1>5. op' \in [Procs -> OpFields] /\ op'[p] = [op[p] EXCEPT !.pc = pc] /\ \A q \in Procs \ {p} : op'[q] = op[q]
    BY <1>1, <1>3, <1>4
  <1> QED BY <1>2, <1>4, <1>5 DEF OpGoes, OpFields

LEMMA IdleIs == Idle \in OpFields /\ Idle.pc = "idle"
  BY SessionAssumption DEF Idle, OpFields, SessionSteps

LEMMA DoneEnds ==
    ASSUME SessionsSound, NEW p \in Procs, Done(p)
    PROVE  OpGoes(p) /\ begun' = begun /\ op'[p].pc = "idle"
  <1>1. op \in [Procs -> OpFields]
    BY SessionFields
  <1>2. op' \in [Procs -> OpFields] /\ op'[p] = Idle /\ begun' = begun /\ \A q \in Procs \ {p} : op'[q] = op[q]
    BY <1>1, IdleIs DEF Done
  <1> QED BY <1>2, IdleIs DEF OpGoes

\* A request that checks a password.
LEMMA KnownFields ==
    ASSUME NEW w, NEW n, NEW s, NEW x, x = [Idle EXCEPT !.old = w, !.new = n, !.pc = s]
    PROVE  x = [pc |-> s, tok |-> 0, old |-> w, new |-> n]
  <1> PICK i, z, k : i = "idle" /\ z = 0 /\ k = None
    OBVIOUS
  <1>1. Idle = [pc |-> i, tok |-> z, old |-> k, new |-> k]
    BY DEF Idle
  <1>2. x = [pc |-> s, tok |-> z, old |-> w, new |-> n]
    BY <1>1
  <1> QED BY <1>2

LEMMA TokenInHand ==
    ASSUME NEW t, NEW s, NEW x, x = [Idle EXCEPT !.pc = s, !.tok = t]
    PROVE  x = [pc |-> s, tok |-> t, old |-> None, new |-> None]
  <1> PICK i, z, k : i = "idle" /\ z = 0 /\ k = None
    OBVIOUS
  <1>1. Idle = [pc |-> i, tok |-> z, old |-> k, new |-> k]
    BY DEF Idle
  <1>2. x = [pc |-> s, tok |-> t, old |-> k, new |-> k]
    BY <1>1
  <1> QED BY <1>2

LEMMA Checked ==
    ASSUME SessionsSound, NEW p \in Procs, NEW w \in Passwords, NEW n \in Passwords \cup {None},
           Authenticate(p, w, n)
    PROVE  /\ OpGoes(p) /\ op'[p].pc \in {"idle", "refused", "upgrade", "known"}
           /\ op'[p].pc = "upgrade" => op'[p].old = hash.pw
  <1>1. op \in [Procs -> OpFields]
    BY SessionFields
  <1>2. CASE w = hash.pw /\ active
    <2>1. PICK s \in {"upgrade", "known"} : s = IF hash.legacy THEN "upgrade" ELSE "known"
      OBVIOUS
    <2>2. op' = [op EXCEPT ![p] = [Idle EXCEPT !.old = w, !.new = n, !.pc = s]]
      BY <1>2, <2>1 DEF Authenticate
    <2>3. [Idle EXCEPT !.old = w, !.new = n, !.pc = s] = [pc |-> s, tok |-> 0, old |-> w, new |-> n]
      BY KnownFields
    <2>4. [pc |-> s, tok |-> 0, old |-> w, new |-> n] \in OpFields
      BY SessionAssumption DEF OpFields, SessionSteps
    <2>5. op' = [op EXCEPT ![p] = [pc |-> s, tok |-> 0, old |-> w, new |-> n]]
      BY <2>2, <2>3, Zenon
    <2> QED BY <1>1, <1>2, <2>4, <2>5 DEF OpGoes
  <1>3. CASE ~(w = hash.pw /\ active)
    <2>1. PICK s \in {"idle", "refused"} : s = IF n = None THEN "refused" ELSE "idle"
      OBVIOUS
    <2>2. op' = [op EXCEPT ![p] = [Idle EXCEPT !.pc = s]]
      BY <1>3, <2>1 DEF Authenticate
    <2>3. [Idle EXCEPT !.pc = s] \in OpFields /\ [Idle EXCEPT !.pc = s].pc = s
      BY IdleIs DEF OpFields, SessionSteps
    <2> QED BY <1>1, <2>2, <2>3 DEF OpGoes
  <1> QED BY <1>2, <1>3

LEMMA TokenTaken ==
    ASSUME SessionsSound, NEW p \in Procs, NEW t \in DOMAIN token, NEW s \in WithToken,
           op' = [op EXCEPT ![p] = [Idle EXCEPT !.pc = s, !.tok = t]]
    PROVE  OpGoes(p) /\ op'[p].pc = s /\ op'[p].tok = t
  <1>1. op \in [Procs -> OpFields] /\ t \in 0..MaxRequests
    BY SessionFields DEF Ids
  <1>2. [Idle EXCEPT !.pc = s, !.tok = t] = [pc |-> s, tok |-> t, old |-> None, new |-> None]
    BY TokenInHand
  <1>3. op' = [op EXCEPT ![p] = [pc |-> s, tok |-> t, old |-> None, new |-> None]]
    BY <1>2, Zenon
  <1>4. [pc |-> s, tok |-> t, old |-> None, new |-> None] \in OpFields
    BY <1>1 DEF OpFields, SessionSteps
  <1> QED BY <1>1, <1>3, <1>4 DEF OpGoes

-----------------------------------------------------------------------------
(* Sessions: what the parts of the invariant rest on.                      *)

LEMMA PasswordRests ==
    ASSUME SessionsSound, NEW p \in Procs, OpGoes(p), UNCHANGED <<hash, latest>>,
           op'[p].pc = "upgrade" => op'[p].old = hash.pw, op'[p].pc # "marked"
    PROVE  PasswordKnown'
  BY DEF SessionsSound, PasswordKnown, OpGoes

Busy1(pc) == IF pc # "idle" THEN 1 ELSE 0

LEMMA BusyMoves ==
    ASSUME SessionsSound, NEW p \in Procs, OpGoes(p)
    PROVE  /\ Cardinality(Busy) \in Nat /\ Cardinality(Busy') \in Nat
           /\ Cardinality(Busy') + Busy1(op[p].pc) = Cardinality(Busy) + Busy1(op'[p].pc)
  <1>1. IsFiniteSet(Busy)
    <2>1. Busy \subseteq Procs
      BY DEF Busy
    <2> QED BY <2>1, FS_Subset, RequestsAssumption
  <1>2. Busy' \ {p} = Busy \ {p}
    BY DEF Busy, OpGoes
  <1>3. Among(p, Busy) = Busy1(op[p].pc)
    BY DEF Among, Busy1, Busy
  <1>4. PICK T : T = Busy'
    OBVIOUS
  <1>5. Among(p, T) = Busy1(op'[p].pc)
    BY <1>4 DEF Among, Busy1, Busy
  <1>6. /\ Cardinality(Busy) \in Nat /\ Cardinality(T) \in Nat
        /\ Cardinality(T) + Among(p, Busy) = Cardinality(Busy) + Among(p, T)
    BY <1>1, <1>2, <1>4, OneMoves
  <1> QED BY <1>3, <1>4, <1>5, <1>6

\* A request begins, or one under way goes on or ends.
LEMMA BudgetBegins ==
    ASSUME SessionsSound, NEW p \in Procs, OpGoes(p), Begins(p), UNCHANGED <<token, ticket>>
    PROVE  Budget' /\ begun' \in 0..MaxRequests
  <1>1. /\ Len(token) \in Nat /\ begun \in 0..MaxRequests /\ MaxRequests \in Nat
        /\ Len(token) + Cardinality(Busy) + Signed <= begun
        /\ begun' = begun + 1 /\ begun < MaxRequests /\ op[p].pc = "idle"
    BY SessionFields DEF SessionsSound, Budget, Begins
  <1>2. Signed \in Nat /\ Signed' = Signed
    BY DEF Signed
  <1>3. /\ Cardinality(Busy) \in Nat /\ Cardinality(Busy') \in Nat
        /\ Cardinality(Busy') + Busy1(op[p].pc) = Cardinality(Busy) + Busy1(op'[p].pc)
    BY BusyMoves
  <1>4. Cardinality(Busy') <= Cardinality(Busy) + 1
    BY <1>1, <1>3 DEF Busy1
  <1>5. Len(token') = Len(token)
    OBVIOUS
  <1> QED BY <1>1, <1>2, <1>3, <1>4, <1>5 DEF Budget

LEMMA BudgetGoes ==
    ASSUME SessionsSound, NEW p \in Procs, OpGoes(p), op[p].pc # "idle", UNCHANGED <<token, ticket, begun>>
    PROVE  Budget'
  <1>1. /\ Len(token) \in Nat /\ begun \in 0..MaxRequests /\ MaxRequests \in Nat
        /\ Len(token) + Cardinality(Busy) + Signed <= begun
    BY SessionFields DEF SessionsSound, Budget
  <1>2. Signed \in Nat /\ Signed' = Signed
    BY DEF Signed
  <1>3. /\ Cardinality(Busy) \in Nat /\ Cardinality(Busy') \in Nat
        /\ Cardinality(Busy') + Busy1(op[p].pc) = Cardinality(Busy) + Busy1(op'[p].pc)
    BY BusyMoves
  <1>4. Cardinality(Busy') <= Cardinality(Busy)
    BY <1>3 DEF Busy1
  <1>5. Len(token') = Len(token) /\ begun' = begun
    OBVIOUS
  <1> QED BY <1>1, <1>2, <1>3, <1>4, <1>5 DEF Budget

\* Its token is issued when a request ends.
LEMMA BudgetIssues ==
    ASSUME SessionsSound, NEW p \in Procs, OpGoes(p), op[p].pc # "idle", op'[p].pc = "idle",
           UNCHANGED <<ticket, begun>>, Len(token') = Len(token) + 1
    PROVE  Budget' /\ Len(token') <= MaxRequests
  <1>1. /\ Len(token) \in Nat /\ begun \in 0..MaxRequests /\ MaxRequests \in Nat
        /\ Len(token) + Cardinality(Busy) + Signed <= begun
    BY SessionFields DEF SessionsSound, Budget
  <1>2. Signed \in Nat /\ Signed' = Signed
    BY DEF Signed
  <1>3. /\ Cardinality(Busy) \in Nat /\ Cardinality(Busy') \in Nat
        /\ Cardinality(Busy') + Busy1(op[p].pc) = Cardinality(Busy) + Busy1(op'[p].pc)
    BY BusyMoves
  <1>4. Cardinality(Busy') + 1 = Cardinality(Busy)
    BY <1>3 DEF Busy1
  <1>5. Len(token') = Len(token) + 1 /\ begun' = begun
    OBVIOUS
  <1>6. Len(token') + Cardinality(Busy') + Signed' <= begun'
    BY <1>1, <1>2, <1>3, <1>4, <1>5
  <1> QED BY <1>1, <1>2, <1>3, <1>4, <1>5, <1>6 DEF Budget

LEMMA IssueShape ==
    ASSUME SessionsSound, NEW f \in Nat, NEW parent \in Nat, NEW at \in Nat, Issue(f, parent, at)
    PROVE  /\ token' \in Seq(TokenFields) /\ Len(token') = Len(token) + 1
           /\ DOMAIN token' = DOMAIN token \cup {Len(token) + 1} /\ Len(token) + 1 \notin DOMAIN token
           /\ \A u \in DOMAIN token : token'[u] = token[u]
           /\ token'[Len(token) + 1].parent = parent /\ token'[Len(token) + 1].family = f
           /\ token'[Len(token) + 1].late => f \in ended
  <1> DEFINE b == f \in ended
  <1>0. b \in BOOLEAN /\ (b => f \in ended)
    OBVIOUS
  <1> HIDE DEF b
  <1>1. PICK e : e = [family |-> f, at |-> at, parent |-> parent, late |-> b]
    OBVIOUS
  <1>2. e \in TokenFields /\ e.parent = parent /\ e.family = f /\ (e.late => f \in ended)
    BY <1>0, <1>1 DEF TokenFields
  <1>3. token \in Seq(TokenFields) /\ Len(token) \in Nat /\ DOMAIN token = 1..Len(token)
    BY SessionFields
  <1>4. token' = Append(token, e)
    BY <1>1, Zenon DEF Issue, b
  <1>5. /\ token' \in Seq(TokenFields) /\ Len(token') = Len(token) + 1
        /\ \A u \in 1..Len(token) : token'[u] = token[u]
        /\ token'[Len(token) + 1] = e
    BY <1>2, <1>3, <1>4
  <1>6. DOMAIN token' = 1..(Len(token) + 1)
    BY <1>5
  <1> QED BY <1>2, <1>3, <1>5, <1>6

\* A step that leaves tokens and claims alone, ends no exchange and begins none.
LEMMA TokensRest ==
    ASSUME SessionsSound, NEW p \in Procs, OpGoes(p), UNCHANGED <<token, claim>>,
           ended \subseteq ended', HolderKnown(p)', op'[p].pc # "exchange", LeftKnown'
    PROVE  TokensKnown'
  <1>1. ASSUME NEW q \in Procs \ {p}
        PROVE  HolderKnown(q)'
    BY DEF SessionsSound, TokensKnown, HolderKnown, OpGoes
  <1>2. ExchangeAlone'
    BY DEF SessionsSound, TokensKnown, ExchangeAlone, OpGoes
  <1>3. \A u \in DOMAIN token' : TokenKnown(u)'
    BY DEF SessionsSound, TokensKnown, TokenKnown
  <1>4. ExchangedOnce'
    BY DEF SessionsSound, TokensKnown, ExchangedOnce
  <1> QED BY <1>1, <1>2, <1>3, <1>4 DEF TokensKnown

LEMMA LeftRests ==
    ASSUME SessionsSound, UNCHANGED <<token, claim, left>>, ended \subseteq ended'
    PROVE  LeftKnown'
  BY DEF SessionsSound, TokensKnown, LeftKnown

LEMMA NoToken ==
    ASSUME NEW p \in Procs, op'[p].pc \notin WithToken
    PROVE  HolderKnown(p)'
  BY DEF HolderKnown, WithToken

\* Nothing of the tokens changes.
LEMMA TokensSame ==
    ASSUME SessionsSound, UNCHANGED <<token, black, op>>
    PROVE  TokensKnown'
  BY DEF SessionsSound, TokensKnown, HolderKnown, ExchangeAlone, TokenKnown, LeftKnown, ExchangedOnce, black

\* A token is issued, for none or for one that can be exchanged.
LEMMA TokensIssue ==
    ASSUME SessionsSound, NEW f \in Nat, NEW parent \in Nat, NEW at \in Nat, Issue(f, parent, at),
           UNCHANGED black, \A q \in Procs : op'[q] = op[q] \/ op'[q].pc = "idle",
           parent # 0 => /\ parent \in DOMAIN token /\ claim[parent] # None /\ ~token[parent].late
                         /\ \A u \in DOMAIN token : token[u].parent # parent
                         /\ \A q \in Procs : op'[q].pc = "exchange" => op'[q].tok # parent
    PROVE  TokensKnown'
  <1>1. PICK n \in Nat : n = Len(token) + 1
    BY SessionFields
  <1>2. /\ DOMAIN token' = DOMAIN token \cup {n} /\ n \notin DOMAIN token
        /\ \A u \in DOMAIN token : token'[u] = token[u]
    BY <1>1, IssueShape
  <1>3. token'[n].parent = parent /\ token'[n].family = f /\ (token'[n].late => f \in ended)
    BY <1>1, IssueShape
  <1>4. 0 \notin DOMAIN token
    BY SessionFields
  <1>5. ASSUME NEW q \in Procs
        PROVE  HolderKnown(q)'
    <2>1. CASE op'[q].pc = "idle"
      BY <2>1, NoToken DEF WithToken
    <2>2. CASE op'[q].pc # "idle"
      <3>1. op'[q] = op[q] /\ HolderKnown(q)
        BY <2>2 DEF SessionsSound, TokensKnown
      <3>2. op[q].pc \in WithToken => /\ op[q].tok \in DOMAIN token /\ op[q].tok \in DOMAIN token'
                                      /\ token'[op[q].tok] = token[op[q].tok] /\ op[q].tok # 0
        BY <1>2, <1>4, <3>1 DEF HolderKnown
      <3>3. op[q].pc = "exchange" => \A u \in DOMAIN token' : token'[u].parent # op[q].tok
        BY <1>2, <1>3, <3>1, <3>2 DEF HolderKnown, WithToken
      <3> QED BY <3>1, <3>2, <3>3 DEF HolderKnown, WithToken, black
    <2> QED BY <2>1, <2>2
  <1>6. ExchangeAlone'
    BY DEF SessionsSound, TokensKnown, ExchangeAlone
  <1>7. ASSUME NEW u \in DOMAIN token'
        PROVE  TokenKnown(u)'
    <2>1. CASE u = n
      <3>1. parent # 0 => token'[parent] = token[parent] /\ parent \in DOMAIN token'
        BY <1>2
      <3> QED BY <1>3, <2>1, <3>1 DEF TokenKnown, black
    <2>2. CASE u \in DOMAIN token
      <3>1. TokenKnown(u) /\ token'[u] = token[u]
        BY <1>2, <2>2 DEF SessionsSound, TokensKnown
      <3>2. token[u].parent # 0 => /\ token[u].parent \in DOMAIN token'
                                   /\ token'[token[u].parent] = token[token[u].parent]
        BY <1>2, <3>1 DEF TokenKnown
      <3> QED BY <3>1, <3>2 DEF TokenKnown, black
    <2> QED BY <1>2, <2>1, <2>2
  <1>8. LeftKnown'
    BY <1>2 DEF SessionsSound, TokensKnown, LeftKnown, black
  <1>9. ExchangedOnce'
    BY <1>2, <1>3 DEF SessionsSound, TokensKnown, ExchangedOnce
  <1> QED BY <1>5, <1>6, <1>7, <1>8, <1>9 DEF TokensKnown

-----------------------------------------------------------------------------
(* Sessions: its steps.                                                    *)

LEMMA LoginKeeps ==
    ASSUME SessionsSound, NEW p \in Procs, NEW w \in Passwords, NEW n \in Passwords \cup {None},
           Begins(p), Authenticate(p, w, n),
           UNCHANGED <<account, now, pwdChanged, token, black, login>>
    PROVE  SessionsSound'
  <1>1. OpGoes(p) /\ op'[p].pc \in {"idle", "refused", "upgrade", "known"}
        /\ (op'[p].pc = "upgrade" => op'[p].old = hash.pw)
    BY Checked
  <1>2. PasswordKnown'
    BY <1>1, PasswordRests DEF account
  <1>3. TokensKnown'
    <2>1. HolderKnown(p)' /\ op'[p].pc # "exchange"
      BY <1>1, NoToken DEF WithToken
    <2> QED BY <1>1, <2>1, TokensRest, LeftRests DEF black
  <1>4. Budget' /\ begun' \in 0..MaxRequests
    BY <1>1, BudgetBegins DEF login
  <1>5. SessionTypes'
    BY <1>1, <1>4 DEF SessionsSound, SessionTypes, SessionsTypeOK, OpGoes, OpFields, account, black, login
  <1> QED BY <1>2, <1>3, <1>4, <1>5 DEF SessionsSound

\* A step of a request under way that touches no token.
LEMMA PlainKeeps ==
    ASSUME SessionsSound, NEW p \in Procs, OpGoes(p), op[p].pc # "idle",
           op'[p].pc \in {"idle", "known"},
           UNCHANGED <<account, now, token, black, ticket, begun>>,
           fails' \in 0..(FailLimit - 1), locked' \in BOOLEAN, pwdChanged' \in 0..now
    PROVE  SessionsSound'
  <1>1. PasswordKnown'
    BY PasswordRests DEF account
  <1>2. TokensKnown'
    <2>1. HolderKnown(p)' /\ op'[p].pc # "exchange"
      BY NoToken DEF WithToken
    <2> QED BY <2>1, TokensRest, LeftRests DEF black
  <1>3. Budget'
    BY BudgetGoes
  <1>4. SessionTypes'
    BY DEF SessionsSound, SessionTypes, SessionsTypeOK, OpGoes, OpFields, account, black
  <1> QED BY <1>1, <1>2, <1>3, <1>4 DEF SessionsSound

LEMMA FailureKeeps ==
    ASSUME SessionsSound, NEW p \in Procs, RecordFailure(p)
    PROVE  SessionsSound'
  <1>1. OpGoes(p) /\ op[p].pc # "idle" /\ op'[p].pc = "idle" /\ begun' = begun
    BY DoneEnds DEF RecordFailure
  <1>2. fails' \in 0..(FailLimit - 1) /\ locked' \in BOOLEAN
    <2>1. fails + 1 \in Nat /\ FailLimit \in Nat \ {0} /\ locked \in BOOLEAN
      BY SessionFields
    <2>2. (fails + 1) % FailLimit \in 0..(FailLimit - 1)
      BY <2>1
    <2> QED BY <2>1, <2>2 DEF RecordFailure
  <1>3. pwdChanged' \in 0..now
    BY SessionFields DEF RecordFailure
  <1> QED BY <1>1, <1>2, <1>3, PlainKeeps DEF RecordFailure

LEMMA UpgradeKeeps ==
    ASSUME SessionsSound, NEW p \in Procs, UpgradeLegacyHash(p)
    PROVE  SessionsSound'
  <1>1. /\ OpGoes(p) /\ op[p].pc = "upgrade" /\ op'[p].pc = "known" /\ begun' = begun
        /\ UNCHANGED <<latest, active, now, pwdChanged, token, black, login>>
    BY GoesOn DEF UpgradeLegacyHash, SessionSteps
  <1>2. hash \in [pw : Passwords, legacy : BOOLEAN] /\ latest \in Passwords
    BY SessionFields
  <1> PICK w \in Passwords : w = hash.pw
    BY <1>2
  <1>3. hash' = hash \/ (hash.legacy /\ hash' = [pw |-> w, legacy |-> FALSE])
    <2>1. hash.legacy => op[p].old = w
      BY <1>1 DEF SessionsSound, PasswordKnown
    <2> QED BY <2>1 DEF UpgradeLegacyHash
  <1>4. hash' \in [pw : Passwords, legacy : BOOLEAN] /\ hash'.pw = hash.pw /\ (hash'.legacy => hash.legacy)
    <2>1. CASE hash' = hash
      BY <1>2, <2>1
    <2>2. CASE hash.legacy /\ hash' = [pw |-> w, legacy |-> FALSE]
      <3>1. PICK b \in BOOLEAN : b = FALSE
        OBVIOUS
      <3>2. hash' = [pw |-> w, legacy |-> b]
        BY <2>2, <3>1
      <3>3. hash' \in [pw : Passwords, legacy : BOOLEAN] /\ hash'.pw = w
        BY <3>2
      <3> QED BY <2>2, <3>3
    <2> QED BY <1>3, <2>1, <2>2
  <1>5. PasswordKnown'
    BY <1>1, <1>4 DEF SessionsSound, PasswordKnown, OpGoes
  <1>6. TokensKnown'
    <2>1. HolderKnown(p)' /\ op'[p].pc # "exchange"
      BY <1>1, NoToken DEF WithToken
    <2> QED BY <1>1, <2>1, TokensRest, LeftRests DEF black
  <1>7. Budget'
    BY <1>1, BudgetGoes DEF login
  <1>8. SessionTypes'
    BY <1>1, <1>4 DEF SessionsSound, SessionTypes, SessionsTypeOK, OpGoes, OpFields, black, login
  <1> QED BY <1>5, <1>6, <1>7, <1>8 DEF SessionsSound

LEMMA LogInKeeps ==
    ASSUME SessionsSound, NEW p \in Procs, LogIn(p)
    PROVE  SessionsSound'
  <1>1. /\ OpGoes(p) /\ op[p].pc = "known" /\ op'[p].pc = "idle" /\ begun' = begun /\ fails' = 0
        /\ UNCHANGED <<account, now, pwdChanged, black, locked, ticket>>
    BY DoneEnds DEF LogIn
  <1>2. PICK f \in Nat, z \in Nat, at \in Nat : f = NewFamily /\ z = 0 /\ at = now
    <2>1. NewFamily \in Nat /\ now \in Nat /\ 0 \in Nat
      BY SessionFields DEF NewFamily
    <2> QED BY <2>1, Zenon
  <1>3. Issue(f, z, at)
    BY <1>2 DEF LogIn
  <1>4. token' \in Seq(TokenFields) /\ Len(token') = Len(token) + 1
    BY <1>3, IssueShape
  <1>5. PasswordKnown'
    BY <1>1, PasswordRests DEF account
  <1>6. TokensKnown'
    BY <1>1, <1>2, <1>3, TokensIssue DEF OpGoes
  <1>7. Budget' /\ Len(token') <= MaxRequests
    BY <1>1, <1>4, BudgetIssues
  <1>8. SessionTypes'
    <2>1. 0 \in 0..(FailLimit - 1)
      BY SessionFields
    <2> QED BY <1>1, <1>4, <1>7, <2>1 DEF SessionsSound, SessionTypes, SessionsTypeOK, OpGoes, OpFields, account, black
  <1> QED BY <1>5, <1>6, <1>7, <1>8 DEF SessionsSound

LEMMA MarkKeeps ==
    ASSUME SessionsSound, NEW p \in Procs, Mark(p)
    PROVE  SessionsSound'
  <1>1. op[p].pc = "known" /\ op[p].new # None /\ UNCHANGED <<account, now, token, black, login>>
    BY DEF Mark
  <1>2. CASE pwdChanged' = now /\ Goes(p, "marked")
    <2>1. OpGoes(p) /\ begun' = begun /\ op'[p].pc = "marked" /\ op'[p].new = op[p].new
      BY <1>2, GoesOn DEF SessionSteps
    <2>2. PasswordKnown'
      BY <1>1, <2>1 DEF SessionsSound, PasswordKnown, OpGoes, account
    <2>3. TokensKnown'
      <3>1. HolderKnown(p)' /\ op'[p].pc # "exchange"
        BY <2>1, NoToken DEF WithToken
      <3> QED BY <1>1, <2>1, <3>1, TokensRest, LeftRests DEF black
    <2>4. Budget'
      BY <1>1, <2>1, BudgetGoes DEF login
    <2>5. pwdChanged' \in 0..now
      BY <1>2, SessionFields
    <2>6. SessionTypes'
      BY <1>1, <2>1, <2>5 DEF SessionsSound, SessionTypes, SessionsTypeOK, OpGoes, OpFields, account, black, login
    <2> QED BY <2>2, <2>3, <2>4, <2>6 DEF SessionsSound
  <1>3. CASE UNCHANGED pwdChanged /\ Done(p)
    <2>1. OpGoes(p) /\ begun' = begun /\ op'[p].pc = "idle"
      BY <1>3, DoneEnds
    <2> QED BY <1>1, <1>3, <2>1, SessionFields, PlainKeeps DEF login
  <1> QED BY <1>2, <1>3 DEF Mark

LEMMA StorePasswordKeeps ==
    ASSUME SessionsSound, NEW p \in Procs, StorePassword(p)
    PROVE  SessionsSound'
  <1>1. /\ OpGoes(p) /\ op[p].pc = "marked" /\ op'[p].pc = "idle" /\ begun' = begun
        /\ UNCHANGED <<active, now, pwdChanged, token, black, login>>
    BY DoneEnds DEF StorePassword
  <1>2. PICK w \in Passwords : w = op[p].new
    <2>1. op[p] \in OpFields /\ op[p].new # None
      BY <1>1, SessionFields DEF SessionsSound, PasswordKnown
    <2> QED BY <2>1 DEF OpFields
  <1>3. hash' = [pw |-> w, legacy |-> FALSE] /\ latest' = w
    BY <1>2 DEF StorePassword
  <1>4. hash' \in [pw : Passwords, legacy : BOOLEAN] /\ hash'.pw = w /\ ~hash'.legacy
    BY <1>3
  <1>5. PasswordKnown'
    BY <1>1, <1>3, <1>4 DEF SessionsSound, PasswordKnown, OpGoes
  <1>6. TokensKnown'
    <2>1. HolderKnown(p)' /\ op'[p].pc # "exchange"
      BY <1>1, NoToken DEF WithToken
    <2> QED BY <1>1, <2>1, TokensRest, LeftRests DEF black
  <1>7. Budget'
    BY <1>1, BudgetGoes DEF login
  <1>8. SessionTypes'
    BY <1>1, <1>3, <1>4 DEF SessionsSound, SessionTypes, SessionsTypeOK, OpGoes, OpFields, black, login
  <1> QED BY <1>5, <1>6, <1>7, <1>8 DEF SessionsSound

LEMMA RefreshKeeps ==
    ASSUME SessionsSound, NEW p \in Procs, NEW t \in DOMAIN token, Refresh(p, t)
    PROVE  SessionsSound'
  <1>1. Begins(p) /\ UNCHANGED <<account, now, pwdChanged, token, black, login>>
    BY DEF Refresh
  <1>2. OpGoes(p) /\ op'[p].pc = "family" /\ op'[p].tok = t
    BY TokenTaken DEF Refresh, WithToken
  <1>3. PasswordKnown'
    BY <1>1, <1>2, PasswordRests DEF account
  <1>4. TokensKnown'
    <2>1. HolderKnown(p)' /\ op'[p].pc # "exchange"
      BY <1>1, <1>2 DEF HolderKnown
    <2> QED BY <1>1, <1>2, <2>1, TokensRest, LeftRests DEF black
  <1>5. Budget' /\ begun' \in 0..MaxRequests
    BY <1>1, <1>2, BudgetBegins DEF login
  <1>6. SessionTypes'
    BY <1>1, <1>2, <1>5 DEF SessionsSound, SessionTypes, SessionsTypeOK, OpGoes, OpFields, account, black, login
  <1> QED BY <1>3, <1>4, <1>5, <1>6 DEF SessionsSound

LEMMA FamilyKeeps ==
    ASSUME SessionsSound, NEW p \in Procs, CheckFamily(p)
    PROVE  SessionsSound'
  <1>1. op[p].pc = "family" /\ UNCHANGED <<account, now, pwdChanged, token, black, login>>
    BY DEF CheckFamily
  <1>2. CASE token[op[p].tok].family \in ended /\ Done(p)
    <2>1. OpGoes(p) /\ begun' = begun /\ op'[p].pc = "idle"
      BY <1>2, DoneEnds
    <2> QED BY <1>1, <2>1, SessionFields, PlainKeeps DEF login
  <1>3. CASE token[op[p].tok].family \notin ended /\ Goes(p, "claim")
    <2>1. OpGoes(p) /\ begun' = begun /\ op'[p].pc = "claim" /\ op'[p].tok = op[p].tok
      BY <1>3, GoesOn DEF SessionSteps, WithToken
    <2>2. PasswordKnown'
      BY <1>1, <2>1, PasswordRests DEF account
    <2>3. op[p].tok \in DOMAIN token /\ ~token[op[p].tok].late
      <3>1. op[p].tok \in DOMAIN token
        BY <1>1 DEF SessionsSound, TokensKnown, HolderKnown, WithToken
      <3> QED BY <1>3, <3>1 DEF SessionsSound, TokensKnown, TokenKnown
    <2>4. TokensKnown'
      <3>1. HolderKnown(p)' /\ op'[p].pc # "exchange"
        BY <1>1, <2>1, <2>3 DEF HolderKnown
      <3> QED BY <1>1, <2>1, <3>1, TokensRest, LeftRests DEF black
    <2>5. Budget'
      BY <1>1, <2>1, BudgetGoes DEF login
    <2>6. SessionTypes'
      BY <1>1, <2>1 DEF SessionsSound, SessionTypes, SessionsTypeOK, OpGoes, OpFields, account, black, login
    <2> QED BY <2>2, <2>4, <2>5, <2>6 DEF SessionsSound
  <1> QED BY <1>2, <1>3 DEF CheckFamily

\* A claim is written, or given back, where nobody else exchanges the token and
\* nothing was issued for it; or it is a logout that writes over it.
LEMMA ClaimMoves ==
    ASSUME SessionsSound, NEW p \in Procs, OpGoes(p), NEW t \in DOMAIN token, NEW c \in Procs \cup {None, "1"},
           claim' = [claim EXCEPT ![t] = c], UNCHANGED <<token, ended, left>>,
           c = "1" \/ (/\ claim[t] # "1"
                       /\ \A u \in DOMAIN token : token[u].parent # t
                       /\ \A q \in Procs \ {p} : ~(op[q].pc = "exchange" /\ op[q].tok = t)),
           HolderKnown(p)', op'[p].pc = "exchange" => c = p /\ op'[p].tok = t
    PROVE  TokensKnown' /\ claim' \in [Ids -> Procs \cup {None, "1"}]
  <1>1. claim \in [Ids -> Procs \cup {None, "1"}] /\ t \in Ids
    BY SessionFields
  <1>2. /\ claim' \in [Ids -> Procs \cup {None, "1"}] /\ claim'[t] = c
        /\ \A u \in Ids \ {t} : claim'[u] = claim[u]
    BY <1>1
  <1>3. DOMAIN token \subseteq Ids /\ "1" # None /\ "1" \notin Procs
    BY SessionFields, SessionAssumption
  <1>4. ASSUME NEW q \in Procs \ {p}
        PROVE  HolderKnown(q)'
    <2>1. HolderKnown(q) /\ op'[q] = op[q]
      BY DEF SessionsSound, TokensKnown, OpGoes
    <2>2. op[q].pc \in WithToken => op[q].tok \in Ids
      BY <1>3, <2>1 DEF HolderKnown
    <2> QED BY <1>2, <2>1, <2>2 DEF HolderKnown, WithToken
  <1>5. ExchangeAlone'
    <2>1. ASSUME NEW q \in Procs \ {p}, op'[p].pc = "exchange", op[q].pc = "exchange", op[q].tok = op'[p].tok
          PROVE  FALSE
      BY <1>3, <2>1
    <2> QED BY <2>1 DEF SessionsSound, TokensKnown, ExchangeAlone, OpGoes
  <1>6. ASSUME NEW u \in DOMAIN token'
        PROVE  TokenKnown(u)'
    <2>1. TokenKnown(u) /\ u \in DOMAIN token
      BY DEF SessionsSound, TokensKnown
    <2>2. token[u].parent # 0 => claim'[token[u].parent] # None
      BY <1>2, <1>3, <2>1 DEF TokenKnown
    <2> QED BY <2>1, <2>2 DEF TokenKnown
  <1>7. LeftKnown'
    BY <1>2, <1>3 DEF SessionsSound, TokensKnown, LeftKnown
  <1>8. ExchangedOnce'
    BY DEF SessionsSound, TokensKnown, ExchangedOnce
  <1> QED BY <1>2, <1>4, <1>5, <1>6, <1>7, <1>8 DEF TokensKnown

LEMMA ClaimKeeps ==
    ASSUME SessionsSound, NEW p \in Procs, Claim(p)
    PROVE  SessionsSound'
  <1>1. op[p].pc = "claim" /\ UNCHANGED <<account, now, pwdChanged, token, left, login>>
    BY DEF Claim
  <1>2. op[p].tok \in DOMAIN token /\ ~token[op[p].tok].late
    BY <1>1 DEF SessionsSound, TokensKnown, HolderKnown, WithToken
  <1>3. PICK t \in DOMAIN token : t = op[p].tok
    BY <1>2
  <1>4. CASE claim[t] = None /\ claim' = [claim EXCEPT ![t] = p] /\ UNCHANGED ended /\ Goes(p, "exchange")
    <2>1. OpGoes(p) /\ begun' = begun /\ op'[p].pc = "exchange" /\ op'[p].tok = t
      BY <1>3, <1>4, GoesOn DEF SessionSteps, WithToken
    <2>2. PasswordKnown'
      BY <1>1, <2>1, PasswordRests DEF account
    <2>3. \A u \in DOMAIN token : token[u].parent # t
      <3>1. t # 0
        BY SessionFields
      <3> QED BY <1>4, <3>1 DEF SessionsSound, TokensKnown, TokenKnown
    <2>4. \A q \in Procs \ {p} : ~(op[q].pc = "exchange" /\ op[q].tok = t)
      BY <1>4, RequestsAssumption, SessionAssumption DEF SessionsSound, TokensKnown, HolderKnown
    <2>5. claim[t] # "1" /\ t \in Ids /\ claim'[t] = p
      BY <1>4, SessionFields, SessionAssumption
    <2>6. HolderKnown(p)'
      BY <1>1, <1>2, <1>3, <2>1, <2>3, <2>5 DEF HolderKnown
    <2>7. TokensKnown' /\ claim' \in [Ids -> Procs \cup {None, "1"}]
      BY <1>1, <1>4, <2>1, <2>3, <2>4, <2>5, <2>6, ClaimMoves
    <2>8. Budget'
      BY <1>1, <2>1, BudgetGoes DEF login
    <2>9. SessionTypes'
      BY <1>1, <2>1, <2>7 DEF SessionsSound, SessionTypes, SessionsTypeOK, OpGoes, OpFields, account, login
    <2> QED BY <2>2, <2>7, <2>8, <2>9 DEF SessionsSound
  <1>5. CASE ended' = ended \cup {token[t].family} /\ UNCHANGED claim /\ Done(p)
    <2>1. OpGoes(p) /\ begun' = begun /\ op'[p].pc = "idle"
      BY <1>5, DoneEnds
    <2>2. PasswordKnown'
      BY <1>1, <2>1, PasswordRests DEF account
    <2>3. TokensKnown'
      <3>1. HolderKnown(p)' /\ op'[p].pc # "exchange"
        BY <2>1, NoToken DEF WithToken
      <3> QED BY <1>1, <1>5, <2>1, <3>1, TokensRest, LeftRests
    <2>4. Budget'
      BY <1>1, <2>1, BudgetGoes DEF login
    <2>5. SessionTypes'
      BY <1>1, <1>5, <2>1 DEF SessionsSound, SessionTypes, SessionsTypeOK, OpGoes, OpFields, account, login
    <2> QED BY <2>2, <2>3, <2>4, <2>5 DEF SessionsSound
  <1> QED BY <1>3, <1>4, <1>5 DEF Claim

LEMMA ExchangeKeeps ==
    ASSUME SessionsSound, NEW p \in Procs, Exchange(p)
    PROVE  SessionsSound'
  <1>1. /\ OpGoes(p) /\ op[p].pc = "exchange" /\ op'[p].pc = "idle" /\ begun' = begun
        /\ UNCHANGED <<account, now, pwdChanged, black, login>>
    BY DoneEnds DEF Exchange
  <1>2. /\ op[p].tok \in DOMAIN token /\ ~token[op[p].tok].late /\ claim[op[p].tok] \in {p, "1"}
        /\ \A u \in DOMAIN token : token[u].parent # op[p].tok
    BY <1>1 DEF SessionsSound, TokensKnown, HolderKnown, WithToken
  <1>3. PICK t \in DOMAIN token : t = op[p].tok
    BY <1>2
  <1>4. t \in Nat /\ t # 0 /\ now \in Nat
    BY SessionFields
  <1>5. PICK f \in Nat, at \in Nat : f = token[t].family /\ at = now
    <2>1. token[t] \in TokenFields
      BY SessionFields
    <2> QED BY <1>4, <2>1 DEF TokenFields
  <1>6. Issue(f, t, at)
    BY <1>3, <1>5 DEF Exchange
  <1>7. token' \in Seq(TokenFields) /\ Len(token') = Len(token) + 1
    BY <1>4, <1>6, IssueShape
  <1>8. PasswordKnown'
    BY <1>1, PasswordRests DEF account
  <1>9. TokensKnown'
    <2>1. claim[t] # None
      BY <1>2, <1>3, RequestsAssumption, SessionAssumption
    <2>2. \A q \in Procs : op'[q].pc = "exchange" => op'[q].tok # t
      BY <1>1, <1>3 DEF SessionsSound, TokensKnown, ExchangeAlone, OpGoes
    <2>3. \A q \in Procs : op'[q] = op[q] \/ op'[q].pc = "idle"
      BY <1>1 DEF OpGoes
    <2> QED BY <1>1, <1>2, <1>3, <1>4, <1>6, <2>1, <2>2, <2>3, TokensIssue
  <1>10. Budget' /\ Len(token') <= MaxRequests
    BY <1>1, <1>7, BudgetIssues DEF login
  <1>11. SessionTypes'
    BY <1>1, <1>7, <1>10 DEF SessionsSound, SessionTypes, SessionsTypeOK, OpGoes, OpFields, account, black, login
  <1> QED BY <1>8, <1>9, <1>10, <1>11 DEF SessionsSound

LEMMA ReleaseKeeps ==
    ASSUME SessionsSound, NEW p \in Procs, Release(p)
    PROVE  SessionsSound'
  <1>1. /\ OpGoes(p) /\ op[p].pc = "exchange" /\ op'[p].pc = "idle" /\ begun' = begun
        /\ UNCHANGED <<account, now, pwdChanged, token, ended, left, login>>
    BY DoneEnds DEF Release
  <1>2. /\ op[p].tok \in DOMAIN token /\ claim[op[p].tok] \in {p, "1"}
        /\ \A u \in DOMAIN token : token[u].parent # op[p].tok
    BY <1>1 DEF SessionsSound, TokensKnown, HolderKnown, WithToken
  <1>3. PICK t \in DOMAIN token : t = op[p].tok
    BY <1>2
  <1>4. PICK c \in Procs \cup {None, "1"} : c = IF claim[t] = p THEN None ELSE claim[t]
    BY <1>2, <1>3
  <1>5. claim' = [claim EXCEPT ![t] = c]
    BY <1>3, <1>4 DEF Release
  <1>6. c = "1" \/ claim[t] # "1"
    BY <1>2, <1>3, <1>4, SessionAssumption
  <1>7. \A q \in Procs \ {p} : ~(op[q].pc = "exchange" /\ op[q].tok = t)
    BY <1>1, <1>3 DEF SessionsSound, TokensKnown, ExchangeAlone
  <1>8. PasswordKnown'
    BY <1>1, PasswordRests DEF account
  <1>9. TokensKnown' /\ claim' \in [Ids -> Procs \cup {None, "1"}]
    <2>1. HolderKnown(p)'
      BY <1>1, NoToken DEF WithToken
    <2> QED BY <1>1, <1>2, <1>3, <1>5, <1>6, <1>7, <2>1, ClaimMoves
  <1>10. Budget'
    BY <1>1, BudgetGoes DEF login
  <1>11. SessionTypes'
    BY <1>1, <1>9 DEF SessionsSound, SessionTypes, SessionsTypeOK, OpGoes, OpFields, account, login
  <1> QED BY <1>8, <1>9, <1>10, <1>11 DEF SessionsSound

LEMMA LogoutKeeps ==
    ASSUME SessionsSound, NEW p \in Procs, NEW t \in DOMAIN token, Logout(p, t)
    PROVE  SessionsSound'
  <1>1. Begins(p) /\ UNCHANGED <<account, now, pwdChanged, token, ended, left, login>>
    BY DEF Logout
  <1>2. OpGoes(p) /\ op'[p].pc = "logout" /\ op'[p].tok = t
    BY TokenTaken DEF Logout, WithToken
  <1>3. PICK c \in Procs \cup {None, "1"} : c = "1"
    OBVIOUS
  <1>4. claim' = [claim EXCEPT ![t] = c] /\ claim'[t] = c
    BY <1>3, SessionFields DEF Logout
  <1>5. PasswordKnown'
    BY <1>1, <1>2, PasswordRests DEF account
  <1>6. TokensKnown' /\ claim' \in [Ids -> Procs \cup {None, "1"}]
    <2>1. HolderKnown(p)'
      BY <1>1, <1>2, <1>3, <1>4 DEF HolderKnown
    <2> QED BY <1>1, <1>2, <1>3, <1>4, <2>1, ClaimMoves
  <1>7. Budget' /\ begun' \in 0..MaxRequests
    BY <1>1, <1>2, BudgetBegins DEF login
  <1>8. SessionTypes'
    BY <1>1, <1>2, <1>6, <1>7 DEF SessionsSound, SessionTypes, SessionsTypeOK, OpGoes, OpFields, account, login
  <1> QED BY <1>5, <1>6, <1>7, <1>8 DEF SessionsSound

LEMMA EndKeeps ==
    ASSUME SessionsSound, NEW p \in Procs, EndFamily(p)
    PROVE  SessionsSound'
  <1>1. /\ OpGoes(p) /\ op[p].pc = "logout" /\ op'[p].pc = "idle" /\ begun' = begun
        /\ UNCHANGED <<account, now, pwdChanged, token, claim, login>>
    BY DoneEnds DEF EndFamily
  <1>2. op[p].tok \in DOMAIN token /\ claim[op[p].tok] = "1"
    BY <1>1 DEF SessionsSound, TokensKnown, HolderKnown, WithToken
  <1>3. PICK t \in DOMAIN token : t = op[p].tok
    BY <1>2
  <1>4. \/ ended' = ended \cup {token[t].family} /\ left' = left \cup {t}
        \/ UNCHANGED <<ended, left>>
    BY <1>3 DEF EndFamily
  <1>5. LeftKnown'
    BY <1>1, <1>2, <1>3, <1>4 DEF SessionsSound, TokensKnown, LeftKnown
  <1>6. ended \subseteq ended' /\ left' \subseteq Ids
    BY <1>4, SessionFields
  <1>7. PasswordKnown'
    BY <1>1, PasswordRests DEF account
  <1>8. TokensKnown'
    <2>1. HolderKnown(p)' /\ op'[p].pc # "exchange"
      BY <1>1, NoToken DEF WithToken
    <2> QED BY <1>1, <1>5, <1>6, <2>1, TokensRest
  <1>9. Budget'
    BY <1>1, BudgetGoes DEF login
  <1>10. SessionTypes'
    BY <1>1, <1>6 DEF SessionsSound, SessionTypes, SessionsTypeOK, OpGoes, OpFields, account, login
  <1> QED BY <1>7, <1>8, <1>9, <1>10 DEF SessionsSound

\* A step of no request: the hash, the tokens and the requests stay as they are.
LEMMA PasswordSame ==
    ASSUME SessionsSound, UNCHANGED <<hash, latest, op>>
    PROVE  PasswordKnown'
  BY DEF SessionsSound, PasswordKnown

LEMMA CallbackKeeps ==
    ASSUME SessionsSound, Callback
    PROVE  SessionsSound'
  <1>1. /\ ticket = 0 /\ begun < MaxRequests /\ ticket' = now /\ begun' = begun + 1
        /\ UNCHANGED <<account, now, pwdChanged, token, black, fails, locked, op>>
    BY DEF Callback
  <1>2. PasswordKnown' /\ TokensKnown'
    BY <1>1, PasswordSame, TokensSame DEF account
  <1>3. /\ begun \in 0..MaxRequests /\ MaxRequests \in Nat /\ now \in Nat /\ Len(token) \in Nat
        /\ Len(token) + Cardinality(Busy) + Signed <= begun
    BY SessionFields DEF SessionsSound, Budget
  <1>4. begun' \in 0..MaxRequests /\ ticket' \in Nat
    BY <1>1, <1>3
  <1>5. Budget'
    <2>1. Busy' = Busy /\ Len(token') = Len(token)
      BY <1>1 DEF Busy
    <2>2. Cardinality(Busy) \in Nat
      <3>1. Busy \subseteq Procs
        BY DEF Busy
      <3> QED BY <3>1, FS_Subset, FS_CardinalityType, RequestsAssumption
    <2>3. Signed = 0 /\ Signed' \in {0, 1}
      BY <1>1 DEF Signed
    <2> QED BY <1>1, <1>3, <2>1, <2>2, <2>3 DEF Budget
  <1>6. SessionTypes'
    BY <1>1, <1>4 DEF SessionsSound, SessionTypes, SessionsTypeOK, account, black
  <1> QED BY <1>2, <1>5, <1>6 DEF SessionsSound

LEMMA OauthCodeKeeps ==
    ASSUME SessionsSound, ExchangeCode
    PROVE  SessionsSound'
  <1>1. /\ ticket # 0 /\ ticket' = 0
        /\ UNCHANGED <<account, now, pwdChanged, black, fails, locked, op, begun>>
    BY DEF ExchangeCode
  <1>2. PasswordKnown'
    BY <1>1, PasswordSame DEF account
  <1>3. TokensKnown' /\ token' \in Seq(TokenFields) /\ Len(token') \in {Len(token), Len(token) + 1}
    <2>1. CASE UNCHANGED token
      BY <1>1, <2>1, TokensSame, SessionFields
    <2>2. CASE Issue(NewFamily, 0, ticket)
      <3>1. PICK f \in Nat, z \in Nat, at \in Nat : f = NewFamily /\ z = 0 /\ at = ticket
        <4>1. NewFamily \in Nat /\ ticket \in Nat /\ 0 \in Nat
          BY SessionFields DEF NewFamily
        <4> QED BY <4>1, Zenon
      <3>2. Issue(f, z, at)
        BY <2>2, <3>1
      <3> QED BY <1>1, <3>1, <3>2, IssueShape, TokensIssue
    <2> QED BY <2>1, <2>2 DEF ExchangeCode
  <1>4. Budget' /\ Len(token') <= MaxRequests
    <2>1. /\ begun \in 0..MaxRequests /\ MaxRequests \in Nat /\ Len(token) \in Nat
          /\ Len(token) + Cardinality(Busy) + Signed <= begun
      BY SessionFields DEF SessionsSound, Budget
    <2>2. Busy' = Busy
      BY <1>1 DEF Busy
    <2>3. Cardinality(Busy) \in Nat
      <3>1. Busy \subseteq Procs
        BY DEF Busy
      <3> QED BY <3>1, FS_Subset, FS_CardinalityType, RequestsAssumption
    <2>4. Signed = 1 /\ Signed' = 0
      BY <1>1 DEF Signed
    <2> QED BY <1>1, <1>3, <2>1, <2>2, <2>3, <2>4 DEF Budget
  <1>5. SessionTypes'
    BY <1>1, <1>3, <1>4 DEF SessionsSound, SessionTypes, SessionsTypeOK, account, black
  <1> QED BY <1>2, <1>3, <1>4, <1>5 DEF SessionsSound

\* The clock, the lock of the login, the account's being active.
LEMMA AsideKeeps ==
    ASSUME SessionsSound, UNCHANGED <<hash, latest, pwdChanged, token, black, ticket, op, begun>>,
           active' \in BOOLEAN, now' \in 1..(MaxTime + 1), now <= now',
           fails' \in 0..(FailLimit - 1), locked' \in BOOLEAN
    PROVE  SessionsSound'
  <1>1. PasswordKnown' /\ TokensKnown'
    BY PasswordSame, TokensSame
  <1>2. Budget'
    <2>1. Busy' = Busy /\ Signed' = Signed
      BY DEF Busy, Signed
    <2> QED BY <2>1 DEF SessionsSound, Budget
  <1>3. pwdChanged' \in 0..now'
    BY SessionFields
  <1>4. SessionTypes'
    BY <1>3 DEF SessionsSound, SessionTypes, SessionsTypeOK, black
  <1> QED BY <1>1, <1>2, <1>4 DEF SessionsSound

LEMMA SessionsStart == SessionsInit => SessionsSound
  <1> SUFFICES ASSUME SessionsInit PROVE SessionsSound
    OBVIOUS
  <1>1. op = [p \in Procs |-> Idle] /\ token = <<>> /\ ticket = 0 /\ begun = 0
    BY DEF SessionsInit
  <1>2. \A p \in Procs : op[p].pc = "idle" /\ op[p].tok = 0
    BY <1>1 DEF Idle
  <1>3. SessionTypes
    <2>1. op \in [Procs -> OpFields]
      BY <1>1, IdleIs
    <2>2. \A p \in Procs : op[p].tok \in 0..MaxRequests
      BY <1>2, SessionAssumption
    <2>3. hash \in [pw : Passwords, legacy : BOOLEAN]
      <3>1. PICK b \in BOOLEAN : b = TRUE
        OBVIOUS
      <3>2. hash = [pw |-> FirstPassword, legacy |-> b]
        BY <3>1, Zenon DEF SessionsInit
      <3> QED BY <3>2, SessionAssumption
    <2>4. token \in Seq(TokenFields) /\ Len(token) = 0
      BY <1>1
    <2>5. claim \in [Ids -> Procs \cup {None, "1"}] /\ left \subseteq Ids
      BY DEF SessionsInit
    <2>6. /\ latest = FirstPassword /\ now = 1 /\ pwdChanged = 0 /\ fails = 0
          /\ active = TRUE /\ locked = FALSE
      BY DEF SessionsInit
    <2>7. active \in BOOLEAN /\ locked \in BOOLEAN
      BY <2>6
    <2>8. /\ latest \in Passwords /\ now \in 1..(MaxTime + 1) /\ pwdChanged \in 0..now
          /\ fails \in 0..(FailLimit - 1) /\ begun \in 0..MaxRequests /\ Len(token) <= MaxRequests
          /\ ticket \in Nat
      BY <1>1, <2>4, <2>6, SessionAssumption
    <2> QED BY <2>1, <2>2, <2>3, <2>4, <2>5, <2>7, <2>8 DEF SessionTypes, SessionsTypeOK
  <1>4. PasswordKnown
    BY <1>2 DEF PasswordKnown, SessionsInit
  <1>5. TokensKnown
    <2>1. DOMAIN token = {}
      BY <1>1
    <2> QED BY <1>2, <2>1
          DEF TokensKnown, HolderKnown, WithToken, ExchangeAlone, LeftKnown, ExchangedOnce, SessionsInit
  <1>6. Budget
    <2>1. Busy = {} /\ Len(token) = 0 /\ Signed = 0
      BY <1>1, <1>2 DEF Busy, Signed
    <2> QED BY <1>1, <2>1, FS_EmptySet DEF Budget
  <1> QED BY <1>3, <1>4, <1>5, <1>6 DEF SessionsSound

LEMMA SessionsStep == SessionsSound /\ [SessionsNext]_sessionVars => SessionsSound'
  <1> SUFFICES ASSUME SessionsSound, [SessionsNext]_sessionVars PROVE SessionsSound'
    OBVIOUS
  <1>1. ASSUME NEW p \in Procs, NEW w \in Passwords,
               Login(p, w) \/ \E new \in Passwords : ChangePassword(p, w, new)
        PROVE  SessionsSound'
    <2>1. CASE Login(p, w)
      BY <2>1, LoginKeeps DEF Login
    <2>2. ASSUME NEW new \in Passwords, ChangePassword(p, w, new)
          PROVE  SessionsSound'
      BY <2>2, LoginKeeps DEF ChangePassword
    <2> QED BY <1>1, <2>1, <2>2
  <1>2. ASSUME NEW p \in Procs,
               RecordFailure(p) \/ UpgradeLegacyHash(p) \/ LogIn(p) \/ Mark(p) \/ StorePassword(p)
        PROVE  SessionsSound'
    BY <1>2, FailureKeeps, UpgradeKeeps, LogInKeeps, MarkKeeps, StorePasswordKeeps
  <1>3. ASSUME NEW p \in Procs, NEW t \in DOMAIN token, Refresh(p, t) \/ Logout(p, t)
        PROVE  SessionsSound'
    BY <1>3, RefreshKeeps, LogoutKeeps
  <1>4. ASSUME NEW p \in Procs,
               CheckFamily(p) \/ Claim(p) \/ Exchange(p) \/ Release(p) \/ EndFamily(p)
        PROVE  SessionsSound'
    BY <1>4, FamilyKeeps, ClaimKeeps, ExchangeKeeps, ReleaseKeeps, EndKeeps
  <1>5. CASE Callback \/ ExchangeCode
    BY <1>5, CallbackKeeps, OauthCodeKeeps
  <1>6. CASE LoginLockLapses \/ SetActive \/ Tick \/ UNCHANGED sessionVars
    <2>1. UNCHANGED <<hash, latest, pwdChanged, token, black, ticket, op, begun>>
      BY <1>6 DEF LoginLockLapses, SetActive, Tick, sessionVars, account, login, black
    <2>2. /\ active \in BOOLEAN /\ now \in 1..(MaxTime + 1) /\ now \in Nat /\ fails \in 0..(FailLimit - 1)
          /\ 0 \in 0..(FailLimit - 1) /\ locked \in BOOLEAN /\ MaxTime \in Nat
      BY SessionFields
    <2>3. active' \in BOOLEAN /\ fails' \in 0..(FailLimit - 1) /\ locked' \in BOOLEAN
      BY <1>6, <2>2 DEF LoginLockLapses, SetActive, Tick, sessionVars, account, login
    <2>4. now' \in 1..(MaxTime + 1) /\ now <= now'
      BY <1>6, <2>2 DEF LoginLockLapses, SetActive, Tick, sessionVars, account, login
    <2> QED BY <2>1, <2>3, <2>4, AsideKeeps
  <1> QED BY <1>1, <1>2, <1>3, <1>4, <1>5, <1>6 DEF SessionsNext

\* With any number of requests under way: the last password stays, a token is exchanged
\* once, and what a confirmed logout barred stays barred.
THEOREM SessionsAlwaysHold == SessionsSpec => []SessionsHold
  <1>1. SessionsSound => SessionsHold
    <2> SUFFICES ASSUME SessionsSound PROVE SessionsHold
      OBVIOUS
    <2>1. PasswordIsLast /\ ExchangedOnce
      BY DEF SessionsSound, PasswordKnown, PasswordIsLast, TokensKnown
    <2>2. LogoutSticks
      BY SessionAssumption DEF SessionsSound, TokensKnown, LeftKnown, TokenKnown, LogoutSticks
    <2> QED BY <2>1, <2>2 DEF SessionsHold
  <1> QED BY <1>1, SessionsStart, SessionsStep, PTL DEF SessionsSpec

\* Types; no request is ever short of an identifier for the token it issues.
THEOREM SessionsTypeCorrect == SessionsSpec => []SessionsTypeOK
  <1>1. SessionsSound => SessionsTypeOK
    BY DEF SessionsSound, SessionTypes
  <1> QED BY <1>1, SessionsStart, SessionsStep, PTL DEF SessionsSpec

-----------------------------------------------------------------------------
(* SmsCode: the inductive invariant.                                       *)

\* Past the script of the rate, a request is the only one for its phone.
Sending == {"store", "send", "book", "clean"}
SendSteps == {"idle", "rate"} \cup Sending

CodeTypes ==
    /\ SmsTypeOK /\ sentToday \in Nat /\ guesses \in [Phones -> Nat]
    /\ send \in [Procs -> [pc : SendSteps, phone : Phones \cup {None}, code : 0..MaxCodes]]

\* The minute of a phone stands for the one request that sends to it; until its message
\* is out, nothing is delivered that it could take along.
SenderKnown(p) ==
    /\ send[p].pc # "idle" => send[p].phone \in Phones
    /\ send[p].pc \in Sending => send[p].phone \in minute
    /\ send[p].pc \in {"send", "clean"} => delivered[send[p].phone] = 0

SendAlone ==
    \A p, q \in Procs :
        send[p].pc \in Sending /\ send[q].pc \in Sending /\ send[p].phone = send[q].phone => p = q

\* Messages that have yet to go out, and those out and not counted.
Early == {p \in Procs : send[p].pc \in {"rate", "store", "send"}}
Booking == {p \in Procs : send[p].pc = "book"}

\* As long as the day has room, only the uncounted messages exceed its count; and
\* whoever is to send was let in while it had.
DayKnown ==
    /\ day < DayLimit => sentToday <= day + Cardinality(Booking)
    /\ sentToday + Cardinality(Early) < DayLimit + Cardinality(Procs)

\* The count of attempts is that of the wrong guesses until it bars the phone.
GuessesKnown ==
    \A f \in Phones : guesses[f] <= AttemptLimit /\ (f \notin barred => guesses[f] <= attempts[f])

CodesSound ==
    /\ CodeTypes /\ (\A p \in Procs : SenderKnown(p)) /\ SendAlone
    /\ DayKnown /\ GuessesKnown /\ DeliveredCodeWorks

-----------------------------------------------------------------------------
(* SmsCode: counting.                                                      *)

SendType == [Procs -> [pc : SendSteps, phone : Phones \cup {None}, code : 0..MaxCodes]]

\* Request p goes to a step.
SendGoes(p, pc) ==
    /\ send' \in SendType /\ send'[p].pc = pc /\ (\A q \in Procs \ {p} : send'[q] = send[q])

Early1(pc) == IF pc \in {"rate", "store", "send"} THEN 1 ELSE 0
Booking1(pc) == IF pc = "book" THEN 1 ELSE 0

LEMMA SendCounts ==
    ASSUME NEW p \in Procs, NEW pc, SendGoes(p, pc)
    PROVE  /\ Cardinality(Early) \in Nat /\ Cardinality(Booking) \in Nat /\ Cardinality(Procs) \in Nat
           /\ Cardinality(Early') \in Nat /\ Cardinality(Booking') \in Nat
           /\ Cardinality(Early) + Cardinality(Booking) <= Cardinality(Procs)
           /\ Cardinality(Early') + Cardinality(Booking') <= Cardinality(Procs)
           /\ Cardinality(Early') + Early1(send[p].pc) = Cardinality(Early) + Early1(pc)
           /\ Cardinality(Booking') + Booking1(send[p].pc) = Cardinality(Booking) + Booking1(pc)
  <1>1. IsFiniteSet(Procs)
    BY RequestsAssumption
  <1>2. Early \subseteq Procs /\ Booking \subseteq Procs /\ Early \cap Booking = {}
    BY DEF Early, Booking
  <1>3. IsFiniteSet(Early) /\ IsFiniteSet(Booking)
    BY <1>1, <1>2, FS_Subset
  <1>4. Early' \ {p} = Early \ {p} /\ Booking' \ {p} = Booking \ {p}
    BY DEF Early, Booking, SendGoes
  <1>5. /\ Among(p, Early) = Early1(send[p].pc) /\ Among(p, Early') = Early1(pc)
        /\ Among(p, Booking) = Booking1(send[p].pc) /\ Among(p, Booking') = Booking1(pc)
    BY DEF Among, Early1, Booking1, Early, Booking, SendGoes
  <1>6. /\ Cardinality(Early) \in Nat /\ Cardinality(Early') \in Nat
        /\ Cardinality(Early') + Among(p, Early) = Cardinality(Early) + Among(p, Early')
    BY <1>3, <1>4, OneMoves
  <1>7. /\ Cardinality(Booking) \in Nat /\ Cardinality(Booking') \in Nat
        /\ Cardinality(Booking') + Among(p, Booking) = Cardinality(Booking) + Among(p, Booking')
    BY <1>3, <1>4, OneMoves
  <1>8. Cardinality(Early) + Cardinality(Booking) <= Cardinality(Procs) /\ Cardinality(Procs) \in Nat
    BY <1>1, <1>2, TwoKinds, FS_CardinalityType
  <1>9. Cardinality(Early') + Cardinality(Booking') <= Cardinality(Procs)
    <2>1. Early' \subseteq Procs /\ Booking' \subseteq Procs /\ Early' \cap Booking' = {}
      BY DEF Early, Booking
    <2> QED BY <1>1, <2>1, TwoKinds
  <1> QED BY <1>5, <1>6, <1>7, <1>8, <1>9

-----------------------------------------------------------------------------
(* SmsCode: requests that send.                                            *)

\* The step of a request leaves the others what they rely on.
LEMMA OthersSend ==
    ASSUME CodesSound, NEW p \in Procs, NEW pc, SendGoes(p, pc), minute \subseteq minute',
           \A f \in Phones : delivered'[f] # 0 =>
               delivered[f] # 0 \/ (f = send[p].phone /\ send[p].pc \in Sending),
           pc \in Sending =>
               send'[p].phone = send[p].phone /\ (send[p].pc \in Sending \/ send[p].phone \notin minute),
           SenderKnown(p)'
    PROVE  (\A q \in Procs : SenderKnown(q)') /\ SendAlone'
  <1>1. ASSUME NEW q \in Procs \ {p}
        PROVE  SenderKnown(q)'
    <2>1. send'[q] = send[q] /\ SenderKnown(q)
      BY DEF SendGoes, CodesSound
    <2>2. CASE send[q].pc \in {"send", "clean"}
      <3>1. send[q].pc \in Sending /\ send[q].phone \in Phones /\ delivered[send[q].phone] = 0
        BY <2>1, <2>2 DEF SenderKnown, Sending
      <3>2. ~(send[q].phone = send[p].phone /\ send[p].pc \in Sending)
        BY <3>1 DEF CodesSound, SendAlone
      <3> QED BY <2>1, <3>1, <3>2 DEF SenderKnown
    <2>3. CASE send[q].pc \notin {"send", "clean"}
      BY <2>1, <2>3 DEF SenderKnown
    <2> QED BY <2>2, <2>3
  <1>2. ASSUME NEW q \in Procs \ {p}, pc \in Sending, send[q].pc \in Sending
        PROVE  send'[p].phone # send[q].phone
    <2>1. send[q].phone \in minute
      BY <1>2 DEF CodesSound, SenderKnown
    <2> QED BY <1>2, <2>1 DEF CodesSound, SendAlone
  <1>3. SendAlone'
    BY <1>2 DEF SendAlone, SendGoes, CodesSound
  <1> QED BY <1>1, <1>3

\* The typing of the variables that an action leaves alone.
LEMMA CodeFields ==
    ASSUME CodesSound
    PROVE  /\ minute \subseteq Phones /\ hour \in [Phones -> 0..HourLimit] /\ day \in 0..DayLimit
           /\ code \in [Phones -> 0..MaxCodes] /\ delivered \in [Phones -> 0..MaxCodes]
           /\ attempts \in [Phones -> 0..(AttemptLimit - 1)] /\ barred \subseteq Phones
           /\ drawn \in 0..MaxCodes /\ sentToday \in Nat /\ guesses \in [Phones -> Nat]
           /\ send \in SendType /\ DayLimit \in Nat \ {0} /\ HourLimit \in Nat \ {0}
           /\ AttemptLimit \in Nat \ {0} /\ MaxCodes \in Nat \ {0}
  BY SmsAssumption DEF CodesSound, CodeTypes, SmsTypeOK, SendType

\* SendsOn and SendsNoMore.
LEMMA SendsOnGoes ==
    ASSUME CodesSound, NEW p \in Procs, NEW pc \in SendSteps, SendsOn(p, pc)
    PROVE  SendGoes(p, pc) /\ send'[p].phone = send[p].phone
  <1>1. send \in SendType
    BY CodeFields
  <1>2. send[p] \in [pc : SendSteps, phone : Phones \cup {None}, code : 0..MaxCodes]
    BY <1>1 DEF SendType
  <1>3. [send[p] EXCEPT !.pc = pc] \in [pc : SendSteps, phone : Phones \cup {None}, code : 0..MaxCodes]
    BY <1>2
  <1>4. send' = [send EXCEPT ![p] = [send[p] EXCEPT !.pc = pc]]
    BY <1>1 DEF SendsOn, SendType
  <1>5. send' \in SendType /\ send'[p] = [send[p] EXCEPT !.pc = pc] /\ \A q \in Procs \ {p} : send'[q] = send[q]
    BY <1>1, <1>3, <1>4 DEF SendType
  <1> QED BY <1>2, <1>5 DEF SendGoes

LEMMA SendsNoMoreGoes ==
    ASSUME CodesSound, NEW p \in Procs, SendsNoMore(p)
    PROVE  SendGoes(p, "idle")
  <1>1. send \in SendType /\ MaxCodes \in Nat
    BY CodeFields
  <1>2. Unsent \in [pc : SendSteps, phone : Phones \cup {None}, code : 0..MaxCodes] /\ Unsent.pc = "idle"
    BY <1>1 DEF Unsent, SendSteps
  <1>3. send' \in SendType /\ send'[p] = Unsent /\ \A q \in Procs \ {p} : send'[q] = send[q]
    BY <1>1, <1>2 DEF SendType, SendsNoMore
  <1> QED BY <1>2, <1>3 DEF SendGoes

\* A step by which the address gets no message and none is counted keeps the bound of
\* the day; asking needs room in it.
LEMMA DayRests ==
    ASSUME CodesSound, NEW p \in Procs, NEW pc \in SendSteps, SendGoes(p, pc), UNCHANGED <<day, sentToday>>,
           send[p].pc # "book", pc # "book",
           send[p].pc \in {"rate", "store", "send"} \/ pc \notin {"rate", "store", "send"} \/ day < DayLimit
    PROVE  DayKnown'
  <1>1. /\ day < DayLimit => sentToday <= day + Cardinality(Booking)
        /\ sentToday + Cardinality(Early) < DayLimit + Cardinality(Procs)
        /\ day \in Nat /\ sentToday \in Nat /\ DayLimit \in Nat
    BY CodeFields DEF CodesSound, DayKnown
  <1>2. /\ Cardinality(Early) \in Nat /\ Cardinality(Booking) \in Nat /\ Cardinality(Procs) \in Nat
        /\ Cardinality(Early') \in Nat /\ Cardinality(Booking') \in Nat
        /\ Cardinality(Early') + Cardinality(Booking') <= Cardinality(Procs)
        /\ Cardinality(Early') + Early1(send[p].pc) = Cardinality(Early) + Early1(pc)
        /\ Cardinality(Booking') + Booking1(send[p].pc) = Cardinality(Booking) + Booking1(pc)
    BY SendCounts
  <1>3. Booking' = Booking
    BY DEF Booking, SendGoes
  <1>4. Cardinality(Early') <= Cardinality(Early) \/ (day < DayLimit /\ Cardinality(Early') <= Cardinality(Early) + 1)
    BY <1>2 DEF Early1
  <1>5. CASE Cardinality(Early') <= Cardinality(Early)
    BY <1>1, <1>2, <1>3, <1>5 DEF DayKnown
  <1>6. CASE day < DayLimit /\ Cardinality(Early') <= Cardinality(Early) + 1
    BY <1>1, <1>2, <1>3, <1>6 DEF DayKnown
  <1> QED BY <1>4, <1>5, <1>6

LEMMA AskKeeps ==
    ASSUME CodesSound, NEW p \in Procs, NEW f \in Phones, AskCode(p, f)
    PROVE  CodesSound'
  <1>1. /\ send \in SendType /\ MaxCodes \in Nat /\ send[p].pc = "idle" /\ day < DayLimit
        /\ send' = [send EXCEPT ![p] = [pc |-> "rate", phone |-> f, code |-> 0]]
        /\ UNCHANGED <<limits, checks, drawn, sentToday>>
    BY CodeFields DEF AskCode, Headroom
  <1>2. [pc |-> "rate", phone |-> f, code |-> 0] \in [pc : SendSteps, phone : Phones \cup {None}, code : 0..MaxCodes]
    BY <1>1 DEF SendSteps
  <1>3. SendGoes(p, "rate") /\ send'[p].phone = f
    BY <1>1, <1>2 DEF SendGoes, SendType
  <1>4. SenderKnown(p)'
    BY <1>3 DEF SenderKnown, SendGoes, Sending
  <1>5. (\A q \in Procs : SenderKnown(q)') /\ SendAlone'
    BY <1>1, <1>3, <1>4, OthersSend DEF limits, checks, Sending
  <1>6. DayKnown'
    BY <1>1, <1>3, DayRests DEF SendSteps, limits
  <1>7. CodeTypes'
    BY <1>1, <1>3 DEF CodesSound, CodeTypes, SmsTypeOK, limits, checks, SendGoes, SendType
  <1> QED BY <1>1, <1>5, <1>6, <1>7 DEF CodesSound, GuessesKnown, DeliveredCodeWorks, checks

LEMMA RateKeeps ==
    ASSUME CodesSound, NEW p \in Procs, CheckRate(p)
    PROVE  CodesSound'
  <1>1. /\ send[p].pc = "rate" /\ UNCHANGED <<day, checks, drawn, sentToday>>
        /\ send[p].phone \in Phones
    BY DEF CheckRate, CodesSound, SenderKnown
  <1>2. PICK f \in Phones : f = send[p].phone
    BY <1>1
  <1>3. CASE /\ Sendable(f) /\ hour' = [hour EXCEPT ![f] = @ + 1] /\ minute' = minute \cup {f}
             /\ SendsOn(p, "store")
    <2>1. SendGoes(p, "store") /\ send'[p].phone = f
      BY <1>2, <1>3, SendsOnGoes DEF SendSteps, Sending
    <2>2. SenderKnown(p)'
      BY <1>3, <2>1 DEF SenderKnown, SendGoes
    <2>3. (\A q \in Procs : SenderKnown(q)') /\ SendAlone'
      BY <1>1, <1>2, <1>3, <2>1, <2>2, OthersSend DEF checks, Sendable
    <2>4. DayKnown'
      BY <1>1, <2>1, DayRests DEF SendSteps, Sending
    <2>5. hour' \in [Phones -> 0..HourLimit]
      <3>1. hour \in [Phones -> 0..HourLimit] /\ HourLimit \in Nat /\ hour[f] < HourLimit
        BY <1>3, CodeFields DEF Sendable
      <3>2. hour[f] + 1 \in 0..HourLimit
        BY <3>1
      <3> QED BY <1>3, <3>1, <3>2
    <2>6. CodeTypes'
      BY <1>1, <1>3, <2>1, <2>5 DEF CodesSound, CodeTypes, SmsTypeOK, checks, SendGoes, SendType
    <2> QED BY <1>1, <2>3, <2>4, <2>6 DEF CodesSound, GuessesKnown, DeliveredCodeWorks, checks
  <1>4. CASE SendsNoMore(p) /\ UNCHANGED <<hour, minute>>
    <2>1. SendGoes(p, "idle")
      BY <1>4, SendsNoMoreGoes
    <2>2. SenderKnown(p)'
      BY <2>1 DEF SenderKnown, SendGoes, Sending
    <2>3. (\A q \in Procs : SenderKnown(q)') /\ SendAlone'
      BY <1>1, <1>4, <2>1, <2>2, OthersSend DEF checks, Sending
    <2>4. DayKnown'
      BY <1>1, <2>1, DayRests DEF SendSteps
    <2>5. CodeTypes'
      BY <1>1, <1>4, <2>1 DEF CodesSound, CodeTypes, SmsTypeOK, checks, SendGoes, SendType
    <2> QED BY <1>1, <2>3, <2>4, <2>5 DEF CodesSound, GuessesKnown, DeliveredCodeWorks, checks
  <1> QED BY <1>2, <1>3, <1>4 DEF CheckRate

\* A request with a code of its own in hand.
LEMMA CodeFieldsOf ==
    ASSUME NEW y, y \in [pc : SendSteps, phone : Phones \cup {None}, code : 0..MaxCodes],
           NEW st, NEW d, NEW x, x = [y EXCEPT !.pc = st, !.code = d]
    PROVE  x = [pc |-> st, phone |-> y.phone, code |-> d]
  <1> PICK a, b, c : a = y.pc /\ b = y.phone /\ c = y.code
    OBVIOUS
  <1>1. y = [pc |-> a, phone |-> b, code |-> c]
    OBVIOUS
  <1>2. x = [pc |-> st, phone |-> b, code |-> d]
    BY <1>1
  <1> QED BY <1>1, <1>2

LEMMA StoreKeeps ==
    ASSUME CodesSound, NEW p \in Procs, StoreCode(p)
    PROVE  CodesSound'
  <1>1. /\ send[p].pc = "store" /\ UNCHANGED <<limits, attempts, barred, guesses, sentToday>>
        /\ send[p].phone \in Phones /\ send[p].phone \in minute
        /\ drawn < MaxCodes /\ drawn' = drawn + 1
        /\ send' = [send EXCEPT ![p].pc = "send", ![p].code = drawn + 1]
    BY DEF StoreCode, CodesSound, SenderKnown, Sending
  <1>2. PICK f \in Phones : f = send[p].phone
    BY <1>1
  <1>3. PICK d \in 0..MaxCodes : d = drawn + 1
    BY <1>1, CodeFields
  <1>4. code' = [code EXCEPT ![f] = d] /\ delivered' = [delivered EXCEPT ![f] = 0]
    BY <1>2, <1>3 DEF StoreCode
  <1>5. SendGoes(p, "send") /\ send'[p].phone = f
    <2>1. send \in SendType
      BY CodeFields
    <2>2. send[p] \in [pc : SendSteps, phone : Phones \cup {None}, code : 0..MaxCodes]
      BY <2>1 DEF SendType
    <2>3. send' = [send EXCEPT ![p] = [send[p] EXCEPT !.pc = "send", !.code = d]]
      BY <1>1, <1>3, <2>1 DEF SendType
    <2>4. [send[p] EXCEPT !.pc = "send", !.code = d] = [pc |-> "send", phone |-> f, code |-> d]
      BY <1>2, <2>2, CodeFieldsOf
    <2>5. [pc |-> "send", phone |-> f, code |-> d] \in [pc : SendSteps, phone : Phones \cup {None}, code : 0..MaxCodes]
      BY DEF SendSteps, Sending
    <2> QED BY <2>1, <2>3, <2>4, <2>5 DEF SendGoes, SendType
  <1>6. delivered'[f] = 0 /\ \A g \in Phones : delivered'[g] # 0 => delivered[g] # 0
    BY <1>4, CodeFields
  <1>7. SenderKnown(p)'
    BY <1>1, <1>2, <1>5, <1>6 DEF SenderKnown, SendGoes, Sending, limits
  <1>8. (\A q \in Procs : SenderKnown(q)') /\ SendAlone'
    BY <1>1, <1>2, <1>5, <1>6, <1>7, OthersSend DEF limits, Sending
  <1>9. DayKnown'
    BY <1>1, <1>5, DayRests DEF SendSteps, Sending, limits
  <1>10. code' \in [Phones -> 0..MaxCodes] /\ delivered' \in [Phones -> 0..MaxCodes]
    <2>1. 0 \in 0..MaxCodes /\ code \in [Phones -> 0..MaxCodes] /\ delivered \in [Phones -> 0..MaxCodes]
      BY CodeFields
    <2> QED BY <1>4, <2>1
  <1>11. CodeTypes'
    BY <1>1, <1>3, <1>5, <1>10 DEF CodesSound, CodeTypes, SmsTypeOK, limits, SendGoes, SendType
  <1>12. DeliveredCodeWorks'
    BY <1>4, CodeFields DEF CodesSound, DeliveredCodeWorks
  <1> QED BY <1>1, <1>8, <1>9, <1>11, <1>12 DEF CodesSound, GuessesKnown

LEMMA SendKeeps ==
    ASSUME CodesSound, NEW p \in Procs, SendMessage(p)
    PROVE  CodesSound'
  <1>1. /\ send[p].pc = "send" /\ UNCHANGED <<limits, code, attempts, barred, guesses, drawn>>
        /\ send[p].phone \in Phones /\ send[p].phone \in minute
        /\ delivered[send[p].phone] = 0
    BY DEF SendMessage, CodesSound, SenderKnown, Sending
  <1>2. PICK f \in Phones : f = send[p].phone
    BY <1>1
  <1>3. CASE /\ delivered' = [delivered EXCEPT ![f] = IF code[f] = send[p].code THEN code[f] ELSE @]
             /\ sentToday' = sentToday + 1 /\ SendsOn(p, "book")
    <2>1. SendGoes(p, "book") /\ send'[p].phone = f
      BY <1>2, <1>3, SendsOnGoes DEF SendSteps, Sending
    <2>2. /\ delivered \in [Phones -> 0..MaxCodes] /\ code \in [Phones -> 0..MaxCodes]
          /\ day \in Nat /\ sentToday \in Nat /\ DayLimit \in Nat
      BY CodeFields
    <2>3. /\ delivered' \in [Phones -> 0..MaxCodes] /\ delivered'[f] \in {code[f], delivered[f]}
          /\ \A g \in Phones \ {f} : delivered'[g] = delivered[g]
      BY <1>3, <2>2
    <2>4. SenderKnown(p)'
      BY <1>1, <1>2, <2>1 DEF SenderKnown, SendGoes, limits
    <2>5. (\A q \in Procs : SenderKnown(q)') /\ SendAlone'
      BY <1>1, <1>2, <2>1, <2>3, <2>4, OthersSend DEF limits, Sending
    <2>6. DayKnown'
      <3>1. /\ day < DayLimit => sentToday <= day + Cardinality(Booking)
            /\ sentToday + Cardinality(Early) < DayLimit + Cardinality(Procs)
        BY DEF CodesSound, DayKnown
      <3>2. /\ Cardinality(Early) \in Nat /\ Cardinality(Booking) \in Nat /\ Cardinality(Procs) \in Nat
            /\ Cardinality(Early') \in Nat /\ Cardinality(Booking') \in Nat
            /\ Cardinality(Early') + Early1(send[p].pc) = Cardinality(Early) + Early1("book")
            /\ Cardinality(Booking') + Booking1(send[p].pc) = Cardinality(Booking) + Booking1("book")
        BY <2>1, SendCounts
      <3>3. Cardinality(Early') + 1 = Cardinality(Early) /\ Cardinality(Booking') = Cardinality(Booking) + 1
        BY <1>1, <3>2 DEF Early1, Booking1
      <3>4. day' = day /\ sentToday' = sentToday + 1
        BY <1>1, <1>3 DEF limits
      <3> QED BY <2>2, <3>1, <3>2, <3>3, <3>4 DEF DayKnown
    <2>7. CodeTypes'
      <3>1. sentToday' \in Nat
        BY <1>3, <2>2
      <3> QED BY <1>1, <2>1, <2>3, <3>1 DEF CodesSound, CodeTypes, SmsTypeOK, limits, SendGoes, SendType
    <2>8. DeliveredCodeWorks'
      BY <1>1, <2>3 DEF CodesSound, DeliveredCodeWorks
    <2> QED BY <1>1, <2>5, <2>6, <2>7, <2>8 DEF CodesSound, GuessesKnown
  <1>4. CASE SendsOn(p, "clean") /\ UNCHANGED <<delivered, sentToday>>
    <2>1. SendGoes(p, "clean") /\ send'[p].phone = f
      BY <1>2, <1>4, SendsOnGoes DEF SendSteps, Sending
    <2>2. SenderKnown(p)'
      BY <1>1, <1>2, <1>4, <2>1 DEF SenderKnown, SendGoes, limits, Sending
    <2>3. (\A q \in Procs : SenderKnown(q)') /\ SendAlone'
      BY <1>1, <1>2, <1>4, <2>1, <2>2, OthersSend DEF limits, Sending
    <2>4. DayKnown'
      BY <1>1, <1>4, <2>1, DayRests DEF SendSteps, limits, Sending
    <2>5. CodeTypes'
      BY <1>1, <1>4, <2>1 DEF CodesSound, CodeTypes, SmsTypeOK, limits, SendGoes, SendType
    <2> QED BY <1>1, <1>4, <2>3, <2>4, <2>5 DEF CodesSound, GuessesKnown, DeliveredCodeWorks
  <1> QED BY <1>2, <1>3, <1>4 DEF SendMessage

LEMMA BookKeeps ==
    ASSUME CodesSound, NEW p \in Procs, BookDay(p)
    PROVE  CodesSound'
  <1>1. /\ send[p].pc = "book" /\ UNCHANGED <<minute, hour, checks, drawn, sentToday>>
        /\ day' = IF day < DayLimit THEN day + 1 ELSE day
    BY DEF BookDay
  <1>2. SendGoes(p, "idle")
    BY SendsNoMoreGoes DEF BookDay
  <1>3. SenderKnown(p)'
    BY <1>2 DEF SenderKnown, SendGoes, Sending
  <1>4. (\A q \in Procs : SenderKnown(q)') /\ SendAlone'
    BY <1>1, <1>2, <1>3, OthersSend DEF checks, Sending
  <1>5. day \in 0..DayLimit /\ sentToday \in Nat /\ DayLimit \in Nat
    BY CodeFields
  <1>6. DayKnown'
    <2>1. /\ day < DayLimit => sentToday <= day + Cardinality(Booking)
          /\ sentToday + Cardinality(Early) < DayLimit + Cardinality(Procs)
      BY DEF CodesSound, DayKnown
    <2>2. /\ Cardinality(Early) \in Nat /\ Cardinality(Booking) \in Nat /\ Cardinality(Procs) \in Nat
          /\ Cardinality(Early') \in Nat /\ Cardinality(Booking') \in Nat
          /\ Cardinality(Early') + Early1(send[p].pc) = Cardinality(Early) + Early1("idle")
          /\ Cardinality(Booking') + Booking1(send[p].pc) = Cardinality(Booking) + Booking1("idle")
      BY <1>2, SendCounts
    <2>3. Cardinality(Early') = Cardinality(Early) /\ Cardinality(Booking') + 1 = Cardinality(Booking)
      BY <1>1, <2>2 DEF Early1, Booking1
    <2>4. sentToday' = sentToday
      BY <1>1
    <2>5. CASE day < DayLimit
      <3>1. day' = day + 1
        BY <1>1, <2>5
      <3> QED BY <1>5, <2>1, <2>2, <2>3, <2>4, <2>5, <3>1 DEF DayKnown
    <2>6. CASE ~(day < DayLimit)
      <3>1. day' = day
        BY <1>1, <2>6
      <3> QED BY <1>5, <2>1, <2>2, <2>3, <2>4, <2>6, <3>1 DEF DayKnown
    <2> QED BY <2>5, <2>6
  <1>7. CodeTypes'
    <2>1. day' \in 0..DayLimit
      BY <1>1, <1>5
    <2> QED BY <1>1, <1>2, <2>1 DEF CodesSound, CodeTypes, SmsTypeOK, checks, SendGoes, SendType
  <1> QED BY <1>1, <1>4, <1>6, <1>7 DEF CodesSound, GuessesKnown, DeliveredCodeWorks, checks

LEMMA DropKeeps ==
    ASSUME CodesSound, NEW p \in Procs, DropCode(p)
    PROVE  CodesSound'
  <1>1. /\ send[p].pc = "clean" /\ send[p].phone \in Phones /\ delivered[send[p].phone] = 0
        /\ UNCHANGED <<limits, attempts, barred, delivered, guesses, drawn, sentToday>>
    BY DEF DropCode, CodesSound, SenderKnown
  <1>2. PICK f \in Phones : f = send[p].phone
    BY <1>1
  <1>3. code' = [code EXCEPT ![f] = 0]
    BY <1>2 DEF DropCode
  <1>4. SendGoes(p, "idle")
    BY SendsNoMoreGoes DEF DropCode
  <1>5. SenderKnown(p)'
    BY <1>4 DEF SenderKnown, SendGoes, Sending
  <1>6. (\A q \in Procs : SenderKnown(q)') /\ SendAlone'
    BY <1>1, <1>4, <1>5, OthersSend DEF limits, Sending
  <1>7. DayKnown'
    BY <1>1, <1>4, DayRests DEF SendSteps, limits
  <1>8. code \in [Phones -> 0..MaxCodes] /\ 0 \in 0..MaxCodes
    BY CodeFields
  <1>9. code' \in [Phones -> 0..MaxCodes] /\ \A g \in Phones \ {f} : code'[g] = code[g]
    BY <1>3, <1>8
  <1>10. CodeTypes'
    BY <1>1, <1>4, <1>9 DEF CodesSound, CodeTypes, SmsTypeOK, limits, SendGoes, SendType
  <1>11. DeliveredCodeWorks'
    BY <1>1, <1>2, <1>9 DEF CodesSound, DeliveredCodeWorks
  <1> QED BY <1>1, <1>6, <1>7, <1>10, <1>11 DEF CodesSound, GuessesKnown

-----------------------------------------------------------------------------
(* SmsCode: guesses and keys that lapse.                                   *)

\* A step that touches no request, releases only phones nobody sends to and takes no
\* delivery for new keeps what the requests rely on.
LEMMA RequestsRest ==
    ASSUME CodesSound, UNCHANGED send,
           \A p \in Procs : send[p].pc \in Sending /\ send[p].phone \in minute => send[p].phone \in minute',
           \A f \in Phones : delivered[f] = 0 => delivered'[f] = 0
    PROVE  (\A q \in Procs : SenderKnown(q)') /\ SendAlone'
  <1>1. ASSUME NEW q \in Procs
        PROVE  SenderKnown(q)'
    <2>1. SenderKnown(q) /\ send'[q] = send[q]
      BY DEF CodesSound
    <2>2. send[q].pc \in {"send", "clean"} => send[q].phone \in Phones
      BY <2>1 DEF SenderKnown
    <2> QED BY <2>1, <2>2 DEF SenderKnown
  <1> QED BY <1>1 DEF CodesSound, SendAlone

LEMMA DayStays ==
    ASSUME CodesSound, UNCHANGED <<send, day, sentToday>>
    PROVE  DayKnown'
  <1>1. Early' = Early /\ Booking' = Booking
    BY DEF Early, Booking
  <1> QED BY <1>1 DEF CodesSound, DayKnown

LEMMA VerifyKeeps ==
    ASSUME CodesSound, NEW f \in Phones, NEW g, VerifyCode(f, g)
    PROVE  CodesSound'
  <1>1. f \notin barred /\ code[f] # 0 /\ UNCHANGED <<limits, drawn, sentToday, send>>
    BY DEF VerifyCode
  <1>2. DayKnown'
    BY <1>1, DayStays DEF limits
  <1>3. /\ code \in [Phones -> 0..MaxCodes] /\ delivered \in [Phones -> 0..MaxCodes]
        /\ attempts \in [Phones -> 0..(AttemptLimit - 1)] /\ barred \subseteq Phones
        /\ guesses \in [Phones -> Nat] /\ AttemptLimit \in Nat \ {0}
        /\ 0 \in 0..MaxCodes /\ 0 \in 0..(AttemptLimit - 1) /\ 0 \in Nat
    BY CodeFields
  <1>4. CASE /\ code' = [code EXCEPT ![f] = 0] /\ attempts' = [attempts EXCEPT ![f] = 0]
             /\ delivered' = [delivered EXCEPT ![f] = 0]
             /\ guesses' = [guesses EXCEPT ![f] = 0]
             /\ UNCHANGED barred
    <2>1. /\ code' \in [Phones -> 0..MaxCodes] /\ delivered' \in [Phones -> 0..MaxCodes]
          /\ attempts' \in [Phones -> 0..(AttemptLimit - 1)] /\ guesses' \in [Phones -> Nat]
          /\ code'[f] = 0 /\ delivered'[f] = 0 /\ attempts'[f] = 0 /\ guesses'[f] = 0
          /\ \A h \in Phones \ {f} : /\ code'[h] = code[h] /\ delivered'[h] = delivered[h]
                                     /\ attempts'[h] = attempts[h] /\ guesses'[h] = guesses[h]
      BY <1>3, <1>4
    <2>2. (\A q \in Procs : SenderKnown(q)') /\ SendAlone'
      BY <1>1, <2>1, RequestsRest DEF limits
    <2>3. CodeTypes'
      BY <1>1, <1>4, <2>1 DEF CodesSound, CodeTypes, SmsTypeOK, limits
    <2>4. GuessesKnown'
      BY <1>3, <1>4, <2>1 DEF CodesSound, GuessesKnown
    <2>5. DeliveredCodeWorks'
      BY <2>1 DEF CodesSound, DeliveredCodeWorks
    <2> QED BY <1>2, <2>2, <2>3, <2>4, <2>5 DEF CodesSound
  <1>5. CASE Miss(f) /\ guesses' = [guesses EXCEPT ![f] = @ + 1] /\ UNCHANGED <<code, delivered>>
    <2>1. attempts' = [attempts EXCEPT ![f] = (attempts[f] + 1) % AttemptLimit]
      BY <1>5 DEF Miss
    <2>2. PICK n \in 0..(AttemptLimit - 1) : n = (attempts[f] + 1) % AttemptLimit
      <3>1. attempts[f] + 1 \in Nat
        BY <1>3
      <3> QED BY <1>3, <3>1
    <2>3. attempts[f] + 1 < AttemptLimit => n = attempts[f] + 1
      BY <1>3, <2>2
    <2>4. guesses[f] + 1 \in Nat
      BY <1>3
    <2>5. /\ attempts' \in [Phones -> 0..(AttemptLimit - 1)] /\ guesses' \in [Phones -> Nat]
          /\ attempts'[f] = n /\ guesses'[f] = guesses[f] + 1
          /\ \A h \in Phones \ {f} : attempts'[h] = attempts[h] /\ guesses'[h] = guesses[h]
      BY <1>3, <1>5, <2>1, <2>2, <2>4
    <2>6. (\A q \in Procs : SenderKnown(q)') /\ SendAlone'
      BY <1>1, <1>5, RequestsRest DEF limits
    <2>7. barred' \subseteq Phones
      BY <1>3, <1>5 DEF Miss
    <2>8. CodeTypes'
      BY <1>1, <1>5, <2>5, <2>7 DEF CodesSound, CodeTypes, SmsTypeOK, limits
    <2>9. guesses[f] <= attempts[f]
      BY <1>1 DEF CodesSound, GuessesKnown
    <2>10. guesses'[f] <= AttemptLimit /\ (f \notin barred' => guesses'[f] <= attempts'[f])
      <3>1. f \notin barred' => attempts[f] + 1 < AttemptLimit
        BY <1>3, <1>5 DEF Miss
      <3> QED BY <1>3, <2>3, <2>5, <2>9, <3>1
    <2>11. \A h \in Phones \ {f} : h \notin barred' => h \notin barred
      BY <1>5 DEF Miss
    <2>12. GuessesKnown'
      BY <2>5, <2>10, <2>11 DEF CodesSound, GuessesKnown
    <2> QED BY <1>2, <1>5, <2>6, <2>8, <2>12 DEF CodesSound, DeliveredCodeWorks
  <1> QED BY <1>4, <1>5 DEF VerifyCode

LEMMA MinuteKeeps ==
    ASSUME CodesSound, NEW f \in Phones, MinuteLapses(f)
    PROVE  CodesSound'
  <1>1. /\ minute' = minute \ {f} /\ UNCHANGED <<hour, day, checks, drawn, sentToday, send>>
        /\ \A p \in Procs : send[p].pc \in {"idle", "rate"} \/ send[p].phone # f
    BY DEF MinuteLapses
  <1>2. (\A q \in Procs : SenderKnown(q)') /\ SendAlone'
    BY <1>1, RequestsRest DEF checks, Sending
  <1>3. DayKnown'
    BY <1>1, DayStays
  <1>4. CodeTypes'
    BY <1>1 DEF CodesSound, CodeTypes, SmsTypeOK, checks
  <1> QED BY <1>1, <1>2, <1>3, <1>4 DEF CodesSound, GuessesKnown, DeliveredCodeWorks, checks

LEMMA HourKeeps ==
    ASSUME CodesSound, NEW f \in Phones, HourLapses(f)
    PROVE  CodesSound'
  <1>1. hour' = [hour EXCEPT ![f] = 0] /\ UNCHANGED <<minute, day, checks, drawn, sentToday, send>>
    BY DEF HourLapses
  <1>2. (\A q \in Procs : SenderKnown(q)') /\ SendAlone'
    BY <1>1, RequestsRest DEF checks
  <1>3. DayKnown'
    BY <1>1, DayStays
  <1>4. hour' \in [Phones -> 0..HourLimit]
    <2>1. hour \in [Phones -> 0..HourLimit] /\ 0 \in 0..HourLimit
      BY CodeFields
    <2> QED BY <1>1, <2>1
  <1>5. CodeTypes'
    BY <1>1, <1>4 DEF CodesSound, CodeTypes, SmsTypeOK, checks
  <1> QED BY <1>1, <1>2, <1>3, <1>5 DEF CodesSound, GuessesKnown, DeliveredCodeWorks, checks

LEMMA DayKeeps ==
    ASSUME CodesSound, DayLapses
    PROVE  CodesSound'
  <1>1. /\ day' = 0 /\ sentToday' = 0 /\ UNCHANGED <<minute, hour, checks, drawn, send>>
        /\ \A p \in Procs : send[p].pc = "idle"
    BY DEF DayLapses
  <1>2. (\A q \in Procs : SenderKnown(q)') /\ SendAlone'
    BY <1>1, RequestsRest DEF checks
  <1>3. DayKnown'
    <2>1. Early' = {} /\ Booking' = {}
      BY <1>1 DEF Early, Booking
    <2>2. Cardinality({}) = 0 /\ Cardinality(Procs) \in Nat /\ DayLimit \in Nat \ {0}
      BY FS_EmptySet, FS_CardinalityType, RequestsAssumption, CodeFields
    <2> QED BY <1>1, <2>1, <2>2 DEF DayKnown
  <1>4. CodeTypes'
    <2>1. 0 \in 0..DayLimit /\ 0 \in Nat
      BY CodeFields
    <2> QED BY <1>1, <2>1 DEF CodesSound, CodeTypes, SmsTypeOK, checks
  <1> QED BY <1>1, <1>2, <1>3, <1>4 DEF CodesSound, GuessesKnown, DeliveredCodeWorks, checks

LEMMA CodeKeeps ==
    ASSUME CodesSound, NEW f \in Phones, CodeLapses(f)
    PROVE  CodesSound'
  <1>1. /\ code' = [code EXCEPT ![f] = 0] /\ delivered' = [delivered EXCEPT ![f] = 0]
        /\ UNCHANGED <<limits, attempts, barred, guesses, drawn, sentToday, send>>
    BY DEF CodeLapses
  <1>2. /\ code \in [Phones -> 0..MaxCodes] /\ delivered \in [Phones -> 0..MaxCodes] /\ 0 \in 0..MaxCodes
    BY CodeFields
  <1>3. /\ code' \in [Phones -> 0..MaxCodes] /\ delivered' \in [Phones -> 0..MaxCodes]
        /\ delivered'[f] = 0
        /\ \A h \in Phones \ {f} : code'[h] = code[h] /\ delivered'[h] = delivered[h]
    BY <1>1, <1>2
  <1>4. (\A q \in Procs : SenderKnown(q)') /\ SendAlone'
    BY <1>1, <1>3, RequestsRest DEF limits
  <1>5. DayKnown'
    BY <1>1, DayStays DEF limits
  <1>6. CodeTypes'
    BY <1>1, <1>3 DEF CodesSound, CodeTypes, SmsTypeOK, limits
  <1>7. DeliveredCodeWorks'
    BY <1>3 DEF CodesSound, DeliveredCodeWorks
  <1> QED BY <1>1, <1>4, <1>5, <1>6, <1>7 DEF CodesSound, GuessesKnown

LEMMA BarKeeps ==
    ASSUME CodesSound, NEW f \in Phones, BarLapses(f)
    PROVE  CodesSound'
  <1>1. /\ barred' = barred \ {f}
        /\ attempts' = [attempts EXCEPT ![f] = 0] /\ guesses' = [guesses EXCEPT ![f] = 0]
        /\ UNCHANGED <<limits, code, delivered, drawn, sentToday, send>>
    BY DEF BarLapses
  <1>2. /\ attempts \in [Phones -> 0..(AttemptLimit - 1)] /\ guesses \in [Phones -> Nat]
        /\ 0 \in 0..(AttemptLimit - 1) /\ 0 \in Nat /\ AttemptLimit \in Nat /\ barred \subseteq Phones
    BY CodeFields
  <1>3. /\ attempts' \in [Phones -> 0..(AttemptLimit - 1)] /\ guesses' \in [Phones -> Nat]
        /\ attempts'[f] = 0 /\ guesses'[f] = 0
        /\ \A h \in Phones \ {f} : attempts'[h] = attempts[h] /\ guesses'[h] = guesses[h]
    BY <1>1, <1>2
  <1>4. (\A q \in Procs : SenderKnown(q)') /\ SendAlone'
    BY <1>1, RequestsRest DEF limits
  <1>5. DayKnown'
    BY <1>1, DayStays DEF limits
  <1>6. CodeTypes'
    BY <1>1, <1>2, <1>3 DEF CodesSound, CodeTypes, SmsTypeOK, limits
  <1>7. GuessesKnown'
    BY <1>1, <1>2, <1>3 DEF CodesSound, GuessesKnown
  <1> QED BY <1>1, <1>4, <1>5, <1>6, <1>7 DEF CodesSound, DeliveredCodeWorks

LEMMA CodesStart == SmsInit => CodesSound
  <1> SUFFICES ASSUME SmsInit PROVE CodesSound
    OBVIOUS
  <1>1. DayLimit \in Nat \ {0} /\ AttemptLimit \in Nat \ {0} /\ MaxCodes \in Nat /\ HourLimit \in Nat
    BY SmsAssumption
  <1>2. send = [p \in Procs |-> Unsent]
    BY DEF SmsInit
  <1>3. CodeTypes
    <2>1. Unsent \in [pc : SendSteps, phone : Phones \cup {None}, code : 0..MaxCodes]
      BY <1>1 DEF Unsent, SendSteps
    <2>2. send \in [Procs -> [pc : SendSteps, phone : Phones \cup {None}, code : 0..MaxCodes]]
      BY <1>2, <2>1
    <2> QED BY <1>1, <2>2 DEF CodeTypes, SmsInit, SmsTypeOK
  <1>4. \A p \in Procs : send[p].pc = "idle"
    BY <1>2 DEF Unsent
  <1>5. (\A p \in Procs : SenderKnown(p)) /\ SendAlone
    BY <1>4 DEF SenderKnown, SendAlone, Sending
  <1>6. DayKnown
    <2>1. Early = {} /\ Booking = {}
      BY <1>4 DEF Early, Booking
    <2>2. Cardinality({}) = 0 /\ Cardinality(Procs) \in Nat
      BY FS_EmptySet, FS_CardinalityType, RequestsAssumption
    <2> QED BY <1>1, <2>1, <2>2 DEF DayKnown, SmsInit
  <1>7. GuessesKnown /\ DeliveredCodeWorks
    BY <1>1 DEF GuessesKnown, DeliveredCodeWorks, SmsInit
  <1> QED BY <1>3, <1>5, <1>6, <1>7 DEF CodesSound

LEMMA CodesStep == CodesSound /\ [SmsNext]_smsVars => CodesSound'
  <1> SUFFICES ASSUME CodesSound, [SmsNext]_smsVars PROVE CodesSound'
    OBVIOUS
  <1>1. ASSUME NEW p \in Procs, NEW f \in Phones, AskCode(p, f)
        PROVE  CodesSound'
    BY <1>1, AskKeeps
  <1>2. ASSUME NEW p \in Procs, CheckRate(p) \/ StoreCode(p) \/ SendMessage(p) \/ BookDay(p) \/ DropCode(p)
        PROVE  CodesSound'
    BY <1>2, RateKeeps, StoreKeeps, SendKeeps, BookKeeps, DropKeeps
  <1>3. ASSUME NEW f \in Phones, NEW g \in 1..(MaxCodes + 1), VerifyCode(f, g)
        PROVE  CodesSound'
    BY <1>3, VerifyKeeps
  <1>4. ASSUME NEW f \in Phones, MinuteLapses(f) \/ HourLapses(f) \/ CodeLapses(f) \/ BarLapses(f)
        PROVE  CodesSound'
    BY <1>4, MinuteKeeps, HourKeeps, CodeKeeps, BarKeeps
  <1>5. CASE DayLapses
    BY <1>5, DayKeeps
  <1>6. CASE UNCHANGED smsVars
    <2>1. UNCHANGED <<limits, checks, drawn, sentToday, send>>
      BY <1>6 DEF smsVars, limits, checks
    <2>2. (\A q \in Procs : SenderKnown(q)') /\ SendAlone' /\ DayKnown'
      BY <2>1, RequestsRest, DayStays DEF limits, checks
    <2> QED BY <2>1, <2>2 DEF CodesSound, CodeTypes, SmsTypeOK, GuessesKnown, DeliveredCodeWorks, limits, checks
  <1> QED BY <1>1, <1>2, <1>3, <1>4, <1>5, <1>6 DEF SmsNext

\* However many requests send codes to however many phones, failing at any step: a
\* code somebody was told of works, an address gets the messages of its day and at most
\* those then under way more, and the guesses at a phone stay within the limit.
THEOREM CodesAlwaysHold == SmsSpec => []CodesHold
  <1>1. CodesSound => CodesHold
    <2> SUFFICES ASSUME CodesSound PROVE CodesHold
      OBVIOUS
    <2>1. sentToday + Cardinality(Early) < DayLimit + Cardinality(Procs)
      BY DEF CodesSound, DayKnown
    <2>2. Cardinality(Early) \in Nat /\ Cardinality(Procs) \in Nat
      <3>1. Early \subseteq Procs /\ IsFiniteSet(Procs)
        BY RequestsAssumption DEF Early
      <3> QED BY <3>1, FS_Subset, FS_CardinalityType
    <2>3. sentToday \in Nat /\ DayLimit \in Nat
      BY CodeFields
    <2> QED BY <2>1, <2>2, <2>3 DEF CodesSound, CodesHold, SentWithinDay, GuessesKnown, GuessesBounded
  <1> QED BY <1>1, CodesStart, CodesStep, PTL DEF SmsSpec

-----------------------------------------------------------------------------
(* Identity: the inductive invariant.                                      *)

Binding == {"mark", "prepare", "commit"}
Moving == {"migrate", "clean"}
DoingSteps == {"idle", "look", "rule", "bind", "enter"} \cup Binding \cup Moving
DoingFields ==
    [pc : DoingSteps, then : {"idle", "bind", "enter"}, src : Names \cup {None}, dst : Names \cup {None}]

IdentityTypes == IdentityTypeOK /\ doing \in [Procs -> DoingFields]

\* The account has the name of its phone once that is bound, and nobody registers with
\* the phone while a transaction holds its name.
AccountKnown == /\ bound <=> name = PhoneName
                /\ tx # None => ~bound /\ ~guest

\* A request with files to move: forward they go to the name the account has for good;
\* back they go only in a recovery, and to its name unless a binding overlapped.
MoverKnown(p) ==
    \/ doing[p].src = GithubName /\ doing[p].dst = PhoneName /\ name = PhoneName
    \/ /\ doing[p].src = PhoneName /\ doing[p].dst = GithubName /\ doing[p].then # "idle"
       /\ overlap \/ (name = GithubName /\ tx = None)

DoerKnown(p) ==
    /\ doing[p].pc \in Binding <=> tx = p
    /\ doing[p].pc \in {"look", "rule"} => doing[p].then # "idle"
    /\ doing[p].pc \in Moving => MoverKnown(p)
    /\ doing[p].pc \in {"prepare", "commit"} => overlap \/ intent

\* A file is in the index of its uploader; if that is not the name of the account, the
\* account has been renamed, the intent stands, and no move has passed the file by.
FileKnown(f) ==
    /\ name = GithubName /\ uploader[f] # None => uploader[f] = GithubName
    /\ uploader[f] # None /\ f \notin unindexed \cup strays =>
         /\ f \in owned[uploader[f]]
         /\ uploader[f] # name => intent /\ \A p \in Procs : doing[p].pc # "clean"

IdentitySound ==
    /\ IdentityTypes /\ AccountKnown /\ (\A p \in Procs : DoerKnown(p))
    /\ ~overlap => \A f \in Files : FileKnown(f)
    /\ \A f \in unindexed : uploader[f] # None

-----------------------------------------------------------------------------
(* Identity: the shapes of its steps.                                      *)

DoingGoes(p) == doing' \in [Procs -> DoingFields] /\ \A q \in Procs \ {p} : doing'[q] = doing[q]

LEMMA IdentityFields ==
    ASSUME IdentitySound
    PROVE  /\ name \in Names /\ bound \in BOOLEAN /\ guest \in BOOLEAN /\ intent \in BOOLEAN
           /\ overlap \in BOOLEAN /\ tx \in Procs \cup {None} /\ strays \subseteq Files
           /\ owned \in [Names -> SUBSET Files] /\ uploader \in [Files -> Names \cup {None}]
           /\ unindexed \subseteq Files /\ doing \in [Procs -> DoingFields]
           /\ GithubName # PhoneName /\ GithubName \in Names /\ PhoneName \in Names /\ None \notin Names
           /\ None \notin Procs
  BY IdentityAssumption, RequestsAssumption DEF IdentitySound, IdentityTypes, IdentityTypeOK, Names

LEMMA MovesOn ==
    ASSUME IdentitySound, NEW p \in Procs, NEW pc \in DoingSteps, Moves(p, pc)
    PROVE  /\ DoingGoes(p) /\ doing'[p].pc = pc /\ doing'[p].then = doing[p].then
           /\ doing'[p].src = doing[p].src /\ doing'[p].dst = doing[p].dst
  <1>1. doing \in [Procs -> DoingFields]
    BY IdentityFields
  <1>2. doing[p] \in DoingFields
    BY <1>1
  <1>3. [doing[p] EXCEPT !.pc = pc] \in DoingFields
    BY <1>2 DEF DoingFields
  <1>4. doing' = [doing EXCEPT ![p] = [doing[p] EXCEPT !.pc = pc]]
    BY <1>1 DEF Moves
  <1>5. /\ doing' \in [Procs -> DoingFields] /\ doing'[p] = [doing[p] EXCEPT !.pc = pc]
        /\ \A q \in Procs \ {p} : doing'[q] = doing[q]
    BY <1>1, <1>3, <1>4
  <1> QED BY <1>2, <1>5 DEF DoingGoes, DoingFields

LEMMA NothingIs == Nothing \in DoingFields /\ Nothing.pc = "idle"
  BY DEF Nothing, DoingFields, DoingSteps

LEMMA EndsIdle ==
    ASSUME IdentitySound, NEW p \in Procs, Ends(p)
    PROVE  DoingGoes(p) /\ doing'[p].pc = "idle"
  <1>1. doing \in [Procs -> DoingFields]
    BY IdentityFields
  <1>2. /\ doing' \in [Procs -> DoingFields] /\ doing'[p] = Nothing
        /\ \A q \in Procs \ {p} : doing'[q] = doing[q]
    BY <1>1, NothingIs DEF Ends
  <1> QED BY <1>2, NothingIs DEF DoingGoes

LEMMA FilesMove ==
    ASSUME IdentitySound, NEW p \in Procs, NEW src \in Names, NEW dst \in Names,
           NEW then \in {"idle", "bind", "enter"}, MoveFiles(p, src, dst, then)
    PROVE  /\ DoingGoes(p) /\ doing'[p].pc = "migrate" /\ doing'[p].then = then
           /\ doing'[p].src = src /\ doing'[p].dst = dst
  <1>1. doing \in [Procs -> DoingFields]
    BY IdentityFields
  <1>2. PICK m \in DoingSteps : m = "migrate"
    BY DEF DoingSteps, Moving
  <1>3. doing' = [doing EXCEPT ![p] = [pc |-> m, then |-> then, src |-> src, dst |-> dst]]
    BY <1>2 DEF MoveFiles
  <1>4. [pc |-> m, then |-> then, src |-> src, dst |-> dst] \in DoingFields
    BY DEF DoingFields
  <1> QED BY <1>1, <1>2, <1>3, <1>4 DEF DoingGoes

\* A request that looks for an intent before it binds or lets in.
LEMMA Looking ==
    ASSUME NEW a, NEW b, NEW x, x = [Nothing EXCEPT !.pc = a, !.then = b]
    PROVE  x = [pc |-> a, then |-> b, src |-> None, dst |-> None]
  <1> PICK i, k : i = "idle" /\ k = None
    OBVIOUS
  <1>1. Nothing = [pc |-> i, then |-> i, src |-> k, dst |-> k]
    BY DEF Nothing
  <1>2. x = [pc |-> a, then |-> b, src |-> k, dst |-> k]
    BY <1>1
  <1> QED BY <1>2

LEMMA LooksFor ==
    ASSUME IdentitySound, NEW p \in Procs, NEW b \in {"bind", "enter"},
           doing' = [doing EXCEPT ![p] = [Nothing EXCEPT !.pc = "look", !.then = b]]
    PROVE  DoingGoes(p) /\ doing'[p].pc = "look" /\ doing'[p].then = b
  <1>1. doing \in [Procs -> DoingFields]
    BY IdentityFields
  <1>2. PICK a \in DoingSteps : a = "look"
    BY DEF DoingSteps
  <1>3. [Nothing EXCEPT !.pc = a, !.then = b] = [pc |-> a, then |-> b, src |-> None, dst |-> None]
    BY Looking
  <1>4. doing' = [doing EXCEPT ![p] = [pc |-> a, then |-> b, src |-> None, dst |-> None]]
    BY <1>2, <1>3, Zenon
  <1>5. [pc |-> a, then |-> b, src |-> None, dst |-> None] \in DoingFields
    BY DEF DoingFields
  <1> QED BY <1>1, <1>2, <1>4, <1>5 DEF DoingGoes

\* What a step of one request must leave as it was for the others: a name changes under
\* the transaction alone, the intent goes only without one, and a transaction that
\* begins while files move back counts as an overlap.
LEMMA OthersDo ==
    ASSUME IdentitySound, NEW p \in Procs, DoingGoes(p), DoerKnown(p)',
           overlap => overlap', name' = name \/ (name' = PhoneName /\ tx = p),
           intent => intent' \/ tx = None \/ overlap,
           tx' = tx \/ {tx, tx'} = {None, p},
           tx = None /\ tx' # None => overlap' \/ \A q \in Procs : ~Recovering(q)
    PROVE  \A q \in Procs : DoerKnown(q)'
  <1> SUFFICES ASSUME NEW q \in Procs \ {p} PROVE DoerKnown(q)'
    OBVIOUS
  <1>1. DoerKnown(q) /\ doing'[q] = doing[q]
    BY DEF IdentitySound, DoingGoes
  <1>2. tx = q <=> tx' = q
    BY IdentityFields
  <1>3. doing[q].pc \in Moving => MoverKnown(q)'
    <2> SUFFICES ASSUME doing[q].pc \in Moving PROVE MoverKnown(q)'
      OBVIOUS
    <2>1. CASE doing[q].src = GithubName /\ doing[q].dst = PhoneName /\ name = PhoneName
      BY <1>1, <2>1 DEF MoverKnown
    <2>2. CASE /\ doing[q].src = PhoneName /\ doing[q].dst = GithubName /\ doing[q].then # "idle"
               /\ overlap \/ (name = GithubName /\ tx = None)
      <3>1. Recovering(q)
        BY <2>2 DEF Recovering, Moving
      <3>2. overlap' \/ (name' = GithubName /\ tx' = None)
        BY <2>2, <3>1, IdentityFields
      <3> QED BY <1>1, <2>2, <3>2 DEF MoverKnown
    <2> QED BY <1>1, <2>1, <2>2 DEF DoerKnown, MoverKnown
  <1>4. doing[q].pc \in {"prepare", "commit"} => overlap' \/ intent'
    <2>1. doing[q].pc \in {"prepare", "commit"} => tx = q
      BY <1>1 DEF DoerKnown, Binding
    <2> QED BY <1>1, <2>1, IdentityFields DEF DoerKnown
  <1> QED BY <1>1, <1>2, <1>3, <1>4 DEF DoerKnown

\* A step that leaves the files, the name and the strays alone.
LEMMA FilesRest ==
    ASSUME IdentitySound, UNCHANGED <<files, name, strays>>, overlap => overlap', intent => intent',
           \A q \in Procs : doing'[q].pc = "clean" => doing[q].pc = "clean"
    PROVE  (~overlap' => \A f \in Files : FileKnown(f)') /\ \A f \in unindexed' : uploader'[f] # None
  BY DEF IdentitySound, FileKnown, files

-----------------------------------------------------------------------------
(* Identity: its steps.                                                    *)

\* A step that changes nothing but where one request is, to a place without conditions.
LEMMA WalkKeeps ==
    ASSUME IdentitySound, NEW p \in Procs, DoingGoes(p),
           doing'[p].pc \in {"idle", "look", "rule", "bind", "enter"},
           doing'[p].pc \in {"look", "rule"} => doing'[p].then # "idle",
           UNCHANGED <<name, bound, intent, files, strays>>,
           tx' = IF tx = p THEN None ELSE tx,
           overlap' \in BOOLEAN, overlap => overlap',
           guest' \in BOOLEAN, tx # None => guest' = guest
    PROVE  IdentitySound'
  <1>1. DoerKnown(p)'
    BY RequestsAssumption DEF DoerKnown, Binding, Moving
  <1>2. tx' = tx \/ {tx, tx'} = {None, p}
    OBVIOUS
  <1>3. \A q \in Procs : DoerKnown(q)'
    BY <1>1, <1>2, OthersDo
  <1>4. \A q \in Procs : doing'[q].pc = "clean" => doing[q].pc = "clean"
    BY DEF DoingGoes
  <1>5. (~overlap' => \A f \in Files : FileKnown(f)') /\ \A f \in unindexed' : uploader'[f] # None
    BY <1>4, FilesRest
  <1>6. AccountKnown'
    BY DEF IdentitySound, AccountKnown
  <1>7. IdentityTypes'
    BY DEF IdentitySound, IdentityTypes, IdentityTypeOK, DoingGoes, files
  <1> QED BY <1>3, <1>5, <1>6, <1>7 DEF IdentitySound

LEMMA LookKeeps ==
    ASSUME IdentitySound, NEW p \in Procs, BindPhone(p) \/ PhoneLogin(p) \/ LookForIntent(p)
    PROVE  IdentitySound'
  <1>1. doing[p].pc \in {"idle", "look"} /\ UNCHANGED <<users, tx, intent, files, history>>
    BY DEF BindPhone, PhoneLogin, LookForIntent
  <1>2. tx # p /\ overlap \in BOOLEAN /\ guest \in BOOLEAN
    BY <1>1, IdentityFields DEF IdentitySound, DoerKnown, Binding
  <1>3. /\ DoingGoes(p) /\ doing'[p].pc \in {"idle", "look", "rule", "bind", "enter"}
        /\ doing'[p].pc \in {"look", "rule"} => doing'[p].then # "idle"
    <2>1. CASE BindPhone(p) \/ PhoneLogin(p)
      <3>1. PICK b \in {"bind", "enter"} :
               doing' = [doing EXCEPT ![p] = [Nothing EXCEPT !.pc = "look", !.then = b]]
        BY <2>1 DEF BindPhone, PhoneLogin
      <3> QED BY <3>1, LooksFor
    <2>2. CASE LookForIntent(p)
      <3>1. doing[p].pc = "look" /\ doing[p].then \in {"bind", "enter"}
        <4>1. doing[p] \in DoingFields /\ doing[p].pc = "look" /\ doing[p].then # "idle"
          BY <2>2, IdentityFields DEF LookForIntent, IdentitySound, DoerKnown
        <4> QED BY <4>1 DEF DoingFields
      <3>2. PICK pc \in {"rule", "bind", "enter"} : pc = IF intent THEN "rule" ELSE doing[p].then
        BY <3>1
      <3>3. Moves(p, pc) /\ pc \in DoingSteps
        BY <2>2, <3>2 DEF LookForIntent, DoingSteps
      <3> QED BY <3>1, <3>3, MovesOn
    <2> QED BY <2>1, <2>2
  <1> QED BY <1>1, <1>2, <1>3, WalkKeeps DEF users, history

LEMMA RuleKeeps ==
    ASSUME IdentitySound, NEW p \in Procs, Rule(p)
    PROVE  IdentitySound'
  <1>1. /\ doing[p].pc = "rule" /\ overlap' = (overlap \/ tx # None)
        /\ UNCHANGED <<users, tx, intent, files, strays>>
    BY DEF Rule
  <1>2. /\ tx # p /\ overlap' \in BOOLEAN /\ (overlap => overlap') /\ (tx # None => overlap')
        /\ doing[p].then \in {"bind", "enter"}
    <2>1. doing[p] \in DoingFields /\ doing[p].then # "idle" /\ tx # p
      BY <1>1, IdentityFields DEF IdentitySound, DoerKnown, Binding
    <2> QED BY <1>1, <2>1, IdentityFields DEF DoingFields
  <1>3. CASE Ends(p)
    <2>1. DoingGoes(p) /\ doing'[p].pc = "idle" /\ guest \in BOOLEAN
      BY <1>3, EndsIdle, IdentityFields
    <2> QED BY <1>1, <1>2, <2>1, WalkKeeps DEF users
  <1>4. ASSUME NEW src \in Names, NEW dst \in Names, MoveFiles(p, src, dst, doing[p].then),
               \/ src = GithubName /\ dst = PhoneName /\ Existing = {PhoneName}
               \/ src = PhoneName /\ dst = GithubName /\ Existing = {GithubName}
        PROVE  IdentitySound'
    <2>1. PICK b \in {"idle", "bind", "enter"} : b = doing[p].then /\ b # "idle"
      BY <1>2
    <2>2. /\ DoingGoes(p) /\ doing'[p].pc = "migrate" /\ doing'[p].then = b
          /\ doing'[p].src = src /\ doing'[p].dst = dst
      BY <1>4, <2>1, FilesMove
    <2>3. \/ src = GithubName /\ dst = PhoneName /\ name = PhoneName
          \/ src = PhoneName /\ dst = GithubName /\ name = GithubName
      BY <1>4 DEF Existing
    <2>4. MoverKnown(p)'
      BY <1>1, <1>2, <2>1, <2>2, <2>3 DEF MoverKnown, users
    <2>5. DoerKnown(p)'
      BY <1>1, <1>2, <2>2, <2>4 DEF DoerKnown, Binding, users
    <2>6. \A q \in Procs : DoerKnown(q)'
      BY <1>1, <1>2, <2>2, <2>5, OthersDo DEF users
    <2>7. (~overlap' => \A f \in Files : FileKnown(f)') /\ \A f \in unindexed' : uploader'[f] # None
      <3>1. \A q \in Procs : doing'[q].pc = "clean" => doing[q].pc = "clean"
        BY <2>2 DEF DoingGoes
      <3> QED BY <1>1, <1>2, <3>1, FilesRest DEF users
    <2>8. AccountKnown' /\ IdentityTypes'
      BY <1>1, <1>2, <2>2 DEF IdentitySound, AccountKnown, IdentityTypes, IdentityTypeOK, DoingGoes, users, files
    <2> QED BY <2>6, <2>7, <2>8 DEF IdentitySound
  <1>5. GithubName \in Names /\ PhoneName \in Names
    BY IdentityFields
  <1> QED BY <1>3, <1>4, <1>5 DEF Rule, Ruling

LEMMA StartKeeps ==
    ASSUME IdentitySound, NEW p \in Procs, StartBinding(p)
    PROVE  IdentitySound'
  <1>1. doing[p].pc = "bind" /\ tx = None /\ UNCHANGED <<users, intent, files, strays>>
    BY DEF StartBinding
  <1>2. CASE Ends(p) /\ UNCHANGED <<tx, overlap>>
    <2>1. /\ DoingGoes(p) /\ doing'[p].pc = "idle" /\ guest \in BOOLEAN /\ overlap \in BOOLEAN
          /\ tx # p
      BY <1>1, <1>2, EndsIdle, IdentityFields
    <2> QED BY <1>1, <1>2, <2>1, WalkKeeps DEF users
  <1>3. CASE /\ ~(guest \/ bound) /\ tx' = p /\ Moves(p, "mark")
             /\ overlap' = (overlap \/ \E q \in Procs : Recovering(q))
    <2>1. DoingGoes(p) /\ doing'[p].pc = "mark"
      BY <1>3, MovesOn DEF DoingSteps, Binding
    <2>2. DoerKnown(p)'
      BY <1>3, <2>1 DEF DoerKnown, Binding, Moving
    <2>3. overlap' \in BOOLEAN /\ (overlap => overlap') /\ (overlap' \/ \A q \in Procs : ~Recovering(q))
      BY <1>3, IdentityFields
    <2>4. \A q \in Procs : DoerKnown(q)'
      BY <1>1, <1>3, <2>1, <2>2, <2>3, OthersDo DEF users
    <2>5. (~overlap' => \A f \in Files : FileKnown(f)') /\ \A f \in unindexed' : uploader'[f] # None
      <3>1. \A q \in Procs : doing'[q].pc = "clean" => doing[q].pc = "clean"
        BY <2>1 DEF DoingGoes
      <3> QED BY <1>1, <2>3, <3>1, FilesRest DEF users
    <2>6. AccountKnown' /\ IdentityTypes'
      BY <1>1, <1>3, <2>1, <2>3
         DEF IdentitySound, AccountKnown, IdentityTypes, IdentityTypeOK, DoingGoes, users, files
    <2> QED BY <2>4, <2>5, <2>6 DEF IdentitySound
  <1> QED BY <1>2, <1>3 DEF StartBinding

\* RollBack, and a crash or an answer wherever a request is.
LEMMA StopKeeps ==
    ASSUME IdentitySound, NEW p \in Procs, Ends(p), UNCHANGED <<users, intent, files, history>>,
           tx' = IF tx = p THEN None ELSE tx
    PROVE  IdentitySound'
  <1>1. DoingGoes(p) /\ doing'[p].pc = "idle" /\ guest \in BOOLEAN /\ overlap \in BOOLEAN
    BY EndsIdle, IdentityFields
  <1> QED BY <1>1, WalkKeeps DEF users, history

LEMMA MarkIntentKeeps ==
    ASSUME IdentitySound, NEW p \in Procs, MarkIntent(p)
    PROVE  IdentitySound'
  <1>1. doing[p].pc = "mark" /\ tx = p /\ UNCHANGED <<users, files, history>>
    BY DEF MarkIntent, IdentitySound, DoerKnown, Binding
  <1>2. CASE intent' = TRUE /\ Moves(p, "prepare") /\ UNCHANGED tx
    <2>1. DoingGoes(p) /\ doing'[p].pc = "prepare"
      BY <1>2, MovesOn DEF DoingSteps, Binding
    <2>2. DoerKnown(p)'
      BY <1>1, <1>2, <2>1 DEF DoerKnown, Binding, Moving
    <2>3. \A q \in Procs : DoerKnown(q)'
      BY <1>1, <1>2, <2>1, <2>2, OthersDo DEF users, history
    <2>4. (~overlap' => \A f \in Files : FileKnown(f)') /\ \A f \in unindexed' : uploader'[f] # None
      <3>1. \A q \in Procs : doing'[q].pc = "clean" => doing[q].pc = "clean"
        BY <2>1 DEF DoingGoes
      <3> QED BY <1>1, <1>2, <3>1, FilesRest DEF users, history
    <2>5. AccountKnown' /\ IdentityTypes'
      BY <1>1, <1>2, <2>1
         DEF IdentitySound, AccountKnown, IdentityTypes, IdentityTypeOK, DoingGoes, users, files, history
    <2> QED BY <2>3, <2>4, <2>5 DEF IdentitySound
  <1>3. CASE RollBack(p) /\ UNCHANGED intent
    BY <1>1, <1>3, StopKeeps DEF RollBack
  <1> QED BY <1>2, <1>3 DEF MarkIntent

LEMMA PrepareKeeps ==
    ASSUME IdentitySound, NEW p \in Procs, Prepare(p)
    PROVE  IdentitySound'
  <1>1. doing[p].pc = "prepare" /\ tx = p /\ UNCHANGED <<users, intent, history>>
    BY DEF Prepare, IdentitySound, DoerKnown, Binding
  <1>2. CASE Migrated(GithubName, PhoneName, FALSE) /\ Moves(p, "commit") /\ UNCHANGED <<tx, unindexed>>
    <2>1. DoingGoes(p) /\ doing'[p].pc = "commit"
      BY <1>2, MovesOn DEF DoingSteps, Binding
    <2>2. /\ owned' \in [Names -> SUBSET Files] /\ uploader' = uploader
          /\ \A n \in Names : owned[n] \subseteq owned'[n]
      <3>1. /\ owned \in [Names -> SUBSET Files] /\ uploader \in [Files -> Names \cup {None}]
            /\ GithubName \in Names /\ PhoneName \in Names
        BY IdentityFields
      <3>2. owned' = [owned EXCEPT ![PhoneName] = owned[PhoneName] \cup owned[GithubName]]
        BY <1>2, <3>1 DEF Migrated
      <3>3. uploader' = [f \in Files |-> uploader[f]]
        BY <1>2 DEF Migrated
      <3> QED BY <3>1, <3>2, <3>3
    <2>3. DoerKnown(p)'
      BY <1>1, <1>2, <2>1 DEF IdentitySound, DoerKnown, Binding, Moving, history
    <2>4. \A q \in Procs : DoerKnown(q)'
      BY <1>1, <1>2, <2>1, <2>3, OthersDo DEF users, history
    <2>5. (~overlap' => \A f \in Files : FileKnown(f)') /\ \A f \in unindexed' : uploader'[f] # None
      <3>1. \A q \in Procs : doing'[q].pc = "clean" => doing[q].pc = "clean"
        BY <2>1 DEF DoingGoes
      <3>2. ASSUME ~overlap, NEW f \in Files
            PROVE  FileKnown(f)'
        <4>1. FileKnown(f)
          BY <3>2 DEF IdentitySound
        <4>2. uploader[f] # None => uploader[f] \in Names
          BY IdentityFields
        <4> QED BY <1>1, <1>2, <2>2, <3>1, <4>1, <4>2 DEF FileKnown, users, history
      <3> QED BY <1>1, <1>2, <2>2, <3>2 DEF IdentitySound, history
    <2>6. AccountKnown' /\ IdentityTypes'
      BY <1>1, <1>2, <2>1, <2>2
         DEF IdentitySound, AccountKnown, IdentityTypes, IdentityTypeOK, DoingGoes, users, history
    <2> QED BY <2>4, <2>5, <2>6 DEF IdentitySound
  <1>3. CASE RollBack(p) /\ UNCHANGED files
    BY <1>1, <1>3, StopKeeps DEF RollBack
  <1> QED BY <1>2, <1>3 DEF Prepare

LEMMA CommitKeeps ==
    ASSUME IdentitySound, NEW p \in Procs, Commit(p)
    PROVE  IdentitySound'
  <1>1. doing[p].pc = "commit" /\ tx = p /\ tx' = None /\ UNCHANGED <<guest, intent, files, history>>
    BY DEF Commit, IdentitySound, DoerKnown, Binding
  <1>2. CASE UNCHANGED <<name, bound>> /\ Ends(p)
    BY <1>1, <1>2, StopKeeps DEF users
  <1>3. CASE name' = PhoneName /\ bound' = TRUE /\ (MoveFiles(p, GithubName, PhoneName, "idle") \/ Ends(p))
    <2>1. /\ DoingGoes(p) /\ doing'[p].pc \in {"idle", "migrate"}
          /\ doing'[p].pc = "migrate" => doing'[p].src = GithubName /\ doing'[p].dst = PhoneName
      BY <1>3, FilesMove, EndsIdle, IdentityFields
    <2>2. DoerKnown(p)'
      BY <1>1, <1>3, <2>1, IdentityFields DEF DoerKnown, MoverKnown, Binding, Moving
    <2>3. \A q \in Procs : DoerKnown(q)'
      BY <1>1, <1>3, <2>1, <2>2, OthersDo DEF history
    <2>4. ASSUME ~overlap, NEW f \in Files
          PROVE  FileKnown(f)'
      <3>1. FileKnown(f) /\ intent /\ name = GithubName
        BY <1>1, <2>4, IdentityFields DEF IdentitySound, DoerKnown, AccountKnown, Names
      <3>2. \A q \in Procs : doing'[q].pc # "clean"
        <4>1. ASSUME NEW q \in Procs, doing[q].pc = "clean" PROVE FALSE
          BY <1>1, <2>4, <3>1, <4>1, IdentityFields DEF IdentitySound, DoerKnown, MoverKnown, Moving
        <4> QED BY <2>1, <4>1 DEF DoingGoes
      <3> QED BY <1>1, <1>3, <3>1, <3>2, IdentityFields DEF FileKnown, files, history
    <2>5. (~overlap' => \A f \in Files : FileKnown(f)') /\ \A f \in unindexed' : uploader'[f] # None
      BY <1>1, <2>4 DEF IdentitySound, files, history
    <2>6. AccountKnown'
      BY <1>1, <1>3 DEF AccountKnown
    <2>7. IdentityTypes'
      BY <1>1, <1>3, <2>1, IdentityFields DEF IdentitySound, IdentityTypes, IdentityTypeOK, DoingGoes, files, history
    <2> QED BY <2>3, <2>5, <2>6, <2>7 DEF IdentitySound
  <1> QED BY <1>2, <1>3 DEF Commit

LEMMA EnterKeeps ==
    ASSUME IdentitySound, NEW p \in Procs, EnterByPhone(p)
    PROVE  IdentitySound'
  <1>1. /\ doing[p].pc = "enter" /\ (bound \/ tx = None) /\ guest' = (guest \/ ~bound) /\ Ends(p)
        /\ UNCHANGED <<name, bound, tx, intent, files, history>>
    BY DEF EnterByPhone
  <1>2. DoingGoes(p) /\ doing'[p].pc = "idle"
    BY <1>1, EndsIdle
  <1>3. tx # p /\ guest' \in BOOLEAN /\ overlap \in BOOLEAN /\ (tx # None => guest' = guest)
    BY <1>1, IdentityFields DEF IdentitySound, DoerKnown, Binding, AccountKnown
  <1> QED BY <1>1, <1>2, <1>3, WalkKeeps DEF history

LEMMA CrashKeeps ==
    ASSUME IdentitySound, NEW p \in Procs, Crash(p)
    PROVE  IdentitySound'
  BY StopKeeps DEF Crash

\* A request with files to move.
LEMMA MoverNames ==
    ASSUME IdentitySound, NEW p \in Procs, doing[p].pc \in Moving
    PROVE  /\ doing[p].src \in Names /\ doing[p].dst \in Names /\ doing[p].src # doing[p].dst
           /\ ~overlap => doing[p].dst = name
           /\ tx # p /\ doing[p].then \in {"idle", "bind", "enter"}
  <1>1. doing[p] \in DoingFields /\ DoerKnown(p)
    BY IdentityFields DEF IdentitySound
  <1> QED BY <1>1, IdentityFields DEF DoerKnown, MoverKnown, DoingFields, Moving, Binding

LEMMA MigrateKeeps ==
    ASSUME IdentitySound, NEW p \in Procs, Migrate(p)
    PROVE  IdentitySound'
  <1>1. doing[p].pc = "migrate" /\ UNCHANGED <<users, unindexed, tx, intent, history>>
    BY DEF Migrate
  <1>2. PICK src \in Names, dst \in Names : src = doing[p].src /\ dst = doing[p].dst
    BY <1>1, MoverNames DEF Moving
  <1>3. src # dst /\ (~overlap => dst = name) /\ tx # p
    BY <1>1, <1>2, MoverNames DEF Moving
  <1>4. /\ DoingGoes(p) /\ doing'[p].pc = "clean" /\ doing'[p].src = src /\ doing'[p].dst = dst
        /\ doing'[p].then = doing[p].then
    BY <1>2, MovesOn DEF Migrate, DoingSteps, Moving
  <1>5. /\ owned \in [Names -> SUBSET Files] /\ uploader \in [Files -> Names \cup {None}]
        /\ None \notin Names /\ Names = {GithubName, PhoneName}
    BY IdentityFields DEF Names
  <1>6. Migrated(src, dst, TRUE)
    BY <1>2 DEF Migrate
  <1>7. /\ owned' \in [Names -> SUBSET Files] /\ owned'[dst] = owned[dst] \cup owned[src]
        /\ owned'[src] = owned[src]
    <2>1. owned' = [owned EXCEPT ![dst] = owned[dst] \cup owned[src]]
      BY <1>5, <1>6 DEF Migrated
    <2> QED BY <1>3, <1>5, <2>1
  <1>8. /\ uploader' \in [Files -> Names \cup {None}]
        /\ \A f \in Files : uploader'[f] = IF f \in owned[src] /\ uploader[f] = src THEN dst ELSE uploader[f]
    BY <1>5, <1>6 DEF Migrated
  <1>9. MoverKnown(p)'
    BY <1>1, <1>2, <1>4 DEF IdentitySound, DoerKnown, MoverKnown, Moving, users, history
  <1>10. DoerKnown(p)'
    BY <1>1, <1>3, <1>4, <1>9 DEF DoerKnown, Binding
  <1>11. \A q \in Procs : DoerKnown(q)'
    BY <1>1, <1>4, <1>10, OthersDo DEF users, history
  <1>12. ASSUME ~overlap, NEW f \in Files
         PROVE  FileKnown(f)'
    <2>1. FileKnown(f) /\ dst = name
      BY <1>3, <1>12 DEF IdentitySound
    <2>2. name = GithubName /\ uploader'[f] # None => uploader'[f] = GithubName
      BY <1>5, <1>8, <2>1 DEF FileKnown
    <2>3. ASSUME uploader'[f] # None, f \notin unindexed \cup strays
          PROVE  uploader'[f] = name /\ f \in owned'[name]
      <3>1. uploader[f] # None /\ f \in owned[uploader[f]] /\ uploader[f] \in Names
        BY <1>5, <1>8, <2>1, <2>3 DEF FileKnown
      <3>2. uploader[f] \in {src, dst}
        BY <1>3, <1>5, <3>1
      <3> QED BY <1>7, <1>8, <2>1, <3>1, <3>2
    <2> QED BY <1>1, <2>2, <2>3 DEF FileKnown, users, history
  <1>13. (~overlap' => \A f \in Files : FileKnown(f)') /\ \A f \in unindexed' : uploader'[f] # None
    <2>1. \A f \in unindexed : uploader'[f] # None
      BY <1>5, <1>8, IdentityFields DEF IdentitySound
    <2> QED BY <1>1, <1>12, <2>1 DEF history
  <1>14. AccountKnown' /\ IdentityTypes'
    BY <1>1, <1>4, <1>7, <1>8
       DEF IdentitySound, AccountKnown, IdentityTypes, IdentityTypeOK, DoingGoes, users, history
  <1> QED BY <1>11, <1>13, <1>14 DEF IdentitySound

LEMMA CleanupKeeps ==
    ASSUME IdentitySound, NEW p \in Procs, Cleanup(p)
    PROVE  IdentitySound'
  <1>1. doing[p].pc = "clean" /\ intent' = FALSE /\ UNCHANGED <<users, tx, uploader, unindexed, history>>
    BY DEF Cleanup
  <1>2. PICK src \in Names, dst \in Names, pc \in {"idle", "bind", "enter"} :
           src = doing[p].src /\ dst = doing[p].dst /\ pc = doing[p].then
    BY <1>1, MoverNames DEF Moving
  <1>3. src # dst /\ (~overlap => dst = name) /\ tx # p
    BY <1>1, <1>2, MoverNames DEF Moving
  <1>4. DoingGoes(p) /\ doing'[p].pc = pc
    BY <1>2, MovesOn DEF Cleanup, DoingSteps
  <1>5. /\ owned' \in [Names -> SUBSET Files] /\ \A n \in Names \ {src} : owned'[n] = owned[n]
    BY <1>2, IdentityFields DEF Cleanup
  <1>6. DoerKnown(p)'
    BY <1>1, <1>3, <1>4 DEF DoerKnown, Binding, Moving
  <1>7. tx # None => overlap
    BY <1>1, IdentityFields DEF IdentitySound, DoerKnown, MoverKnown, AccountKnown, Moving
  <1>8. \A q \in Procs : DoerKnown(q)'
    BY <1>1, <1>4, <1>6, <1>7, OthersDo DEF users, history
  <1>9. ASSUME ~overlap, NEW f \in Files
        PROVE  FileKnown(f)'
    <2>1. FileKnown(f) /\ dst = name
      BY <1>3, <1>9 DEF IdentitySound
    <2>2. uploader[f] # None /\ f \notin unindexed \cup strays => uploader[f] = name /\ f \in owned[name]
      BY <1>1, <2>1 DEF FileKnown
    <2> QED BY <1>1, <1>3, <1>5, <2>1, <2>2 DEF FileKnown, users, history
  <1>10. (~overlap' => \A f \in Files : FileKnown(f)') /\ \A f \in unindexed' : uploader'[f] # None
    BY <1>1, <1>9 DEF IdentitySound, history
  <1>11. AccountKnown' /\ IdentityTypes'
    BY <1>1, <1>4, <1>5
       DEF IdentitySound, AccountKnown, IdentityTypes, IdentityTypeOK, DoingGoes, users, history
  <1> QED BY <1>8, <1>10, <1>11 DEF IdentitySound

\* Files come and go; requests, the account and its transaction stay.
LEMMA DoersStay ==
    ASSUME IdentitySound, UNCHANGED <<users, tx, overlap, doing>>, intent => intent' \/ tx = None
    PROVE  (\A q \in Procs : DoerKnown(q)') /\ AccountKnown'
  <1>1. ASSUME NEW q \in Procs
        PROVE  DoerKnown(q)'
    <2>1. DoerKnown(q) /\ (doing[q].pc \in {"prepare", "commit"} => tx # None)
      BY IdentityFields DEF IdentitySound, DoerKnown, Binding
    <2> QED BY <2>1 DEF DoerKnown, MoverKnown, users
  <1> QED BY <1>1 DEF IdentitySound, AccountKnown, users

LEMMA UploadKeeps ==
    ASSUME IdentitySound, NEW f \in Files, NEW n \in Names, Upload(f, n)
    PROVE  IdentitySound'
  <1>1. /\ uploader[f] = None /\ n \in {name, GithubName} /\ unindexed' = unindexed \cup {f}
        /\ uploader' = [uploader EXCEPT ![f] = n]
        /\ UNCHANGED <<users, tx, intent, owned, doing, history>>
    BY DEF Upload
  <1>2. (\A q \in Procs : DoerKnown(q)') /\ AccountKnown'
    BY <1>1, DoersStay DEF history
  <1>3. /\ uploader' \in [Files -> Names \cup {None}] /\ uploader'[f] = n /\ n # None
        /\ \A g \in Files \ {f} : uploader'[g] = uploader[g]
    BY <1>1, IdentityFields
  <1>4. ASSUME ~overlap, NEW g \in Files
        PROVE  FileKnown(g)'
    BY <1>1, <1>3, <1>4 DEF IdentitySound, FileKnown, users, history
  <1>5. \A g \in unindexed' : uploader'[g] # None
    BY <1>1, <1>3, IdentityFields DEF IdentitySound
  <1>6. IdentityTypes'
    BY <1>1, <1>3 DEF IdentitySound, IdentityTypes, IdentityTypeOK, users, history
  <1> QED BY <1>1, <1>2, <1>4, <1>5, <1>6 DEF IdentitySound, history

LEMMA IndexKeeps ==
    ASSUME IdentitySound, NEW f \in Files, Index(f)
    PROVE  IdentitySound'
  <1>1. /\ f \in unindexed /\ unindexed' = unindexed \ {f}
        /\ UNCHANGED <<users, tx, intent, uploader, doing, overlap>>
    BY DEF Index
  <1>2. PICK n \in Names : n = uploader[f]
    BY <1>1, IdentityFields DEF IdentitySound
  <1>3. /\ owned' \in [Names -> SUBSET Files] /\ f \in owned'[n]
        /\ \A m \in Names : owned[m] \subseteq owned'[m]
    <2>1. owned' = [owned EXCEPT ![n] = owned[n] \cup {f}] /\ owned \in [Names -> SUBSET Files]
      BY <1>2, IdentityFields DEF Index
    <2> QED BY <2>1
  <1>4. strays' \subseteq Files /\ strays \subseteq strays'
    BY IdentityFields DEF Index
  <1>5. (\A q \in Procs : DoerKnown(q)') /\ AccountKnown'
    BY <1>1, DoersStay
  <1>6. ASSUME ~overlap, NEW g \in Files
        PROVE  FileKnown(g)'
    <2>1. FileKnown(g) /\ (uploader[g] # None => uploader[g] \in Names)
      BY <1>6, IdentityFields DEF IdentitySound
    <2>2. CASE g = f
      <3>1. f \notin strays' /\ n # name => intent /\ \A p \in Procs : doing[p].pc # "clean"
        BY <1>2 DEF Index
      <3> QED BY <1>1, <1>2, <1>3, <2>1, <2>2, <3>1 DEF FileKnown, users
    <2>3. CASE g # f
      BY <1>1, <1>3, <1>4, <2>1, <2>3 DEF FileKnown, users
    <2> QED BY <2>2, <2>3
  <1>7. IdentityTypes'
    BY <1>1, <1>3, <1>4 DEF IdentitySound, IdentityTypes, IdentityTypeOK, users
  <1> QED BY <1>1, <1>5, <1>6, <1>7 DEF IdentitySound

LEMMA LapseKeeps ==
    ASSUME IdentitySound, IntentLapses
    PROVE  IdentitySound'
  <1>1. /\ unindexed = {} /\ intent' = FALSE /\ UNCHANGED <<users, tx, unindexed, doing, history>>
        /\ \A p \in Procs : doing[p].pc = "idle"
        /\ owned' = [n \in Names |-> {f \in owned[n] : uploader[f] = name}]
        /\ uploader' = [f \in Files |-> IF uploader[f] = name THEN name ELSE None]
    BY NothingIs DEF IntentLapses
  <1>2. tx = None
    BY <1>1, IdentityFields DEF IdentitySound, DoerKnown, Binding
  <1>3. (\A q \in Procs : DoerKnown(q)') /\ AccountKnown'
    BY <1>1, <1>2, DoersStay DEF history
  <1>4. name \in Names /\ owned \in [Names -> SUBSET Files] /\ None \notin Names
    BY IdentityFields
  <1>5. owned' \in [Names -> SUBSET Files] /\ uploader' \in [Files -> Names \cup {None}]
    BY <1>1, <1>4
  <1>6. ASSUME ~overlap, NEW f \in Files
        PROVE  FileKnown(f)'
    <2>1. FileKnown(f)
      BY <1>6 DEF IdentitySound
    <2>2. uploader'[f] # None => uploader'[f] = name /\ uploader[f] = name
      BY <1>1
    <2>3. uploader[f] = name /\ f \in owned[name] => f \in owned'[name]
      BY <1>1, <1>4
    <2> QED BY <1>1, <1>4, <2>1, <2>2, <2>3 DEF FileKnown, users, history
  <1>7. IdentityTypes'
    BY <1>1, <1>5 DEF IdentitySound, IdentityTypes, IdentityTypeOK, users, history
  <1> QED BY <1>1, <1>3, <1>6, <1>7 DEF IdentitySound, history

LEMMA IdentityStart == IdentityInit => IdentitySound
  <1> SUFFICES ASSUME IdentityInit PROVE IdentitySound
    OBVIOUS
  <1>1. doing = [p \in Procs |-> Nothing] /\ tx = None /\ name = GithubName /\ bound = FALSE
    BY DEF IdentityInit
  <1>2. doing \in [Procs -> DoingFields] /\ \A p \in Procs : doing[p].pc = "idle"
    BY <1>1, NothingIs
  <1>3. IdentityTypes
    BY <1>2 DEF IdentityTypes, IdentityTypeOK, IdentityInit, Names
  <1>4. \A p \in Procs : DoerKnown(p)
    BY <1>1, <1>2, RequestsAssumption DEF DoerKnown, Binding, Moving
  <1>5. AccountKnown
    BY <1>1, IdentityAssumption DEF AccountKnown
  <1>6. \A f \in Files : FileKnown(f)
    BY DEF FileKnown, IdentityInit
  <1> QED BY <1>3, <1>4, <1>5, <1>6 DEF IdentitySound, IdentityInit

LEMMA IdentityStep == IdentitySound /\ [IdentityNext]_identityVars => IdentitySound'
  <1> SUFFICES ASSUME IdentitySound, [IdentityNext]_identityVars PROVE IdentitySound'
    OBVIOUS
  <1>1. ASSUME NEW p \in Procs, BindPhone(p) \/ PhoneLogin(p) \/ LookForIntent(p) \/ Rule(p)
        PROVE  IdentitySound'
    BY <1>1, LookKeeps, RuleKeeps
  <1>2. ASSUME NEW p \in Procs, Migrate(p) \/ Cleanup(p)
        PROVE  IdentitySound'
    BY <1>2, MigrateKeeps, CleanupKeeps
  <1>3. ASSUME NEW p \in Procs, StartBinding(p) \/ MarkIntent(p) \/ Prepare(p) \/ Commit(p)
        PROVE  IdentitySound'
    BY <1>3, StartKeeps, MarkIntentKeeps, PrepareKeeps, CommitKeeps
  <1>4. ASSUME NEW p \in Procs, EnterByPhone(p) \/ Crash(p)
        PROVE  IdentitySound'
    BY <1>4, EnterKeeps, CrashKeeps
  <1>5. ASSUME NEW f \in Files, Index(f) \/ \E n \in Names : Upload(f, n)
        PROVE  IdentitySound'
    BY <1>5, IndexKeeps, UploadKeeps
  <1>6. CASE IntentLapses
    BY <1>6, LapseKeeps
  <1>7. CASE UNCHANGED identityVars
    <2>1. UNCHANGED <<users, tx, intent, files, doing, history>>
      BY <1>7 DEF identityVars, users, files, history
    <2>2. (\A q \in Procs : DoerKnown(q)') /\ AccountKnown'
      BY <2>1, DoersStay DEF history
    <2>3. (~overlap' => \A f \in Files : FileKnown(f)') /\ \A f \in unindexed' : uploader'[f] # None
      BY <2>1, FilesRest DEF users, history
    <2>4. IdentityTypes'
      BY <2>1 DEF IdentitySound, IdentityTypes, IdentityTypeOK, users, files, history
    <2> QED BY <2>2, <2>3, <2>4 DEF IdentitySound
  <1> QED BY <1>1, <1>2, <1>3, <1>4, <1>5, <1>6, <1>7 DEF IdentityNext

\* Types.
THEOREM IdentityTypeCorrect == IdentitySpec => []IdentityTypeOK
  <1>1. IdentitySound => IdentityTypeOK
    BY DEF IdentitySound, IdentityTypes
  <1> QED BY <1>1, IdentityStart, IdentityStep, PTL DEF IdentitySpec

\* Wherever bindings and recoveries of any number of requests are cut short: once no
\* move is pending the files are where the account is, unless a recovery overlapped the
\* transaction of a binding.
THEOREM FilesAlwaysFollow == IdentitySpec => []FilesFollowAccount
  <1>1. IdentitySound => FilesFollowAccount
    <2> SUFFICES ASSUME IdentitySound, Settled, ~overlap, NEW f \in Files, uploader[f] # None,
                        f \notin unindexed \cup strays
                 PROVE  uploader[f] = name /\ f \in owned[name]
      BY DEF FilesFollowAccount, FilesAtName
    <2>1. FileKnown(f)
      BY DEF IdentitySound
    <2> QED BY <2>1 DEF FileKnown, Settled
  <1> QED BY <1>1, IdentityStart, IdentityStep, PTL DEF IdentitySpec

-----------------------------------------------------------------------------
(* RateWindows.                                                            *)

\* What was counted in each of the last ticks.
Slots == [1..Ticks -> Nat]
Upto(s, n) == SumFunctionOnSet(s, 1..n)

\* What was counted in the last n ticks.
LEMMA UptoIs ==
    ASSUME NEW s \in Slots
    PROVE  /\ Upto(s, 0) = 0
           /\ \A n \in 0..Ticks : Upto(s, n) \in Nat
           /\ \A n \in 0..(Ticks - 1) : Upto(s, n + 1) = Upto(s, n) + s[n + 1]
  <1>t. Ticks \in Nat
    BY WindowAssumption
  <1>1. Upto(s, 0) = 0
    <2>1. 1..0 = {}
      OBVIOUS
    <2> QED BY <2>1, SumEmpty DEF Upto
  <1>2. \A n \in 0..(Ticks - 1) : Upto(s, n + 1) = Upto(s, n) + s[n + 1] /\ s[n + 1] \in Nat
    <2> TAKE n \in 0..(Ticks - 1)
    <2>1. /\ n \in Nat /\ n + 1 \notin 1..n /\ 1..(n + 1) = (1..n) \cup {n + 1} /\ IsFiniteSet(1..n)
          /\ 1..(n + 1) \subseteq 1..Ticks
      BY <1>t, FS_Interval
    <2>2. \A i \in (1..n) \cup {n + 1} : s[i] \in Int
      BY <2>1 DEF Slots
    <2>3. SumFunctionOnSet(s, (1..n) \cup {n + 1}) = SumFunctionOnSet(s, 1..n) + s[n + 1]
      BY <2>1, <2>2, SumAdd
    <2> QED BY <2>1, <2>3 DEF Upto, Slots
  <1>3. \A n \in 0..Ticks : Upto(s, n) \in Nat
    <2> DEFINE S == {n \in 0..Ticks : Upto(s, n) \in Nat}
    <2>1. 0 \in S
      BY <1>t, <1>1
    <2>2. \A n \in 0..(Ticks - 1) : n \in S => n + 1 \in S
      BY <1>t, <1>2
    <2>3. \A n \in 0..Ticks : n \in S
      <3> HIDE DEF S
      <3> QED BY <1>t, <2>1, <2>2, Reaches
    <2> QED BY <2>3
  <1> QED BY <1>1, <1>2, <1>3

\* Sums over prefixes, term by term.
LEMMA UptoRelated ==
    ASSUME NEW s \in Slots, NEW q \in Slots
    PROVE  /\ (\A i \in 1..Ticks : q[i] = 0) => \A n \in 0..Ticks : Upto(q, n) = 0
           /\ (\A i \in 1..Ticks : q[i] <= s[i]) => \A n \in 0..Ticks : Upto(q, n) <= Upto(s, n)
  <1>t. Ticks \in Nat
    BY WindowAssumption
  <1>1. ASSUME \A i \in 1..Ticks : q[i] = 0 PROVE \A n \in 0..Ticks : Upto(q, n) = 0
    <2> DEFINE S == {n \in 0..Ticks : Upto(q, n) = 0}
    <2>1. 0 \in S
      BY <1>t, UptoIs
    <2>2. \A n \in 0..(Ticks - 1) : n \in S => n + 1 \in S
      BY <1>t, <1>1, UptoIs
    <2>3. \A n \in 0..Ticks : n \in S
      <3> HIDE DEF S
      <3> QED BY <1>t, <2>1, <2>2, Reaches
    <2> QED BY <2>3
  <1>2. ASSUME \A i \in 1..Ticks : q[i] <= s[i] PROVE \A n \in 0..Ticks : Upto(q, n) <= Upto(s, n)
    <2> DEFINE S == {n \in 0..Ticks : Upto(q, n) <= Upto(s, n)}
    <2>1. 0 \in S
      BY <1>t, UptoIs
    <2>2. \A n \in 0..(Ticks - 1) : n \in S => n + 1 \in S
      <3> SUFFICES ASSUME NEW n \in 0..(Ticks - 1), Upto(q, n) <= Upto(s, n)
                   PROVE  Upto(q, n + 1) <= Upto(s, n + 1)
        BY <1>t
      <3>1. n + 1 \in 1..Ticks /\ n \in 0..Ticks
        BY <1>t
      <3>2. q[n + 1] \in Nat /\ s[n + 1] \in Nat /\ q[n + 1] <= s[n + 1]
        BY <1>2, <3>1 DEF Slots
      <3>3. /\ Upto(q, n + 1) = Upto(q, n) + q[n + 1] /\ Upto(s, n + 1) = Upto(s, n) + s[n + 1]
            /\ Upto(q, n) \in Nat /\ Upto(s, n) \in Nat
        BY <3>1, UptoIs
      <3> QED BY <3>2, <3>3
    <2>3. \A n \in 0..Ticks : n \in S
      <3> HIDE DEF S
      <3> QED BY <1>t, <2>1, <2>2, Reaches
    <2> QED BY <2>3
  <1> QED BY <1>1, <1>2

\* One request more in this tick.
LEMMA Counted ==
    ASSUME NEW s \in Slots, NEW k \in Nat
    PROVE  LET b == [s EXCEPT ![1] = @ + k] IN
           /\ b \in Slots /\ b[1] = s[1] + k /\ \A i \in 2..Ticks : b[i] = s[i]
           /\ \A n \in 1..Ticks : Upto(b, n) = Upto(s, n) + k
  <1> DEFINE b == [s EXCEPT ![1] = @ + k]
  <1>t. Ticks \in Nat /\ 1 \in 1..Ticks
    BY WindowAssumption
  <1>1. b \in Slots /\ b[1] = s[1] + k /\ \A i \in 2..Ticks : b[i] = s[i]
    BY <1>t DEF Slots
  <1> HIDE DEF b
  <1> DEFINE S == {n \in 0..Ticks : n = 0 \/ Upto(b, n) = Upto(s, n) + k}
  <1>2. 0 \in S
    BY <1>t
  <1>3. \A n \in 0..(Ticks - 1) : n \in S => n + 1 \in S
    <2> SUFFICES ASSUME NEW n \in 0..(Ticks - 1), n \in S
                 PROVE  Upto(b, n + 1) = Upto(s, n + 1) + k
      <3>1. \A n \in 0..(Ticks - 1) : n + 1 \in 0..Ticks
        BY <1>t
      <3> QED BY <3>1
    <2>1. n + 1 \in 1..Ticks /\ n \in 0..Ticks
      BY <1>t
    <2>2. /\ Upto(b, n + 1) = Upto(b, n) + b[n + 1] /\ Upto(s, n + 1) = Upto(s, n) + s[n + 1]
          /\ Upto(b, n) \in Nat /\ Upto(s, n) \in Nat /\ Upto(b, 0) = 0 /\ Upto(s, 0) = 0
      BY <1>1, <2>1, UptoIs
    <2>3. b[n + 1] \in Nat /\ s[n + 1] \in Nat
      BY <1>1, <2>1 DEF Slots
    <2>4. CASE n = 0
      BY <1>1, <2>2, <2>3, <2>4
    <2>5. CASE n # 0
      <3>1. n + 1 \in 2..Ticks /\ Upto(b, n) = Upto(s, n) + k
        BY <1>t, <2>1, <2>5
      <3> QED BY <1>1, <2>2, <2>3, <3>1
    <2> QED BY <2>4, <2>5
  <1>4. \A n \in 0..Ticks : n \in S
    <2> HIDE DEF S
    <2> QED BY <1>t, <1>2, <1>3, Reaches
  <1>5. \A n \in 1..Ticks : n \in 0..Ticks /\ n # 0
    BY <1>t
  <1>6. \A n \in 1..Ticks : Upto(b, n) = Upto(s, n) + k
    BY <1>4, <1>5
  <1> QED BY <1>1, <1>6 DEF b

\* A tick later.
LEMMA Slid ==
    ASSUME NEW s \in Slots
    PROVE  /\ Later(s) \in Slots /\ Later(s)[1] = 0 /\ \A i \in 2..Ticks : Later(s)[i] = s[i - 1]
           /\ \A n \in 1..Ticks : Upto(Later(s), n) = Upto(s, n - 1)
  <1>t. Ticks \in Nat /\ 1 \in 1..Ticks
    BY WindowAssumption
  <1>1. Later(s) \in Slots /\ Later(s)[1] = 0 /\ \A i \in 2..Ticks : Later(s)[i] = s[i - 1]
    BY <1>t DEF Slots, Later
  <1> DEFINE b == Later(s)
  <1> HIDE DEF b
  <1> DEFINE S == {n \in 0..Ticks : n = 0 \/ Upto(b, n) = Upto(s, n - 1)}
  <1>2. 0 \in S
    BY <1>t
  <1>3. \A n \in 0..(Ticks - 1) : n \in S => n + 1 \in S
    <2> SUFFICES ASSUME NEW n \in 0..(Ticks - 1), n \in S
                 PROVE  Upto(b, n + 1) = Upto(s, n)
      BY <1>t
    <2>1. n + 1 \in 1..Ticks /\ n \in 0..Ticks
      BY <1>t
    <2>2. /\ Upto(b, n + 1) = Upto(b, n) + b[n + 1] /\ Upto(b, 0) = 0 /\ Upto(s, 0) = 0
      BY <1>1, <2>1, UptoIs DEF b
    <2>4. CASE n = 0
      BY <1>1, <2>2, <2>4 DEF b
    <2>5. CASE n # 0
      <3>1. n + 1 \in 2..Ticks /\ Upto(b, n) = Upto(s, n - 1) /\ n - 1 \in 0..(Ticks - 1) /\ (n - 1) + 1 = n
        BY <1>t, <2>1, <2>5
      <3>2. Upto(s, n) = Upto(s, n - 1) + s[n]
        BY <3>1, UptoIs
      <3>3. b[n + 1] = s[n]
        BY <1>1, <3>1, <2>1 DEF b
      <3> QED BY <2>2, <3>1, <3>2, <3>3
    <2> QED BY <2>4, <2>5
  <1>4. \A n \in 0..Ticks : n \in S
    <2> HIDE DEF S
    <2> QED BY <1>t, <1>2, <1>3, Reaches
  <1> QED BY <1>1, <1>4 DEF b

-----------------------------------------------------------------------------
\* The keys in Redis, and how long a bucket's key lives in ticks over Ticks.
KeyRows == [count : Nat, left : Nat]
Life == (Capacity + Rate - 1) \div Rate + 1

\* The weights of the two counters, and what they admitted.
QpsKnown ==
    /\ phase \in 0..(Ticks - 1)
    /\ keys["last"].count <= Limit
    /\ Ticks * keys["this"].count + keys["last"].count * (Ticks - phase) < Limit * Ticks + Ticks
    /\ Upto(recent, phase + 1) = keys["this"].count
    /\ Upto(recent, Ticks) <= keys["this"].count + keys["last"].count
    /\ keys["this"].count > 0 => keys["this"].left >= 2 * Ticks - phase
    /\ keys["last"].count > 0 => keys["last"].left >= Ticks - phase

\* A fixed window that began, and the one before it, whose first request is a window ago.
SearchKnown ==
    LET key == keys["search"]
        n == Ticks - key.left + 1
    IN IF key.count = 0
       THEN key.left = 0 /\ recent[1] = 0 /\ Upto(recent, Ticks) < Limit
       ELSE /\ key.left \in 1..Ticks /\ recent[n] > 0
            /\ Upto(recent, n) <= key.count /\ Upto(recent, n) <= Limit
            /\ Upto(recent, Ticks) < Upto(recent, n) + Limit

\* The log has every request.
LogKnown ==
    /\ \A i \in 1..Ticks : recent[i] <= log[i]
    /\ Upto(recent, Ticks) <= Limit

\* What was admitted and did not leak is missing in the bucket; one that is gone was full.
BucketKnown ==
    /\ bucket.left = 0 => meter = 0
    /\ bucket.left > 0 =>
          /\ bucket.since + bucket.left = Life * Ticks
          /\ bucket.tokens <= Capacity * Ticks
          /\ meter = 0 \/ meter + bucket.tokens + bucket.since * Rate <= Capacity * Ticks

\* What is known of the window it is, in every state.
WindowSound ==
    /\ recent \in Slots /\ log \in Slots /\ meter \in Nat
    /\ keys \in [{"this", "last", "search"} -> KeyRows]
    /\ bucket \in [tokens : Nat, since : Nat, left : Nat]
    /\ window = "qps" => QpsKnown
    /\ window = "search" => SearchKnown
    /\ window = "log" => LogKnown
    /\ window = "bucket" => BucketKnown

\* A bucket is full before its key expires.
LEMMA LifeIs ==
    /\ Life \in Nat \ {0} /\ Life * Rate >= Capacity
    /\ Life * Ticks \in Nat \ {0} /\ Capacity * Ticks \in Nat
    /\ (Life * Ticks) * Rate >= Capacity * Ticks
  <1> DEFINE a == Capacity + Rate - 1
             q == a \div Rate
  <1>1. Capacity \in Nat \ {0} /\ Rate \in Nat \ {0} /\ Ticks \in Nat \ {0} /\ a \in Nat
    BY WindowAssumption
  <1>2. q \in Nat /\ a < (q + 1) * Rate
    <2> HIDE DEF a
    <2>1. q \in Nat /\ a = Rate * q + (a % Rate) /\ a % Rate \in 0..(Rate - 1)
      BY <1>1, Z3
    <2> HIDE DEF q
    <2> QED BY <1>1, <2>1
  <1>3. Life = q + 1
    BY DEF Life
  <1>4. Life \in Nat \ {0} /\ Life * Rate >= Capacity
    <2> HIDE DEF q
    <2> QED BY <1>1, <1>2, <1>3
  <1>5. ASSUME NEW l \in Nat \ {0}, NEW r \in Nat, NEW c \in Nat, NEW t \in Nat \ {0}, l * r >= c
        PROVE  l * t \in Nat \ {0} /\ c * t \in Nat /\ (l * t) * r >= c * t
    <2>1. PICK d \in Nat : l * r = c + d
      <3>1. l * r \in Nat
        OBVIOUS
      <3>2. l * r - c \in Nat /\ l * r = c + (l * r - c)
        BY <1>5, <3>1
      <3> QED BY <3>2
    <2>2. (l * t) * r = (l * r) * t
      OBVIOUS
    <2>3. (c + d) * t = c * t + d * t /\ d * t \in Nat /\ c * t \in Nat
      OBVIOUS
    <2>4. l * t \in Nat /\ l * t # 0
      OBVIOUS
    <2>5. (l * t) * r = c * t + d * t
      BY <2>1, <2>2, <2>3
    <2> QED BY <2>3, <2>4, <2>5
  <1> HIDE DEF Life
  <1> QED BY <1>1, <1>4, <1>5

LEMMA WindowStart == WindowInit => WindowSound
  <1> SUFFICES ASSUME WindowInit PROVE WindowSound
    OBVIOUS
  <1>1. Ticks \in Nat \ {0, 1} /\ Limit \in Nat \ {0}
    BY WindowAssumption
  <1>2. recent \in Slots /\ log = recent /\ \A i \in 1..Ticks : recent[i] = 0
    BY DEF WindowInit, Quiet, Slots
  <1>3. \A n \in 0..Ticks : Upto(recent, n) = 0
    BY <1>2, UptoRelated
  <1>4. 1 \in 0..Ticks /\ Ticks \in 0..Ticks /\ 1 \in 1..Ticks
    BY <1>1
  <1>5. /\ keys = [k \in {"this", "last", "search"} |-> NoKey] /\ NoKey = [count |-> 0, left |-> 0]
        /\ phase = 0 /\ meter = 0 /\ bucket = [tokens |-> 0, since |-> 0, left |-> 0]
    BY DEF WindowInit, NoKey
  <1>6. keys \in [{"this", "last", "search"} -> KeyRows]
    BY <1>5 DEF KeyRows
  <1>7. /\ keys["this"].count = 0 /\ keys["last"].count = 0 /\ keys["search"].count = 0
        /\ keys["search"].left = 0
    BY <1>5
  <1>8. QpsKnown
    <2>1. Ticks * 0 + 0 * (Ticks - 0) < Limit * Ticks + Ticks
      BY <1>1
    <2> QED BY <1>1, <1>3, <1>4, <1>5, <1>7, <2>1 DEF QpsKnown
  <1>9. SearchKnown
    BY <1>1, <1>2, <1>3, <1>4, <1>7 DEF SearchKnown
  <1>10. LogKnown
    BY <1>1, <1>2, <1>3, <1>4 DEF LogKnown
  <1>11. BucketKnown
    BY <1>5 DEF BucketKnown
  <1> QED BY <1>2, <1>5, <1>6, <1>8, <1>9, <1>10, <1>11 DEF WindowSound

\* What a request does to the history.
LEMMA AnswerIs ==
    ASSUME WindowSound, NEW k \in {0, 1}, recent' = [recent EXCEPT ![1] = @ + k]
    PROVE  /\ recent' \in Slots /\ recent'[1] = recent[1] + k
           /\ \A i \in 2..Ticks : recent'[i] = recent[i]
           /\ \A n \in 1..Ticks : Upto(recent', n) = Upto(recent, n) + k
  <1>1. recent \in Slots /\ k \in Nat
    BY DEF WindowSound
  <1> QED BY <1>1, Counted

\* The scripts, each in the window it is for.
LEMMA QpsKeeps == ASSUME WindowSound, CheckQps PROVE WindowSound'
  <1> DEFINE admits == keys["last"].count * (Ticks - phase) + keys["this"].count * Ticks < Limit * Ticks
             this == keys["this"]
             last == keys["last"]
  <1>1. /\ window = "qps" /\ Answer(admits) /\ UNCHANGED <<window, phase, log, bucket>>
        /\ keys' = IF admits THEN [keys EXCEPT !["this"] = Incremented(this, 2 * Ticks)] ELSE keys
    BY DEF CheckQps
  <1>2. QpsKnown /\ keys \in [{"this", "last", "search"} -> KeyRows] /\ Ticks \in Nat \ {0, 1} /\ Limit \in Nat
    BY <1>1, WindowAssumption DEF WindowSound
  <1>3. /\ this \in KeyRows /\ last \in KeyRows /\ phase \in 0..(Ticks - 1)
        /\ Incremented(this, 2 * Ticks) \in KeyRows
        /\ Incremented(this, 2 * Ticks).count = this.count + 1
        /\ Incremented(this, 2 * Ticks).left = IF this.count = 0 THEN 2 * Ticks ELSE this.left
    <2>1. this \in KeyRows /\ last \in KeyRows /\ phase \in 0..(Ticks - 1)
      BY <1>2 DEF QpsKnown
    <2>2. this.count \in Nat /\ this.left \in Nat /\ 2 * Ticks \in Nat
      BY <1>2, <2>1 DEF KeyRows
    <2> HIDE DEF this, last
    <2>3. Incremented(this, 2 * Ticks) = [count |-> this.count + 1, left |-> IF this.count = 0 THEN 2 * Ticks ELSE this.left]
      BY DEF Incremented
    <2> QED BY <2>1, <2>2, <2>3 DEF KeyRows
  <1> DEFINE k == IF admits THEN 1 ELSE 0
  <1>4. k \in {0, 1} /\ (k = 1 <=> admits) /\ recent' = [recent EXCEPT ![1] = @ + k] /\ meter' \in Nat
    <2>1. /\ recent' = [recent EXCEPT ![1] = @ + IF admits THEN 1 ELSE 0]
          /\ meter' \in {meter, meter + Ticks} /\ meter \in Nat
      BY <1>1 DEF Answer, WindowSound
    <2> HIDE DEF admits
    <2> QED BY <1>2, <2>1
  <1> HIDE DEF k
  <1>5. /\ k \in {0, 1}
        /\ k = 1 <=> admits
        /\ recent' \in Slots /\ meter' \in Nat
        /\ \A n \in 1..Ticks : Upto(recent', n) = Upto(recent, n) + k
    <2> HIDE DEF admits
    <2> QED BY <1>4, AnswerIs
  <1>6. /\ keys' \in [{"this", "last", "search"} -> KeyRows]
        /\ keys'["last"] = last /\ keys'["this"].count = this.count + k
        /\ keys'["this"].left = IF admits /\ this.count = 0 THEN 2 * Ticks ELSE this.left
    <2> HIDE DEF admits
    <2>1. CASE admits
      <3>1. keys'["this"] = Incremented(this, 2 * Ticks) /\ k = 1
        BY <1>1, <1>2, <1>5, <2>1
      <3> QED BY <1>1, <1>2, <1>3, <2>1, <3>1
    <2>2. CASE ~admits
      <3>1. keys' = keys /\ k = 0
        BY <1>1, <1>5, <2>2
      <3> QED BY <1>2, <1>3, <2>2, <3>1 DEF KeyRows
    <2> QED BY <2>1, <2>2
  <1>7. Ticks * (this.count + k) + last.count * (Ticks - phase) < Limit * Ticks + Ticks
    <2>1. this.count \in Nat /\ last.count \in Nat /\ Ticks - phase \in Nat
      BY <1>2, <1>3 DEF KeyRows
    <2>2. Ticks * this.count + last.count * (Ticks - phase) < Limit * Ticks + Ticks
      BY <1>2 DEF QpsKnown
    <2>3. CASE k = 1
      <3>1. last.count * (Ticks - phase) + this.count * Ticks < Limit * Ticks
        BY <1>5, <2>3
      <3>2. /\ Ticks * (this.count + 1) = this.count * Ticks + Ticks
            /\ last.count * (Ticks - phase) \in Nat /\ this.count * Ticks \in Nat /\ Limit * Ticks \in Nat
        BY <1>2, <2>1
      <3> HIDE DEF this, last
      <3> QED BY <1>2, <2>1, <2>3, <3>1, <3>2
    <2>4. CASE k = 0
      <3>1. this.count + k = this.count
        BY <2>1, <2>4
      <3> QED BY <2>2, <3>1
    <2> QED BY <1>5, <2>3, <2>4
  <1>8. QpsKnown'
    <2>1. phase + 1 \in 1..Ticks /\ Ticks \in 1..Ticks /\ phase + 1 \in 0..Ticks /\ Ticks \in 0..Ticks
      BY <1>2, <1>3
    <2>2. /\ Upto(recent', phase + 1) = Upto(recent, phase + 1) + k
          /\ Upto(recent', Ticks) = Upto(recent, Ticks) + k
          /\ Upto(recent, Ticks) \in Nat
      BY <1>5, <2>1, UptoIs DEF WindowSound
    <2>3. /\ Upto(recent, phase + 1) = this.count /\ Upto(recent, Ticks) <= this.count + last.count
          /\ last.count <= Limit
          /\ this.count > 0 => this.left >= 2 * Ticks - phase
          /\ last.count > 0 => last.left >= Ticks - phase
      BY <1>2 DEF QpsKnown
    <2>4. this.count \in Nat /\ last.count \in Nat /\ this.left \in Nat
      BY <1>3 DEF KeyRows
    <2>5. phase' = phase
      BY <1>1
    <2>6. keys'["this"].count > 0 => keys'["this"].left >= 2 * Ticks - phase
      <3> HIDE DEF admits, this, last
      <3>1. CASE this.count = 0 /\ k = 1
        BY <1>2, <1>3, <1>5, <1>6, <3>1
      <3>2. CASE this.count = 0 /\ k = 0
        BY <1>6, <3>2
      <3>3. CASE this.count > 0
        BY <1>6, <2>3, <2>4, <3>3
      <3> QED BY <1>5, <2>4, <3>1, <3>2, <3>3
    <2> HIDE DEF admits, this, last
    <2> QED BY <1>2, <1>3, <1>5, <1>6, <1>7, <2>2, <2>3, <2>4, <2>5, <2>6 DEF QpsKnown
  <1> QED BY <1>1, <1>5, <1>6, <1>8 DEF WindowSound

LEMMA SearchKeeps == ASSUME WindowSound, CheckSearch PROVE WindowSound'
  <1> DEFINE key == keys["search"]
             m == Ticks - key.left + 1
  <1>1. /\ window = "search" /\ Answer(key.count < Limit) /\ UNCHANGED <<window, phase, log, bucket>>
        /\ keys' = [keys EXCEPT !["search"] = IF key.count > Limit THEN key ELSE Incremented(key, Ticks)]
    BY DEF CheckSearch
  <1>2. SearchKnown /\ keys \in [{"this", "last", "search"} -> KeyRows] /\ Ticks \in Nat \ {0, 1} /\ Limit \in Nat \ {0}
        /\ recent \in Slots
    BY <1>1, WindowAssumption DEF WindowSound
  <1>3. key \in KeyRows /\ key.count \in Nat /\ key.left \in Nat
    BY <1>2 DEF KeyRows
  <1>4. /\ keys' \in [{"this", "last", "search"} -> KeyRows]
        /\ keys'["search"].count = IF key.count > Limit THEN key.count ELSE key.count + 1
        /\ keys'["search"].left = IF key.count = 0 THEN Ticks ELSE key.left
    <2>1. keys'["search"] = IF key.count > Limit THEN key ELSE Incremented(key, Ticks)
      BY <1>1, <1>2
    <2>2. Incremented(key, Ticks) = [count |-> key.count + 1, left |-> IF key.count = 0 THEN Ticks ELSE key.left]
      BY DEF Incremented
    <2>3. Incremented(key, Ticks) \in KeyRows
      BY <1>2, <1>3, <2>2 DEF KeyRows
    <2> HIDE DEF key
    <2> QED BY <1>1, <1>2, <1>3, <2>1, <2>2, <2>3
  <1> DEFINE k == IF key.count < Limit THEN 1 ELSE 0
  <1>a. k \in {0, 1} /\ (k = 1 <=> key.count < Limit) /\ recent' = [recent EXCEPT ![1] = @ + k] /\ meter' \in Nat
    <2>1. /\ recent' = [recent EXCEPT ![1] = @ + IF key.count < Limit THEN 1 ELSE 0]
          /\ meter' \in {meter, meter + Ticks} /\ meter \in Nat
      BY <1>1 DEF Answer, WindowSound
    <2> HIDE DEF key
    <2> QED BY <1>2, <2>1
  <1> HIDE DEF k
  <1>5. /\ k \in {0, 1}
        /\ k = 1 <=> key.count < Limit
        /\ recent' \in Slots /\ meter' \in Nat
        /\ recent'[1] = recent[1] + k /\ \A i \in 2..Ticks : recent'[i] = recent[i]
        /\ \A n \in 1..Ticks : Upto(recent', n) = Upto(recent, n) + k
    <2> HIDE DEF key
    <2> QED BY <1>a, AnswerIs
  <1>6. /\ \A n \in 0..Ticks : Upto(recent, n) \in Nat
        /\ \A i \in 1..Ticks : recent[i] \in Nat
        /\ Upto(recent, 1) = recent[1] /\ 1 \in 1..Ticks /\ Ticks \in 1..Ticks
    <2>1. 0 \in 0..(Ticks - 1) /\ 1 \in 1..Ticks /\ Ticks \in 1..Ticks
      BY <1>2
    <2>2. Upto(recent, 0 + 1) = Upto(recent, 0) + recent[0 + 1] /\ Upto(recent, 0) = 0
      BY <1>2, <2>1, UptoIs
    <2>3. \A i \in 1..Ticks : recent[i] \in Nat
      BY <1>2 DEF Slots
    <2>4. Upto(recent, 1) = recent[1]
      BY <2>1, <2>2, <2>3
    <2> QED BY <1>2, <2>1, <2>3, <2>4, UptoIs
  <1>7. SearchKnown'
    <2>1. CASE key.count = 0
      <3>1. k = 1 /\ keys'["search"].count = 1 /\ keys'["search"].left = Ticks
        BY <1>2, <1>4, <1>5, <2>1
      <3>2. recent[1] = 0 /\ Upto(recent, Ticks) < Limit
        BY <1>2, <2>1 DEF SearchKnown
      <3>3. recent'[1] = 1 /\ Upto(recent', 1) = 1 /\ Upto(recent', Ticks) = Upto(recent, Ticks) + 1
        BY <1>5, <1>6, <3>1, <3>2
      <3>4. Ticks - Ticks + 1 = 1 /\ Ticks \in 0..Ticks
        BY <1>2
      <3> QED BY <1>2, <1>6, <3>1, <3>2, <3>3, <3>4 DEF SearchKnown
    <2>2. CASE key.count # 0
      <3>1. /\ key.left \in 1..Ticks /\ recent[m] > 0
            /\ Upto(recent, m) <= key.count /\ Upto(recent, m) <= Limit
            /\ Upto(recent, Ticks) < Upto(recent, m) + Limit
        BY <1>2, <2>2 DEF SearchKnown
      <3>2. m \in 1..Ticks /\ m \in 0..Ticks /\ Ticks \in 0..Ticks
        BY <1>2, <3>1
      <3>3. /\ Upto(recent', m) = Upto(recent, m) + k /\ Upto(recent', Ticks) = Upto(recent, Ticks) + k
            /\ Upto(recent, m) \in Nat /\ Upto(recent, Ticks) \in Nat
        BY <1>5, <1>6, <3>2
      <3>4. recent'[m] > 0
        <4>1. CASE m = 1
          BY <1>5, <1>6, <3>1, <4>1
        <4>2. CASE m # 1
          <5>1. m \in 2..Ticks
            BY <1>2, <3>2, <4>2
          <5> QED BY <1>5, <3>1, <5>1
        <4> QED BY <4>1, <4>2
      <3>5. keys'["search"].left = key.left /\ keys'["search"].count # 0
            /\ keys'["search"].count = IF key.count > Limit THEN key.count ELSE key.count + 1
        BY <1>3, <1>4, <2>2
      <3>6. Ticks - keys'["search"].left + 1 = m
        BY <3>5
      <3> HIDE DEF key, m
      <3>7. Upto(recent', m) <= keys'["search"].count /\ Upto(recent', m) <= Limit
            /\ Upto(recent', Ticks) < Upto(recent', m) + Limit
        BY <1>2, <1>3, <1>5, <3>1, <3>3, <3>5
      <3> QED BY <3>1, <3>4, <3>5, <3>6, <3>7 DEF SearchKnown
    <2> QED BY <2>1, <2>2
  <1> QED BY <1>1, <1>2, <1>4, <1>5, <1>7 DEF WindowSound

LEMMA LogKeeps == ASSUME WindowSound, CheckLog PROVE WindowSound'
  <1>1. /\ window = "log" /\ log' = [log EXCEPT ![1] = @ + 1] /\ Answer(InWindow(log') <= Limit)
        /\ UNCHANGED <<window, phase, keys, bucket>>
    BY DEF CheckLog
  <1>2. LogKnown /\ recent \in Slots /\ log \in Slots /\ Ticks \in Nat \ {0, 1} /\ Limit \in Nat
        /\ Ticks \in 1..Ticks /\ Ticks \in 0..Ticks
    BY <1>1, WindowAssumption DEF WindowSound
  <1>3. log' \in Slots /\ log'[1] = log[1] + 1 /\ \A i \in 2..Ticks : log'[i] = log[i]
    <2>1. PICK one \in Nat : one = 1
      OBVIOUS
    <2>2. log' = [log EXCEPT ![1] = @ + one]
      BY <1>1, <2>1
    <2>3. log' \in Slots /\ log'[1] = log[1] + one /\ \A i \in 2..Ticks : log'[i] = log[i]
      <3>1. log \in Slots
        BY <1>2
      <3> QED BY <2>2, <3>1, Counted
    <2> QED BY <2>1, <2>3
  <1> DEFINE k == IF InWindow(log') <= Limit THEN 1 ELSE 0
  <1>a. k \in {0, 1} /\ (k = 1 <=> InWindow(log') <= Limit) /\ recent' = [recent EXCEPT ![1] = @ + k] /\ meter' \in Nat
    <2>1. /\ recent' = [recent EXCEPT ![1] = @ + IF InWindow(log') <= Limit THEN 1 ELSE 0]
          /\ meter' \in {meter, meter + Ticks} /\ meter \in Nat
      BY <1>1 DEF Answer, WindowSound
    <2> QED BY <1>2, <2>1
  <1> HIDE DEF k
  <1>4. /\ k \in {0, 1}
        /\ k = 1 <=> InWindow(log') <= Limit
        /\ recent' \in Slots /\ meter' \in Nat
        /\ recent'[1] = recent[1] + k /\ \A i \in 2..Ticks : recent'[i] = recent[i]
        /\ \A n \in 1..Ticks : Upto(recent', n) = Upto(recent, n) + k
    BY <1>a, AnswerIs
  <1>5. \A i \in 1..Ticks : recent'[i] <= log'[i]
    <2> TAKE i \in 1..Ticks
    <2>1. recent[i] \in Nat /\ log[i] \in Nat /\ recent[i] <= log[i] /\ (i = 1 \/ i \in 2..Ticks)
      BY <1>2 DEF LogKnown, Slots
    <2> QED BY <1>3, <1>4, <2>1
  <1>6. Upto(recent', Ticks) <= Limit
    <2>1. CASE k = 1
      <3>1. InWindow(log') = Upto(log', Ticks)
        BY DEF InWindow, Upto
      <3>2. Upto(recent', Ticks) <= Upto(log', Ticks) /\ Upto(recent', Ticks) \in Nat /\ Upto(log', Ticks) \in Nat
        BY <1>2, <1>3, <1>4, <1>5, UptoRelated, UptoIs
      <3> QED BY <1>2, <1>4, <2>1, <3>1, <3>2
    <2>2. CASE k = 0
      <3>1. Upto(recent, Ticks) \in Nat /\ Upto(recent, Ticks) <= Limit
        BY <1>2, UptoIs DEF LogKnown
      <3> QED BY <1>2, <1>4, <2>2, <3>1
    <2> QED BY <1>4, <2>1, <2>2
  <1>7. LogKnown'
    BY <1>5, <1>6 DEF LogKnown
  <1> QED BY <1>1, <1>3, <1>4, <1>7 DEF WindowSound

LEMMA BucketKeeps == ASSUME WindowSound, TakeToken PROVE WindowSound'
  <1> DEFINE full == Capacity * Ticks
             filled == bucket.tokens + bucket.since * Rate
             tokens == IF bucket.left = 0 \/ filled > full THEN full ELSE filled
             spent == IF tokens >= Ticks THEN tokens - Ticks ELSE tokens
  <1>1. /\ window = "bucket" /\ Answer(tokens >= Ticks) /\ UNCHANGED <<window, phase, keys, log>>
        /\ bucket' = [tokens |-> spent, since |-> 0, left |-> Life * Ticks]
    BY DEF TakeToken, Life
  <1>2. /\ BucketKnown /\ recent \in Slots /\ meter \in Nat /\ Ticks \in Nat \ {0, 1} /\ full \in Nat /\ Rate \in Nat
        /\ bucket.tokens \in Nat /\ bucket.since \in Nat /\ bucket.left \in Nat /\ Life * Ticks \in Nat \ {0}
    BY <1>1, LifeIs, WindowAssumption DEF WindowSound
  <1>3. filled \in Nat
    BY <1>2
  <1>4. /\ bucket.left = 0 => meter = 0
        /\ bucket.left > 0 => meter = 0 \/ meter + filled <= full
    <2>1. ASSUME bucket.left > 0, meter # 0 PROVE meter + filled <= full
      <3>1. meter + bucket.tokens + bucket.since * Rate <= Capacity * Ticks
        BY <1>2, <2>1 DEF BucketKnown
      <3>2. bucket.since * Rate \in Nat
        BY <1>2
      <3> QED BY <1>2, <3>1, <3>2
    <2> QED BY <1>2, <2>1 DEF BucketKnown
  <1> HIDE DEF full, filled
  <1>5. tokens \in Nat /\ tokens <= full /\ (meter = 0 \/ meter + tokens <= full)
    BY <1>2, <1>3, <1>4
  <1> DEFINE k == IF tokens >= Ticks THEN 1 ELSE 0
  <1>6. /\ k \in {0, 1} /\ recent' = [recent EXCEPT ![1] = @ + k]
        /\ meter' = IF tokens >= Ticks THEN meter + Ticks ELSE meter
    <2> HIDE DEF tokens
    <2> QED BY <1>1 DEF Answer
  <1> HIDE DEF k, tokens
  <1>7. /\ spent \in Nat /\ spent <= full /\ meter' \in Nat
        /\ meter' = 0 \/ meter' + spent <= full
    BY <1>2, <1>5, <1>6
  <1>8. recent' \in Slots
    BY <1>6, AnswerIs
  <1> HIDE DEF spent
  <1>9. /\ bucket' \in [tokens : Nat, since : Nat, left : Nat]
        /\ bucket'.tokens = spent /\ bucket'.since = 0 /\ bucket'.left = Life * Ticks
    BY <1>1, <1>2, <1>7
  <1>10. BucketKnown'
    <2>1. 0 * Rate = 0 /\ meter' + spent + 0 = meter' + spent /\ 0 + Life * Ticks = Life * Ticks
      BY <1>2, <1>7
    <2>2. meter' + bucket'.tokens + bucket'.since * Rate = meter' + spent
      BY <1>9, <2>1
    <2> QED BY <1>2, <1>7, <1>9, <2>1, <2>2 DEF BucketKnown, full
  <1> QED BY <1>1, <1>7, <1>8, <1>9, <1>10 DEF WindowSound

Aged(key) == IF key.left <= 1 THEN NoKey ELSE [key EXCEPT !.left = @ - 1]

\* Time passes in every window.
LEMMA TickKeeps == ASSUME WindowSound, NextTick PROVE WindowSound'
  <1> DEFINE this == keys["this"]
             last == keys["last"]
             key == keys["search"]
             turn == phase + 1 = Ticks
  <1>1. /\ phase' = (IF turn \/ window # "qps" THEN 0 ELSE phase + 1)
        /\ keys' = [keys EXCEPT !["search"] = Aged(key), !["last"] = Aged(IF turn THEN this ELSE last),
                                !["this"] = IF turn THEN NoKey ELSE Aged(this)]
        /\ log' = Later(log) /\ recent' = Later(recent) /\ window' = window
        /\ bucket' = (IF bucket.left <= 1 THEN [tokens |-> 0, since |-> 0, left |-> 0]
                      ELSE [bucket EXCEPT !.since = @ + 1, !.left = @ - 1])
        /\ meter' = (IF meter > Rate THEN meter - Rate ELSE 0)
    BY DEF NextTick, Aged
  <1>2. /\ keys \in [{"this", "last", "search"} -> KeyRows] /\ recent \in Slots /\ log \in Slots /\ meter \in Nat
        /\ bucket \in [tokens : Nat, since : Nat, left : Nat]
    BY DEF WindowSound
  <1>t. Ticks \in Nat \ {0, 1} /\ Rate \in Nat \ {0} /\ Limit \in Nat \ {0}
    BY WindowAssumption
  <1>3. ASSUME NEW x \in KeyRows
        PROVE  /\ Aged(x) \in KeyRows
               /\ x.left > 1 => Aged(x).count = x.count /\ Aged(x).left = x.left - 1
               /\ x.left <= 1 => Aged(x).count = 0 /\ Aged(x).left = 0
               /\ x.count = 0 => Aged(x).count = 0
    BY DEF Aged, NoKey, KeyRows
  <1>4. this \in KeyRows /\ last \in KeyRows /\ key \in KeyRows
    BY <1>2
  <1>5. NoKey \in KeyRows /\ NoKey.count = 0 /\ NoKey.left = 0
    BY DEF NoKey, KeyRows
  <1>6. /\ keys' \in [{"this", "last", "search"} -> KeyRows]
        /\ keys'["search"] = Aged(key) /\ keys'["last"] = Aged(IF turn THEN this ELSE last)
        /\ keys'["this"] = IF turn THEN NoKey ELSE Aged(this)
    <2>1. Aged(key) \in KeyRows /\ Aged(this) \in KeyRows /\ Aged(IF turn THEN this ELSE last) \in KeyRows
      BY <1>3, <1>4
    <2> HIDE DEF this, last, key, turn
    <2> QED BY <1>1, <1>2, <1>5, <2>1
  <1>7. bucket' \in [tokens : Nat, since : Nat, left : Nat] /\ meter' \in Nat
    <2>1. bucket.left \in Nat /\ bucket.since \in Nat /\ bucket.tokens \in Nat
      BY <1>2
    <2>4. meter' \in Nat
      BY <1>1, <1>2, <1>t
    <2>2. CASE bucket.left <= 1
      BY <1>1, <2>2, <2>4
    <2>3. CASE ~(bucket.left <= 1)
      <3>1. bucket.left - 1 \in Nat /\ bucket.since + 1 \in Nat
        BY <2>1, <2>3
      <3>2. bucket' = [tokens |-> bucket.tokens, since |-> bucket.since + 1, left |-> bucket.left - 1]
        BY <1>1, <1>2, <2>3
      <3> QED BY <2>1, <2>4, <3>1, <3>2
    <2> QED BY <2>2, <2>3, <2>4
  <1>8. /\ recent' \in Slots /\ log' \in Slots
        /\ recent'[1] = 0 /\ \A i \in 2..Ticks : recent'[i] = recent[i - 1]
        /\ log'[1] = 0 /\ \A i \in 2..Ticks : log'[i] = log[i - 1]
        /\ \A n \in 1..Ticks : Upto(recent', n) = Upto(recent, n - 1)
    BY <1>1, <1>2, Slid
  <1>9. /\ \A n \in 0..Ticks : Upto(recent, n) \in Nat
        /\ Upto(recent, 0) = 0
        /\ Upto(recent, Ticks) = Upto(recent, Ticks - 1) + recent[Ticks] /\ recent[Ticks] \in Nat
        /\ Upto(recent, Ticks - 1) \in Nat /\ Upto(recent, Ticks) \in Nat /\ Upto(recent', Ticks) = Upto(recent, Ticks - 1)
    <2>1. /\ Ticks - 1 \in 0..(Ticks - 1) /\ (Ticks - 1) + 1 = Ticks /\ Ticks \in 1..Ticks
          /\ Ticks \in 0..Ticks /\ Ticks - 1 \in 0..Ticks
      BY <1>t
    <2>2. Upto(recent, (Ticks - 1) + 1) = Upto(recent, Ticks - 1) + recent[(Ticks - 1) + 1]
      BY <1>2, <2>1, UptoIs
    <2>3. recent[Ticks] \in Nat
      BY <1>2, <2>1 DEF Slots
    <2>4. \A n \in 0..Ticks : Upto(recent, n) \in Nat
      BY <1>2, UptoIs
    <2>5. Upto(recent, 0) = 0
      BY <1>2, UptoIs
    <2>6. Upto(recent', Ticks) = Upto(recent, Ticks - 1)
      BY <1>8, <2>1
    <2> QED BY <2>1, <2>2, <2>3, <2>4, <2>5, <2>6
  <1> HIDE DEF this, last, key, turn
  <1>10. ASSUME window = "qps" PROVE QpsKnown'
    <2>1. /\ phase \in 0..(Ticks - 1) /\ last.count <= Limit
          /\ Ticks * this.count + last.count * (Ticks - phase) < Limit * Ticks + Ticks
          /\ Upto(recent, phase + 1) = this.count
          /\ Upto(recent, Ticks) <= this.count + last.count
          /\ this.count > 0 => this.left >= 2 * Ticks - phase
          /\ last.count > 0 => last.left >= Ticks - phase
      BY <1>10 DEF WindowSound, QpsKnown, this, last
    <2>2. /\ this.count \in Nat /\ last.count \in Nat /\ this.left \in Nat /\ last.left \in Nat
          /\ phase \in Nat /\ phase + 1 <= Ticks
      BY <1>4, <1>t, <2>1 DEF KeyRows
    <2>3. Aged(this).count = this.count /\ (this.count > 0 => Aged(this).left = this.left - 1)
      <3>1. this.count > 0 => this.left > 1
        BY <1>t, <2>1, <2>2
      <3> QED BY <1>3, <1>4, <2>2, <3>1
    <2>4. CASE turn
      <3>1. phase + 1 = Ticks /\ phase' = 0
        BY <1>1, <2>4 DEF turn
      <3>2. keys'["last"] = Aged(this) /\ keys'["this"] = NoKey
        BY <1>6, <2>4
      <3>3. Upto(recent', 1) = 0
        <4>1. 1 \in 1..Ticks /\ 1 - 1 = 0
          BY <1>t
        <4> QED BY <1>8, <1>9, <4>1
      <3>4. Upto(recent', Ticks) <= this.count
        BY <1>9, <2>1, <2>2, <3>1
      <3>5. Ticks * this.count < Limit * Ticks + Ticks
        <4>1. last.count * (Ticks - phase) \in Nat /\ Ticks * this.count \in Nat /\ Limit * Ticks \in Nat
          BY <1>t, <2>2
        <4> QED BY <1>t, <2>1, <4>1
      <3>6. this.count <= Limit
        <4> SUFFICES ASSUME this.count > Limit PROVE FALSE
          BY <1>t, <2>2
        <4>1. PICK d \in Nat : this.count = Limit + 1 + d
          <5>1. this.count - Limit - 1 \in Nat
            BY <1>t, <2>2
          <5>2. this.count = Limit + 1 + (this.count - Limit - 1)
            BY <1>t, <2>2
          <5> QED BY <5>1, <5>2
        <4>2. Ticks * (Limit + 1 + d) = Limit * Ticks + Ticks + Ticks * d /\ Ticks * d \in Nat /\ Limit * Ticks \in Nat
          BY <1>t
        <4> QED BY <1>t, <3>5, <4>1, <4>2
      <3>7. Ticks * 0 + this.count * (Ticks - 0) < Limit * Ticks + Ticks
        <4>1. Ticks * 0 = 0 /\ this.count * (Ticks - 0) = Ticks * this.count /\ Ticks * this.count \in Nat
          BY <1>t, <2>2
        <4> QED BY <3>5, <4>1
      <3>8. this.count > 0 => Aged(this).left >= Ticks - 0
        BY <1>t, <2>1, <2>2, <2>3, <3>1
      <3>9. /\ keys'["this"].count = 0 /\ keys'["last"].count = this.count /\ keys'["last"].left = Aged(this).left
        BY <1>5, <2>3, <3>2
      <3> QED BY <1>t, <2>2, <3>1, <3>3, <3>4, <3>6, <3>7, <3>8, <3>9 DEF QpsKnown
    <2>5. CASE ~turn
      <3>1. phase' = phase + 1 /\ phase + 1 \in 0..(Ticks - 1) /\ phase + 2 \in 1..Ticks
        BY <1>1, <1>10, <1>t, <2>2, <2>5 DEF turn
      <3>2. keys'["last"] = Aged(last) /\ keys'["this"] = Aged(this)
        BY <1>6, <2>5
      <3>3. Aged(last).count = last.count /\ (last.count > 0 => Aged(last).left = last.left - 1)
        <4>1. last.count > 0 => last.left > 1
          BY <1>t, <2>1, <2>2, <3>1
        <4> QED BY <1>3, <1>4, <2>2, <4>1
      <3>4. Upto(recent', phase + 2) = this.count
        <4>1. (phase + 2) - 1 = phase + 1
          BY <2>2
        <4> QED BY <1>8, <2>1, <3>1, <4>1
      <3>5. Upto(recent', Ticks) <= this.count + last.count
        BY <1>9, <2>1, <2>2
      <3>6. Ticks * this.count + last.count * (Ticks - (phase + 1)) < Limit * Ticks + Ticks
        <4>1. /\ last.count * (Ticks - phase) = last.count * (Ticks - (phase + 1)) + last.count
              /\ last.count * (Ticks - (phase + 1)) \in Nat /\ Ticks * this.count \in Nat /\ Limit * Ticks \in Nat
          BY <1>t, <2>2, <3>1
        <4> QED BY <1>t, <2>1, <2>2, <4>1
      <3>7. /\ this.count > 0 => Aged(this).left >= 2 * Ticks - (phase + 1)
            /\ last.count > 0 => Aged(last).left >= Ticks - (phase + 1)
        BY <1>t, <2>1, <2>2, <2>3, <3>3
      <3>8. (phase + 1) + 1 = phase + 2
        BY <2>2
      <3> QED BY <2>1, <2>3, <3>1, <3>2, <3>3, <3>4, <3>5, <3>6, <3>7, <3>8 DEF QpsKnown
    <2> QED BY <2>4, <2>5
  <1>11. ASSUME window = "search" PROVE SearchKnown'
    <2> DEFINE m == Ticks - key.left + 1
    <2>1. key.count \in Nat /\ key.left \in Nat /\ SearchKnown
      BY <1>4, <1>11 DEF KeyRows, WindowSound
    <2>2. CASE key.count = 0
      <3>1. key.left = 0 /\ Upto(recent, Ticks) < Limit
        BY <2>1, <2>2 DEF SearchKnown, key
      <3>2. keys'["search"].count = 0 /\ keys'["search"].left = 0
        BY <1>3, <1>4, <1>6, <2>2, <3>1
      <3>3. Upto(recent', Ticks) < Limit
        BY <1>9, <1>t, <3>1
      <3> QED BY <1>8, <3>2, <3>3 DEF SearchKnown
    <2>3. CASE key.count # 0
      <3>1. /\ key.left \in 1..Ticks /\ recent[m] > 0
            /\ Upto(recent, m) <= key.count /\ Upto(recent, m) <= Limit
            /\ Upto(recent, Ticks) < Upto(recent, m) + Limit
        BY <2>1, <2>3 DEF SearchKnown, key
      <3>2. CASE key.left = 1
        <4>1. keys'["search"].count = 0 /\ keys'["search"].left = 0
          BY <1>3, <1>4, <1>6, <3>2
        <4>2. m = Ticks
          BY <1>t, <3>2
        <4>3. recent[Ticks] > 0 /\ Upto(recent, Ticks) <= Limit
          BY <3>1, <4>2
        <4>4. Upto(recent', Ticks) < Limit
          BY <1>9, <1>t, <4>3
        <4> QED BY <1>8, <4>1, <4>4 DEF SearchKnown
      <3>3. CASE key.left # 1
        <4>1. keys'["search"].count = key.count /\ keys'["search"].left = key.left - 1 /\ key.left > 1
          BY <1>3, <1>4, <1>6, <1>t, <2>1, <3>1, <3>3
        <4>2. /\ m \in 1..Ticks /\ m + 1 \in 2..Ticks /\ m + 1 \in 1..Ticks /\ m \in 0..Ticks /\ (m + 1) - 1 = m
              /\ key.left - 1 \in 1..Ticks /\ Ticks - (key.left - 1) + 1 = m + 1
          BY <1>t, <2>1, <3>1, <4>1
        <4> HIDE DEF m
        <4>3. recent'[m + 1] = recent[m] /\ Upto(recent', m + 1) = Upto(recent, m)
          BY <1>8, <4>2
        <4>4. Upto(recent', Ticks) < Upto(recent', m + 1) + Limit
          BY <1>9, <1>t, <3>1, <4>2, <4>3
        <4>5. Ticks - keys'["search"].left + 1 = m + 1
          BY <4>1, <4>2
        <4> QED BY <2>3, <3>1, <4>1, <4>2, <4>3, <4>4, <4>5 DEF SearchKnown
      <3> QED BY <3>2, <3>3
    <2> QED BY <2>2, <2>3
  <1>12. ASSUME window = "log" PROVE LogKnown'
    <2>1. (\A i \in 1..Ticks : recent[i] <= log[i]) /\ Upto(recent, Ticks) <= Limit
      BY <1>12 DEF WindowSound, LogKnown
    <2>2. \A i \in 1..Ticks : recent'[i] <= log'[i]
      <3> TAKE i \in 1..Ticks
      <3>1. CASE i = 1
        BY <1>8, <3>1
      <3>2. CASE i # 1
        <4>1. i \in 2..Ticks /\ i - 1 \in 1..Ticks
          BY <1>t, <3>2
        <4> QED BY <1>8, <2>1, <4>1
      <3> QED BY <3>1, <3>2
    <2>3. Upto(recent', Ticks) <= Limit
      BY <1>9, <1>t, <2>1
    <2> QED BY <2>2, <2>3 DEF LogKnown
  <1>13. ASSUME window = "bucket" PROVE BucketKnown'
    <2> DEFINE full == Capacity * Ticks
               life == Life * Ticks
    <2>1. /\ bucket.tokens \in Nat /\ bucket.since \in Nat /\ bucket.left \in Nat /\ full \in Nat
          /\ life \in Nat \ {0} /\ life * Rate >= full
      BY <1>2, LifeIs
    <2>2. /\ bucket.left = 0 => meter = 0
          /\ bucket.left > 0 =>
                /\ bucket.since + bucket.left = life
                /\ bucket.tokens <= full
                /\ meter = 0 \/ meter + bucket.tokens + bucket.since * Rate <= full
      BY <1>13 DEF WindowSound, BucketKnown
    <2>f. BucketKnown' = (/\ bucket'.left = 0 => meter' = 0
                          /\ bucket'.left > 0 =>
                                /\ bucket'.since + bucket'.left = life
                                /\ bucket'.tokens <= full
                                /\ meter' = 0 \/ meter' + bucket'.tokens + bucket'.since * Rate <= full)
      BY DEF BucketKnown
    <2> HIDE DEF full, life
    <2>3. CASE bucket.left = 0
      <3>1. bucket'.left = 0 /\ meter' = 0
        BY <1>1, <1>t, <2>2, <2>3
      <3> QED BY <2>f, <3>1
    <2>4. CASE bucket.left = 1
      <3>1. bucket'.left = 0
        BY <1>1, <2>4
      <3>2. meter' = 0
        <4>1. CASE meter = 0
          BY <1>1, <1>t, <4>1
        <4>2. CASE meter # 0
          <5>1. meter + bucket.tokens + bucket.since * Rate <= full /\ bucket.since + 1 = life
            BY <2>2, <2>4, <4>2
          <5>2. (bucket.since + 1) * Rate = bucket.since * Rate + Rate /\ bucket.since * Rate \in Nat
            BY <1>t, <2>1
          <5>3. meter <= Rate
            BY <1>2, <1>t, <2>1, <5>1, <5>2
          <5> QED BY <1>1, <1>2, <1>t, <5>3
        <4> QED BY <4>1, <4>2
      <3> QED BY <2>f, <3>1, <3>2
    <2>5. CASE bucket.left > 1
      <3>1. /\ bucket'.since = bucket.since + 1 /\ bucket'.left = bucket.left - 1 /\ bucket'.tokens = bucket.tokens
        BY <1>1, <1>2, <2>1, <2>5
      <3>2. (bucket.since + 1) * Rate = bucket.since * Rate + Rate /\ bucket.since * Rate \in Nat
        BY <1>t, <2>1
      <3>3. meter' = 0 \/ meter' + bucket.tokens + (bucket.since + 1) * Rate <= full
        <4>1. CASE meter > Rate
          <5>1. meter' = meter - Rate /\ meter # 0
            BY <1>1, <1>t, <4>1
          <5> QED BY <1>2, <1>t, <2>1, <2>2, <2>5, <3>2, <5>1
        <4>2. CASE ~(meter > Rate)
          BY <1>1, <4>2
        <4> QED BY <4>1, <4>2
      <3>4. bucket'.left > 0 /\ bucket'.since + bucket'.left = life /\ bucket'.tokens <= full
        BY <2>1, <2>2, <2>5, <3>1
      <3> QED BY <2>f, <3>1, <3>3, <3>4
    <2> QED BY <2>1, <2>3, <2>4, <2>5
  <1> QED BY <1>1, <1>6, <1>7, <1>8, <1>10, <1>11, <1>12, <1>13 DEF WindowSound

LEMMA WindowStep == WindowSound /\ [WindowNext]_windowVars => WindowSound'
  <1> SUFFICES ASSUME WindowSound, [WindowNext]_windowVars PROVE WindowSound'
    OBVIOUS
  <1>1. CASE UNCHANGED windowVars
    BY <1>1 DEF windowVars, WindowSound, QpsKnown, SearchKnown, LogKnown, BucketKnown, Upto
  <1> QED BY <1>1, QpsKeeps, SearchKeeps, LogKeeps, BucketKeeps, TickKeeps DEF WindowNext

\* What the windows admit is bounded wherever a second begins: middleware/rate_limit.py,
\* agents/web_search.py and the reusable limiters, for every limit, rate and capacity and
\* however finely a second is cut.
THEOREM AlwaysBounded == WindowSpec => []AdmittedIsBounded
  <1>1. WindowSound => AdmittedIsBounded
    <2> SUFFICES ASSUME WindowSound PROVE AdmittedIsBounded
      OBVIOUS
    <2>1. /\ InWindow(recent) = Upto(recent, Ticks) /\ Upto(recent, Ticks) \in Nat
          /\ Ticks \in Nat \ {0, 1} /\ Limit \in Nat \ {0}
      <3>1. Ticks \in Nat \ {0, 1} /\ Limit \in Nat \ {0} /\ Ticks \in 0..Ticks
        BY WindowAssumption
      <3> QED BY <3>1, UptoIs DEF InWindow, Upto, WindowSound
    <2>2. ASSUME window = "qps" PROVE Ticks * InWindow(recent) < (2 * Ticks - 2) * Limit + Ticks
      <3> DEFINE a == keys["this"].count
                 b == keys["last"].count
                 w == Upto(recent, Ticks)
      <3>1. /\ a \in Nat /\ b \in Nat /\ w \in Nat /\ phase \in 0..(Ticks - 1) /\ b <= Limit /\ w <= a + b
            /\ Ticks * a + b * (Ticks - phase) < Limit * Ticks + Ticks
            /\ Upto(recent, phase + 1) = a
        BY <2>1, <2>2 DEF WindowSound, QpsKnown, KeyRows
      <3>2. (2 * Ticks - 2) * Limit = Limit * Ticks + (Ticks - 2) * Limit
        BY <2>1
      <3>3. CASE phase = Ticks - 1
        <4>1. w = a /\ b * (Ticks - phase) = b
          <5>1. phase + 1 = Ticks /\ Ticks - phase = 1
            BY <2>1, <3>3
          <5> QED BY <3>1, <5>1
        <4> HIDE DEF a, b, w
        <4>2. Ticks * w < Limit * Ticks + Ticks /\ (Ticks - 2) * Limit \in Nat /\ Ticks * w \in Nat
          BY <2>1, <3>1, <4>1
        <4> QED BY <2>1, <3>2, <4>2 DEF w
      <3>4. CASE phase # Ticks - 1
        <4>1. PICK e \in Nat : Ticks - 2 = phase + e
          <5>1. Ticks - 2 - phase \in Nat /\ Ticks - 2 = phase + (Ticks - 2 - phase)
            BY <2>1, <3>1, <3>4
          <5> QED BY <5>1
        <4>2. PICK d \in Nat : Limit = b + d
          <5>1. Limit - b \in Nat /\ Limit = b + (Limit - b)
            BY <2>1, <3>1
          <5> QED BY <5>1
        <4>3. PICK f \in Nat : a + b = w + f
          <5>1. a + b - w \in Nat /\ a + b = w + (a + b - w)
            BY <3>1
          <5> QED BY <5>1
        <4> HIDE DEF a, b, w
        <4>4. (Ticks - 2) * Limit = b * phase + (b * e + (phase + e) * d)
          BY <3>1, <4>1, <4>2
        <4>5. b * e \in Nat /\ (phase + e) * d \in Nat /\ b * phase \in Nat /\ b * (Ticks - phase) \in Nat
              /\ Ticks * f \in Nat /\ Ticks * w \in Nat /\ Ticks * a \in Nat /\ Limit * Ticks \in Nat
          BY <2>1, <3>1
        <4>6. Ticks * a + b * Ticks = Ticks * w + Ticks * f
          BY <2>1, <3>1, <4>3
        <4>7. b * Ticks = b * (Ticks - phase) + b * phase
          BY <2>1, <3>1
        <4>8. Ticks * w < Limit * Ticks + (Ticks - 2) * Limit + Ticks
          BY <2>1, <3>1, <4>4, <4>5, <4>6, <4>7
        <4> QED BY <2>1, <3>2, <4>8 DEF w
      <3> QED BY <3>3, <3>4
    <2>3. ASSUME window = "search" PROVE InWindow(recent) < 2 * Limit
      <3>1. SearchKnown /\ keys["search"] \in KeyRows
        BY <2>3 DEF WindowSound
      <3>2. CASE keys["search"].count = 0
        BY <2>1, <3>1, <3>2 DEF SearchKnown
      <3>3. CASE keys["search"].count # 0
        <4> DEFINE m == Ticks - keys["search"].left + 1
        <4>1. keys["search"].left \in 1..Ticks /\ Upto(recent, m) <= Limit
              /\ Upto(recent, Ticks) < Upto(recent, m) + Limit
          BY <3>1, <3>3 DEF SearchKnown
        <4>2. m \in 0..Ticks
          BY <2>1, <4>1
        <4> HIDE DEF m
        <4>3. Upto(recent, m) \in Nat
          BY <4>2, UptoIs DEF WindowSound
        <4> QED BY <2>1, <4>1, <4>3
      <3> QED BY <3>2, <3>3
    <2>4. ASSUME window = "log" PROVE InWindow(recent) <= Limit
      BY <2>1, <2>4 DEF WindowSound, LogKnown
    <2>5. ASSUME window = "bucket" PROVE meter <= Capacity * Ticks
      <3>1. /\ BucketKnown /\ meter \in Nat /\ bucket.tokens \in Nat /\ bucket.since \in Nat /\ bucket.left \in Nat
            /\ Rate \in Nat /\ Capacity * Ticks \in Nat
        BY <2>5, LifeIs, WindowAssumption DEF WindowSound
      <3>2. bucket.since * Rate \in Nat
        BY <3>1
      <3>3. meter = 0 \/ meter + bucket.tokens + bucket.since * Rate <= Capacity * Ticks
        BY <3>1 DEF BucketKnown
      <3> QED BY <3>1, <3>2, <3>3
    <2> QED BY <2>2, <2>3, <2>4, <2>5 DEF AdmittedIsBounded
  <1> QED BY <1>1, WindowStart, WindowStep, PTL DEF WindowSpec
=============================================================================
