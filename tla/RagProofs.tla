----------------------------- MODULE RagProofs -----------------------------
(***************************************************************************)
(* Proofs about RagActions, for every number of requests, incidents,       *)
(* workers, chunks and change sets, and for every policy; and about        *)
(* RagMonitor, for every number of traces, rules, processes and rule sets. *)
(***************************************************************************)
EXTENDS RagActions, RagMonitor, SetFacts

RowStatuses == {"none", "executing"} \cup Unstarted \cup Ended
Section == {"begin", "change", "gate", "undo", "finish"}
WorkSteps == {"idle", "lock"} \cup Section

IsResult(x) == x = [changed |-> x.changed, was |-> x.was] /\ x.changed \in BOOLEAN

IsRow(x) ==
    /\ x = [status |-> x.status, approved |-> x.approved, token |-> x.token, lapsed |-> x.lapsed,
            cooling |-> x.cooling, result |-> x.result]
    /\ x.status \in RowStatuses /\ x.approved \in BOOLEAN /\ x.lapsed \in BOOLEAN /\ x.cooling \in BOOLEAN
    /\ x.token \in Workers \cup {None} /\ IsResult(x.result)

IsWorker(x) ==
    /\ x = [pc |-> x.pc, act |-> x.act, base |-> x.base, result |-> x.result, end |-> x.end]
    /\ x.pc \in WorkSteps /\ x.end \in {"none", "succeeded", "failed", "rolled_back"}
    /\ x.act \in Requests \cup {None} /\ (x.pc # "idle" => x.act \in Requests)
    /\ (x.pc = "finish" => x.end # "none") /\ IsResult(x.result)

Shapes ==
    /\ row = [r \in Requests |-> row[r]] /\ \A r \in Requests : IsRow(row[r])
    /\ worker = [w \in Workers |-> worker[w]] /\ \A w \in Workers : IsWorker(worker[w])
    /\ lock \in Workers \cup {None}
    /\ manual \in [act : Requests \cup {None}, end : {"none", "rolled_back", "failed"}]
    /\ manual.act # None => manual.end = "rolled_back"
    /\ incident \in [Incidents -> {"open", "acknowledged", "resolved", "closed"}]
    /\ StoreType

LEMMA Blank ==
    /\ IsRow(NoRow) /\ NoRow.status = "none" /\ ~NoRow.approved
    /\ IsWorker(Idle) /\ Idle.pc = "idle" /\ Idle.act = None /\ Idle.end = "none"
  <1>1. IsResult(NoResult)
    BY DEF IsResult, NoResult
  <1>2. IsRow(NoRow) /\ NoRow.status = "none" /\ ~NoRow.approved
    BY <1>1 DEF IsRow, NoRow, RowStatuses
  <1>3. IsWorker(Idle) /\ Idle.pc = "idle" /\ Idle.act = None /\ Idle.end = "none"
    BY <1>1 DEF IsWorker, Idle, WorkSteps
  <1> QED BY <1>2, <1>3

LEMMA InitShapes == Init => Shapes
  <1> SUFFICES ASSUME Init
               PROVE  Shapes
    OBVIOUS
  <1>1. StoreType
    BY StoreAssumption DEF Init, StoreInit, StoreType
  <1> QED BY <1>1, Blank DEF Init, Shapes

\* A worker that moves leaves the others where they are.
Moves(w) ==
    /\ IsWorker(worker'[w]) /\ worker'[w].act = worker[w].act
    /\ worker' = [v \in Workers |-> worker'[v]]
    /\ \A v \in Workers \ {w} : worker'[v] = worker[v]

Rests(w) == worker' = [worker EXCEPT ![w] = Idle]

LEMMA GoesMoves ==
    ASSUME Shapes, NEW w \in Workers, NEW pc \in WorkSteps \ {"idle", "finish"},
           worker[w].pc # "idle", Goes(w, pc)
    PROVE  Moves(w) /\ worker'[w].pc = pc
  BY DEF Goes, Moves, Shapes, IsWorker

LEMMA EndsMoves ==
    ASSUME Shapes, NEW w \in Workers, NEW s \in {"succeeded", "failed", "rolled_back"},
           worker[w].pc # "idle", Ends(w, s)
    PROVE  Moves(w) /\ worker'[w].pc = "finish" /\ worker'[w].end = s
  <1>1. worker'[w] = [worker[w] EXCEPT !.pc = "finish", !.end = s]
    BY DEF Ends, Shapes
  <1>2. worker' = [v \in Workers |-> worker'[v]] /\ \A v \in Workers \ {w} : worker'[v] = worker[v]
    BY DEF Ends, Shapes
  <1>3. IsWorker(worker[w])
    BY DEF Shapes
  <1> QED BY <1>1, <1>2, <1>3 DEF Moves, IsWorker, WorkSteps, Section

-----------------------------------------------------------------------------
(* The inductive invariant.                                                *)

SetOf(r) == RequestOf[r].set
Changes(r) == Key(r) = "apply_knowledge_change"

Automatic(r) == Risk[Key(r)] = "L0" \/ (Risk[Key(r)] = "L1" /\ AutoL1)
Carryable(r) == Risk[Key(r)] # "L3" /\ (row[r].approved \/ Automatic(r))

\* Only what may be carried out is queued, and what was approved was valid when it was.
RowsSound ==
    \A r \in Requests :
        /\ row[r].status \in Carried => Carryable(r)
        /\ row[r].status = "waiting_approval" => Risk[Key(r)] # "L3"
        /\ row[r].approved => row[r].status # "none" /\ ValidParams(r)

Shared(r) == \E q \in Requests \ {r} : SetOf(q) = SetOf(r)
Stands(r) == set[SetOf(r)].status = "applied" \/ Shared(r)

\* A worker carries out what may be; it alone is past the lock, and as long as it is there
\* its action does not count as succeeded.
WorkerSound(w) ==
    LET r == worker[w].act IN
    /\ worker[w].pc # "idle" => row[r].status # "none" /\ Carryable(r)
    /\ worker[w].pc = "lock" => row[r].status = "executing" /\ row[r].token = w /\ ~row[r].lapsed
    /\ worker[w].pc \in Section => lock = w /\ row[r].status # "succeeded"
    /\ worker[w].pc = "gate" \/ (worker[w].pc = "finish" /\ worker[w].end = "succeeded") =>
         (Changes(r) => Stands(r))

\* What is rolled back by hand counts as succeeded until the rollback is recorded.
ManualSound == manual.act # None => row[manual.act].status = "succeeded"

SetsApproved ==
    \A s \in Sets :
        set[s].status \in {"applied", "rolled_back"} =>
            \E r \in Requests : SetOf(r) = s /\ row[r].approved

ActionsSound == RowsSound /\ (\A w \in Workers : WorkerSound(w)) /\ ManualSound /\ SetsApproved /\ RollbackOnRecord

\* What was there at first is never deleted, being added by no change set; and a change set
\* that was not applied remembers nothing.
StoreKnown ==
    /\ \A c \in Stored : chunk[c] # "absent"
    /\ \A s \in Sets : set[s].status \in {"none", "pending_approval"} => set[s].snapshot = {}
    /\ \A s \in Sets : Adds(s) => set[s].snapshot \cap Stored = {}

Owners(c) == {s \in Sets : Adds(s) /\ set[s].status = "applied" /\ c \in set[s].snapshot}

\* StoreMatchesSets without numbers.
Matches ==
    \A c \in Chunks \ Stored :
        /\ \A s, t \in Owners(c) : s = t
        /\ chunk[c] # "absent" <=> Owners(c) # {}

StoreSound == StoreKnown /\ OneTextPerArticle /\ Matches

Inductive == Shapes /\ ActionsSound /\ StoreSound

\* A change set is applied and taken back for an approved request only, whose change set
\* is one of those there are.
LEMMA ChangesApproved ==
    ASSUME RowsSound, NEW r \in Requests, Changes(r), Carryable(r)
    PROVE  row[r].approved /\ SetOf(r) \in Sets
  <1>1. Risk[Key(r)] = "L2"
    BY DEF Changes, Risk
  <1>2. row[r].approved /\ ValidParams(r)
    BY <1>1 DEF RowsSound, Carryable, Automatic
  <1> QED BY <1>2 DEF ValidParams, Changes, SetOf

-----------------------------------------------------------------------------
(* The store.                                                              *)

StoreStep ==
    \/ UNCHANGED <<chunk, set, restored>>
    \/ \E s \in Sets :
         \/ CreateSet(s) /\ UNCHANGED <<chunk, restored>>
         \/ Applicable(s) /\ ApplyChangeSet(s)
         \/ RollbackChangeSet(s)

LEMMA StoreKeepsType == StoreType /\ StoreStep => StoreType'
  <1> SUFFICES ASSUME StoreType, StoreStep
               PROVE  StoreType'
    OBVIOUS
  <1>1. CASE UNCHANGED <<chunk, set, restored>>
    BY <1>1 DEF StoreType
  <1>2. ASSUME NEW s \in Sets, CreateSet(s), UNCHANGED <<chunk, restored>>
        PROVE  StoreType'
    BY <1>2 DEF StoreType, CreateSet
  <1>3. ASSUME NEW s \in Sets, ApplyChangeSet(s)
        PROVE  StoreType'
    <2>1. Snapshot(s) \subseteq Chunks
      BY StoreAssumption DEF Snapshot, Valid, Items
    <2> QED BY <1>3, <2>1 DEF StoreType, ApplyChangeSet, Written
  <1>4. ASSUME NEW s \in Sets, RollbackChangeSet(s)
        PROVE  StoreType'
    <2>1. Reversed(s) \subseteq Chunks
      BY DEF Reversed, StoreType
    <2> QED BY <1>4, <2>1 DEF StoreType, RollbackChangeSet
  <1> QED BY <1>1, <1>2, <1>3, <1>4 DEF StoreStep

\* A chunk that is added was absent, so that no other change set owns it; what a rollback
\* deletes was owned by this change set alone.
LEMMA StoreKeepsSound == StoreType /\ StoreSound /\ StoreStep => StoreSound'
  <1> SUFFICES ASSUME StoreType, StoreSound, StoreStep
               PROVE  StoreSound'
    OBVIOUS
  <1>0. StoreType'
    BY StoreKeepsType
  <1>1. CASE UNCHANGED <<chunk, set, restored>>
    BY <1>1 DEF StoreSound, StoreKnown, OneTextPerArticle, Matches, Owners, Valid
  <1>2. ASSUME NEW s \in Sets, CreateSet(s), UNCHANGED <<chunk, restored>>
        PROVE  StoreSound'
    <2>1. /\ set[s].status = "none" /\ set'[s].status = "pending_approval"
          /\ set'[s].snapshot = set[s].snapshot
          /\ \A t \in Sets \ {s} : set'[t] = set[t]
      BY <1>2 DEF CreateSet, StoreType
    <2>2. \A c \in Chunks : Owners(c)' = Owners(c)
      BY <2>1 DEF Owners
    <2> QED BY <1>2, <2>1, <2>2 DEF StoreSound, StoreKnown, OneTextPerArticle, Matches, Valid
  <1>3. ASSUME NEW s \in Sets, Applicable(s), ApplyChangeSet(s)
        PROVE  StoreSound'
    <2> DEFINE snap == Snapshot(s)
    <2>1. /\ set[s].status = "pending_approval" /\ set[s].snapshot = {}
          /\ set'[s].status = "applied" /\ set'[s].snapshot = snap
          /\ \A t \in Sets \ {s} : set'[t] = set[t]
      BY <1>3 DEF Applicable, ApplyChangeSet, StoreType, StoreSound, StoreKnown
    <2>2. /\ \A c \in Chunks : chunk'[c] = IF c \in snap THEN Written(s) ELSE chunk[c]
          /\ restored' = restored
      BY <1>3 DEF ApplyChangeSet
    <2>3. CASE Adds(s)
      <3>1. /\ snap = Items(s) /\ Written(s) = "valid" /\ \A c \in snap : c \in Chunks /\ chunk[c] = "absent"
            /\ \A c \in snap, d \in Valid : ~SameArticle(c, d)
        BY <1>3, <2>3, StoreAssumption DEF Applicable, FitsStore, Snapshot, Written, Items
      <3> HIDE DEF snap
      <3>2. StoreKnown'
        <4>1. snap \cap Stored = {}
          BY <3>1 DEF StoreKnown, StoreSound
        <4> QED BY <2>1, <2>2, <3>1, <4>1, StoreAssumption DEF StoreKnown, StoreSound
      <3>3. OneTextPerArticle'
        <4> SUFFICES ASSUME NEW c \in Valid', NEW d \in Valid', c # d, SameArticle(c, d)
                     PROVE  \/ {c, d} \subseteq Stored
                            \/ \E t \in Sets : Adds(t) /\ {c, d} \subseteq set'[t].snapshot
                            \/ c \in restored' \/ d \in restored'
          BY DEF OneTextPerArticle
        <4>1. /\ c \in snap \/ c \in Valid
              /\ d \in snap \/ d \in Valid
          BY <2>2 DEF Valid
        <4>2. CASE c \in snap /\ d \in snap
          BY <2>1, <2>3, <4>2
        <4>3. CASE c \in snap /\ d \in Valid
          BY <3>1, <4>3
        <4>4. CASE d \in snap /\ c \in Valid
          BY <3>1, <4>4 DEF SameArticle
        <4>5. CASE c \in Valid /\ d \in Valid
          BY <2>1, <2>2, <4>5 DEF StoreSound, OneTextPerArticle
        <4> QED BY <4>1, <4>2, <4>3, <4>4, <4>5
      <3>4. Matches'
        <4> SUFFICES ASSUME NEW c \in Chunks \ Stored
                     PROVE  /\ \A t, u \in Owners(c)' : t = u
                            /\ chunk'[c] # "absent" <=> Owners(c)' # {}
          BY DEF Matches
        <4>1. CASE c \in snap
          <5>1. Owners(c) = {}
            BY <3>1, <4>1 DEF StoreSound, Matches
          <5>2. Owners(c)' = {s}
            BY <2>1, <2>3, <4>1, <5>1 DEF Owners
          <5> QED BY <2>2, <3>1, <4>1, <5>2
        <4>2. CASE c \notin snap
          <5>1. Owners(c)' = Owners(c)
            BY <2>1, <4>2 DEF Owners
          <5> QED BY <2>2, <4>2, <5>1 DEF StoreSound, Matches
        <4> QED BY <4>1, <4>2
      <3> QED BY <3>2, <3>3, <3>4 DEF StoreSound
    <2>4. CASE ~Adds(s)
      <3>1. snap \subseteq Valid /\ Written(s) = "invalid"
        BY <2>4 DEF Snapshot, Written
      <3> HIDE DEF snap
      <3>2. \A c \in Chunks : Owners(c)' = Owners(c)
        BY <2>1, <2>4 DEF Owners
      <3>3. Valid' \subseteq Valid /\ \A c \in Chunks : chunk'[c] = "absent" <=> chunk[c] = "absent"
        BY <2>2, <3>1 DEF Valid
      <3>4. StoreKnown'
        BY <2>1, <2>4, <3>3, StoreAssumption DEF StoreKnown, StoreSound
      <3>5. OneTextPerArticle'
        BY <2>1, <2>2, <2>4, <3>3 DEF OneTextPerArticle, StoreSound
      <3> QED BY <3>2, <3>3, <3>4, <3>5 DEF StoreSound, Matches
    <2> QED BY <2>3, <2>4
  <1>4. ASSUME NEW s \in Sets, RollbackChangeSet(s)
        PROVE  StoreSound'
    <2> DEFINE back == Reversed(s)
    <2>1. /\ set[s].status = "applied" /\ set'[s].status = "rolled_back"
          /\ set'[s].snapshot = set[s].snapshot
          /\ \A t \in Sets \ {s} : set'[t] = set[t]
      BY <1>4 DEF RollbackChangeSet, StoreType
    <2>2. /\ \A c \in Chunks : chunk'[c] = IF c \notin back THEN chunk[c]
                                           ELSE IF Adds(s) THEN "absent" ELSE "valid"
          /\ restored' = IF Adds(s) THEN restored \ back ELSE restored \cup back
      BY <1>4 DEF RollbackChangeSet
    <2>3. CASE Adds(s)
      <3>1. back = set[s].snapshot
        BY <2>3 DEF Reversed
      <3> HIDE DEF back
      <3>2. \A c \in Chunks : c \in back => s \in Owners(c)
        BY <2>1, <2>3, <3>1 DEF Owners
      <3>3. \A c \in Chunks : Owners(c)' = Owners(c) \ {s}
        BY <2>1 DEF Owners
      <3>4. back \cap Stored = {}
        BY <2>3, <3>1 DEF StoreSound, StoreKnown
      <3>5. StoreKnown'
        BY <2>1, <2>2, <3>4, StoreAssumption DEF StoreSound, StoreKnown
      <3>6. OneTextPerArticle'
        <4>1. Valid' \subseteq Valid \ back
          BY <2>2, <2>3 DEF Valid
        <4> QED BY <2>1, <2>2, <2>3, <4>1 DEF StoreSound, OneTextPerArticle
      <3>7. Matches'
        <4> SUFFICES ASSUME NEW c \in Chunks \ Stored
                     PROVE  /\ \A t, u \in Owners(c)' : t = u
                            /\ chunk'[c] # "absent" <=> Owners(c)' # {}
          BY DEF Matches
        <4>1. CASE c \in back
          BY <2>2, <2>3, <3>2, <3>3, <4>1 DEF StoreSound, Matches
        <4>2. CASE c \notin back
          <5>1. s \notin Owners(c)
            BY <3>1, <4>2 DEF Owners
          <5> QED BY <2>2, <3>3, <4>2, <5>1 DEF StoreSound, Matches
        <4> QED BY <4>1, <4>2
      <3> QED BY <3>5, <3>6, <3>7 DEF StoreSound
    <2>4. CASE ~Adds(s)
      <3>1. \A c \in back : chunk[c] = "invalid"
        BY <2>4 DEF Reversed
      <3> HIDE DEF back
      <3>2. \A c \in Chunks : Owners(c)' = Owners(c)
        BY <2>1, <2>4 DEF Owners
      <3>3. \A c \in Chunks : /\ chunk'[c] = "absent" <=> chunk[c] = "absent"
                              /\ chunk'[c] = "valid" => chunk[c] = "valid" \/ c \in restored'
        BY <2>2, <2>4, <3>1
      <3>4. StoreKnown'
        BY <2>1, <2>4, <3>3, StoreAssumption DEF StoreKnown, StoreSound
      <3>5. OneTextPerArticle'
        BY <2>1, <2>2, <2>4, <3>3 DEF OneTextPerArticle, StoreSound, Valid
      <3> QED BY <3>2, <3>3, <3>4, <3>5 DEF StoreSound, Matches
    <2> QED BY <2>3, <2>4
  <1> QED BY <1>1, <1>2, <1>3, <1>4 DEF StoreStep

-----------------------------------------------------------------------------
(* What a step may do to a row, and what that keeps.                       *)

\* A worker past the lock has ended r, and what r applied stands.
Completed(r) ==
    /\ Changes(r) => set'[SetOf(r)].status = "applied" \/ Shared(r)
    /\ \A v \in Workers : worker'[v] = worker[v] => worker[v].pc \notin Section

RowChange(r) ==
    /\ IsRow(row'[r])
    /\ row[r].approved => row'[r].approved
    /\ row[r].status # "none" => row'[r].status # "none"
    /\ row'[r].approved => row'[r].status # "none" /\ ValidParams(r)
    /\ row'[r].status \in Carried => Risk[Key(r)] # "L3" /\ (row'[r].approved \/ Automatic(r))
    /\ row'[r].status = "waiting_approval" => Risk[Key(r)] # "L3"
    /\ row'[r].status = "succeeded" => row[r].status = "succeeded" \/ Completed(r)
    /\ \A w \in Workers :
         worker[w].pc = "lock" /\ worker[w].act = r /\ worker'[w] = worker[w] =>
             row'[r].status = "executing" /\ row'[r].token = w /\ ~row'[r].lapsed

RowsChange == row' = [r \in Requests |-> row'[r]] /\ \A r \in Requests : RowChange(r)

\* But for requests of X, a change set that is applied stays so or has another request.
AppliedStaysBut(X) ==
    \A r \in Requests \ X :
        Changes(r) /\ SetOf(r) \in Sets /\ set[SetOf(r)].status = "applied" =>
            set'[SetOf(r)].status = "applied" \/ Shared(r)

AppliedStays == \A s \in Sets : set[s].status = "applied" => set'[s].status = "applied"
NoneApplied ==
    \A s \in Sets : set'[s].status \in {"applied", "rolled_back"} => set[s].status \in {"applied", "rolled_back"}

LEMMA RowRests ==
    ASSUME Inductive, NEW r \in Requests, row'[r] = row[r]
    PROVE  RowChange(r)
  <1>1. IsRow(row[r])
    BY DEF Inductive, Shapes
  <1>2. \A w \in Workers :
          worker[w].pc = "lock" /\ worker[w].act = r =>
              row[r].status = "executing" /\ row[r].token = w /\ ~row[r].lapsed
    BY DEF Inductive, ActionsSound, WorkerSound
  <1> QED BY <1>1, <1>2 DEF Inductive, ActionsSound, RowsSound, RowChange, Carryable

LEMMA RowsRest ==
    ASSUME Inductive, row' = row
    PROVE  RowsChange
  BY RowRests DEF RowsChange, Inductive, Shapes

LEMMA OneRowChanges ==
    ASSUME Inductive, NEW r \in Requests, NEW x, row' = [row EXCEPT ![r] = x], row'[r] = x => RowChange(r)
    PROVE  RowsChange
  <1>1. row' = [q \in Requests |-> row'[q]] /\ row'[r] = x /\ \A q \in Requests \ {r} : row'[q] = row[q]
    BY DEF Inductive, Shapes
  <1> QED BY <1>1, RowRests DEF RowsChange

LEMMA RowsKept ==
    ASSUME Inductive, RowsChange
    PROVE  RowsSound'
  <1>1. ASSUME NEW r \in Requests
        PROVE  /\ row'[r].status \in Carried => Carryable(r)'
               /\ row'[r].status = "waiting_approval" => Risk[Key(r)] # "L3"
               /\ row'[r].approved => row'[r].status # "none" /\ ValidParams(r)
    <2>1. RowChange(r)
      BY DEF RowsChange
    <2>2. Carryable(r)' <=> Risk[Key(r)] # "L3" /\ (row'[r].approved \/ Automatic(r))
      BY DEF Carryable, Automatic, Key
    <2> QED BY <2>1, <2>2 DEF RowChange
  <1>2. \A r \in Requests : Key(r)' = Key(r) /\ (ValidParams(r)' <=> ValidParams(r))
    BY DEF Key, ValidParams
  <1> QED BY <1>1, <1>2 DEF RowsSound

\* A worker that does nothing stays sound.
LEMMA WorkerKept ==
    ASSUME Inductive, RowsChange, NEW X, AppliedStaysBut(X), NEW v \in Workers, worker'[v] = worker[v],
           worker[v].pc \in Section => lock' = lock /\ worker[v].act \notin X
    PROVE  WorkerSound(v)'
  <1>1. CASE worker[v].pc = "idle"
    BY <1>1 DEF WorkerSound, Section
  <1>2. CASE worker[v].pc # "idle"
    <2>1. PICK r \in Requests : r = worker[v].act
      BY <1>2 DEF Inductive, Shapes, IsWorker
    <2>2. RowChange(r) /\ WorkerSound(v)
      BY DEF RowsChange, Inductive, ActionsSound
    <2>3. row'[r].status # "none" /\ Risk[Key(r)] # "L3" /\ (row'[r].approved \/ Automatic(r))
      BY <1>2, <2>1, <2>2 DEF RowChange, WorkerSound, Carryable
    <2>4. worker[v].pc \in Section /\ Changes(r) /\ Stands(r) => set'[SetOf(r)].status = "applied" \/ Shared(r)
      BY <1>2, <2>1, <2>2, ChangesApproved DEF Stands, AppliedStaysBut, WorkerSound, Inductive, ActionsSound
    <2> HIDE DEF RowChange
    <2>5. worker'[v].pc = "lock" => row'[r].status = "executing" /\ row'[r].token = v /\ ~row'[r].lapsed
      BY <2>1, <2>2 DEF RowChange
    <2>6. worker'[v].pc \in Section => lock' = v /\ row'[r].status # "succeeded"
      BY <2>1, <2>2 DEF RowChange, WorkerSound, Completed
    <2> QED BY <2>1, <2>2, <2>3, <2>4, <2>5, <2>6
            DEF WorkerSound, Carryable, Stands, Automatic, Changes, Key, SetOf, Shared, Section
  <1> QED BY <1>1, <1>2

LEMMA SetsKept ==
    ASSUME Inductive, RowsChange, NoneApplied
    PROVE  SetsApproved'
  BY DEF Inductive, ActionsSound, SetsApproved, RowsChange, RowChange, NoneApplied, SetOf

LEMMA RecordKept ==
    ASSUME Inductive, RowsChange, torn \subseteq torn', NEW X, AppliedStaysBut(X),
           \A r \in X : row'[r].status = "succeeded" => manual'.act = r,
           \A r \in Requests : manual.act = r /\ row'[r].status = "succeeded" => manual'.act = r \/ r \in torn'
    PROVE  RollbackOnRecord'
  <1> SUFFICES ASSUME NEW r \in Requests, Key(r) = "apply_knowledge_change", row'[r].status = "succeeded"
               PROVE  \/ set'[RequestOf[r].set].status = "applied"
                      \/ manual'.act = r \/ r \in torn'
                      \/ \E q \in Requests \ {r} : RequestOf[q].set = RequestOf[r].set
    BY DEF RollbackOnRecord, Key
  <1>1. Changes(r) /\ SetOf(r) = RequestOf[r].set /\ RowChange(r)
    BY DEF Changes, SetOf, RowsChange
  <1>2. row[r].status = "succeeded" \/ Completed(r)
    BY <1>1 DEF RowChange
  <1>3. CASE Completed(r)
    BY <1>1, <1>3 DEF Completed, Shared, SetOf
  <1>4. CASE r \in X
    BY <1>4
  <1>5. CASE row[r].status = "succeeded" /\ r \notin X /\ set[SetOf(r)].status = "applied"
    <2>1. SetOf(r) \in Sets
      BY <1>1, <1>5, ChangesApproved DEF Inductive, ActionsSound, RowsSound, Carried
    <2> QED BY <1>1, <1>5, <2>1 DEF AppliedStaysBut, Shared, SetOf
  <1>6. CASE row[r].status = "succeeded" /\ set[SetOf(r)].status # "applied"
    BY <1>1, <1>6 DEF Inductive, ActionsSound, RollbackOnRecord
  <1> QED BY <1>2, <1>3, <1>4, <1>5, <1>6

-----------------------------------------------------------------------------
(* Steps that change rows, and leave the workers alone.                    *)

ManualShape ==
    /\ manual' \in [act : Requests \cup {None}, end : {"none", "rolled_back", "failed"}]
    /\ manual'.act # None => manual'.end = "rolled_back" /\ row'[manual'.act].status = "succeeded"

LEMMA StoreRests ==
    ASSUME UNCHANGED storeVars
    PROVE  StoreStep /\ AppliedStays /\ NoneApplied
  BY DEF storeVars, StoreStep, AppliedStays, NoneApplied

LEMMA StaysBut == AppliedStays => AppliedStaysBut({})
  BY DEF AppliedStays, AppliedStaysBut

LEMMA RowStep ==
    ASSUME Inductive, RowsChange, UNCHANGED <<worker, lock>>,
           StoreStep, AppliedStays, NoneApplied, ManualShape, torn \subseteq torn',
           \A r \in Requests : manual.act = r /\ row'[r].status = "succeeded" => manual'.act = r \/ r \in torn',
           incident' \in [Incidents -> {"open", "acknowledged", "resolved", "closed"}]
    PROVE  Inductive'
  <1>1. Shapes'
    BY StoreKeepsType DEF Inductive, Shapes, RowsChange, RowChange, ManualShape
  <1>2. ActionsSound'
    BY RowsKept, WorkerKept, SetsKept, RecordKept, StaysBut DEF ActionsSound, ManualSound, ManualShape
  <1>3. StoreSound'
    BY StoreKeepsSound DEF Inductive, Shapes
  <1> QED BY <1>1, <1>2, <1>3 DEF Inductive

\* What follows when nothing but rows changes, and none of those that count as succeeded.
LEMMA RowsAlone ==
    ASSUME Inductive, RowsChange, UNCHANGED <<worker, lock, manual, torn>>,
           StoreStep, AppliedStays, NoneApplied,
           \A r \in Requests : row[r].status = "succeeded" => row'[r].status = "succeeded",
           incident' \in [Incidents -> {"open", "acknowledged", "resolved", "closed"}]
    PROVE  Inductive'
  <1>1. ManualShape
    BY DEF ManualShape, Inductive, Shapes, ActionsSound, ManualSound
  <1> QED BY <1>1, RowStep

LEMMA RiskOf ==
    ASSUME NEW r \in Requests
    PROVE  Risk[Key(r)] \in {"L0", "L1", "L2", "L3"}
  BY ActionAssumption DEF Risk, Key

LEMMA NewRowChanges ==
    ASSUME Inductive, NEW r \in Requests, NewRow(r)
    PROVE  RowsChange /\ \A q \in Requests : row[q].status = "succeeded" => row'[q].status = "succeeded"
  <1> DEFINE x == [NoRow EXCEPT !.status = Decision(r)]
  <1>1. /\ Decision(r) \in {"queued", "waiting_approval", "proposed"}
        /\ Decision(r) = "queued" => Automatic(r)
        /\ Decision(r) # "proposed" => Risk[Key(r)] # "L3"
    BY RiskOf, Z3 DEF Decision, Automatic
  <1>2. IsRow(x) /\ x.status = Decision(r) /\ ~x.approved
    BY <1>1, Blank DEF IsRow, RowStatuses, Unstarted
  <1>3. row' = [row EXCEPT ![r] = x] /\ row[r].status = "none"
    BY DEF NewRow
  <1> HIDE DEF x
  <1>4. ASSUME row'[r] = x
        PROVE  RowChange(r)
    <2>1. ~row[r].approved /\ \A w \in Workers : worker[w].pc = "lock" => worker[w].act # r
      BY <1>3 DEF Inductive, ActionsSound, RowsSound, WorkerSound
    <2> QED BY <1>1, <1>2, <1>3, <1>4, <2>1 DEF RowChange, Carried
  <1>5. RowsChange
    BY <1>3, <1>4, OneRowChanges
  <1>6. \A q \in Requests \ {r} : row'[q] = row[q]
    BY <1>3 DEF Inductive, Shapes
  <1> QED BY <1>3, <1>5, <1>6

LEMMA RowLapses ==
    ASSUME NEW y, IsRow(y), NEW b \in BOOLEAN
    PROVE  /\ IsRow([y EXCEPT !.lapsed = b])
           /\ [y EXCEPT !.lapsed = b].status = y.status
           /\ [y EXCEPT !.lapsed = b].approved = y.approved
           /\ [y EXCEPT !.lapsed = b].token = y.token
           /\ [y EXCEPT !.lapsed = b].lapsed = b
  BY DEF IsRow

LEMMA RowApproved ==
    ASSUME NEW y, IsRow(y), NEW x, x = [y EXCEPT !.status = "queued", !.approved = TRUE]
    PROVE  IsRow(x) /\ x.status = "queued" /\ x.approved
  <1> PICK yes \in BOOLEAN : yes = TRUE
    OBVIOUS
  <1> DEFINE z == [y EXCEPT !.status = "queued"]
  <1>1. IsRow(z) /\ z.status = "queued"
    BY DEF IsRow, RowStatuses, Unstarted
  <1>2. x = [z EXCEPT !.approved = yes]
    OBVIOUS
  <1> HIDE DEF z
  <1>3. DOMAIN z = {"status", "approved", "token", "lapsed", "cooling", "result"}
    BY <1>1 DEF IsRow
  <1>4. x.approved = yes
    BY <1>2, <1>3
  <1>5. IsRow(x)
    BY <1>1, <1>2 DEF IsRow
  <1>6. x.status = z.status
    BY <1>2, <1>3
  <1> QED BY <1>1, <1>4, <1>5, <1>6

LEMMA AdministratorsKeep ==
    ASSUME Inductive, NEW r \in Requests,
           CreateAction(r) \/ ProposeChangeSet(r) \/ ApproveAction(r) \/ CancelAction(r)
               \/ LeaseLapses(r) \/ CooldownEnds(r)
    PROVE  Inductive'
  <1>0. incident \in [Incidents -> {"open", "acknowledged", "resolved", "closed"}] /\ IsRow(row[r])
    BY DEF Inductive, Shapes
  <1>1. CASE CreateAction(r)
    BY <1>0, <1>1, NewRowChanges, StoreRests, RowsAlone DEF CreateAction
  <1>2. CASE ProposeChangeSet(r)
    <2>1. /\ NewRow(r) /\ CreateSet(SetOf(r))
          /\ UNCHANGED <<chunk, restored, incident, worker, lock, manual, torn>>
      BY <1>2 DEF ProposeChangeSet, SetOf
    <2>2. CASE SetOf(r) \in Sets
      <3>1. StoreStep
        BY <2>1, <2>2 DEF StoreStep
      <3>2. AppliedStays /\ NoneApplied
        BY <2>1, <2>2 DEF CreateSet, AppliedStays, NoneApplied, Inductive, Shapes, StoreType
      <3> QED BY <1>0, <2>1, <3>1, <3>2, NewRowChanges, RowsAlone
    <2>3. CASE SetOf(r) \notin Sets
      <3>1. set' = set
        BY <2>1, <2>3 DEF CreateSet, Inductive, Shapes, StoreType
      <3>2. StoreStep /\ AppliedStays /\ NoneApplied
        BY <2>1, <3>1 DEF StoreStep, AppliedStays, NoneApplied
      <3> QED BY <1>0, <2>1, <3>2, NewRowChanges, RowsAlone
    <2> QED BY <2>2, <2>3
  <1>3. ASSUME NEW x, row' = [row EXCEPT ![r] = x], row'[r] = x => RowChange(r), row[r].status # "succeeded",
               UNCHANGED <<storeVars, incident, worker, lock, manual, torn>>
        PROVE  Inductive'
    <2>1. \A q \in Requests \ {r} : row'[q] = row[q]
      BY <1>3 DEF Inductive, Shapes
    <2>2. RowsChange
      BY <1>3, OneRowChanges
    <2> QED BY <1>0, <1>3, <2>1, <2>2, RowsAlone, StoreRests
  <1>4. \A w \in Workers : worker[w].pc = "lock" /\ worker[w].act = r =>
            row[r].status = "executing" /\ row[r].token = w /\ ~row[r].lapsed
    BY DEF Inductive, ActionsSound, WorkerSound
  <1>5. /\ row[r].status \in Carried => Risk[Key(r)] # "L3" /\ (row[r].approved \/ Automatic(r))
        /\ row[r].status = "waiting_approval" => Risk[Key(r)] # "L3"
        /\ row[r].approved => row[r].status # "none" /\ ValidParams(r)
    BY DEF Inductive, ActionsSound, RowsSound, Carryable
  <1>6. CASE ApproveAction(r)
    <2> PICK x : x = [row[r] EXCEPT !.status = "queued", !.approved = TRUE]
      OBVIOUS
    <2>1. row[r].status = "waiting_approval" /\ ValidParams(r) /\ row' = [row EXCEPT ![r] = x]
      BY <1>6 DEF ApproveAction, Admitted
    <2>2. IsRow(x) /\ x.status = "queued" /\ x.approved
      BY <1>0, RowApproved
    <2>3. row'[r] = x => RowChange(r)
      BY <1>4, <1>5, <2>1, <2>2 DEF RowChange, Carried
    <2> QED BY <1>3, <1>6, <2>1, <2>3 DEF ApproveAction
  <1>7. CASE CancelAction(r)
    <2> DEFINE x == [row[r] EXCEPT !.status = "cancelled"]
    <2>1. row[r].status \in Unstarted /\ row' = [row EXCEPT ![r] = x]
      BY <1>7 DEF CancelAction
    <2>2. IsRow(x) /\ x.status = "cancelled" /\ x.approved = row[r].approved
      BY <1>0 DEF IsRow, RowStatuses, Ended
    <2> HIDE DEF x
    <2>3. row'[r] = x => RowChange(r)
      BY <1>4, <1>5, <2>1, <2>2 DEF RowChange, Carried, Unstarted
    <2>4. row[r].status # "succeeded"
      BY <2>1 DEF Unstarted
    <2> QED BY <1>3, <1>7, <2>1, <2>3, <2>4 DEF CancelAction
  <1>8. CASE LeaseLapses(r)
    <2> PICK yes \in BOOLEAN : yes = TRUE
      OBVIOUS
    <2> DEFINE x == [row[r] EXCEPT !.lapsed = yes]
    <2>1. row[r].status = "executing" /\ row' = [row EXCEPT ![r] = x]
      BY <1>8 DEF LeaseLapses
    <2>2. \A w \in Workers : ~(worker[w].pc = "lock" /\ worker[w].act = r)
      BY <1>4, <1>8 DEF LeaseLapses, Deserted
    <2>3. IsRow(x) /\ x.status = row[r].status /\ x.approved = row[r].approved
      BY <1>0, RowLapses
    <2> HIDE DEF x
    <2>4. row'[r] = x => RowChange(r)
      BY <1>5, <2>1, <2>2, <2>3 DEF RowChange
    <2> QED BY <1>3, <1>8, <2>1, <2>4 DEF LeaseLapses
  <1>9. CASE CooldownEnds(r)
    <2> PICK no \in BOOLEAN : no = FALSE
      OBVIOUS
    <2> DEFINE x == [row[r] EXCEPT !.cooling = no]
    <2>1. row' = [row EXCEPT ![r] = x]
      BY <1>9 DEF CooldownEnds
    <2>2. /\ IsRow(x) /\ x.status = row[r].status /\ x.approved = row[r].approved
          /\ x.token = row[r].token /\ x.lapsed = row[r].lapsed
      BY <1>0 DEF IsRow
    <2> HIDE DEF x
    <2>3. row'[r] = x => RowChange(r)
      BY <1>4, <1>5, <2>2 DEF RowChange
    <2>4. RowsChange
      BY <2>1, <2>3, OneRowChanges
    <2>5. \A q \in Requests : row[q].status = "succeeded" => row'[q].status = "succeeded"
      BY <2>1, <2>2 DEF Inductive, Shapes
    <2> QED BY <1>0, <1>9, <2>4, <2>5, StoreRests, RowsAlone DEF CooldownEnds
  <1> QED BY <1>1, <1>2, <1>6, <1>7, <1>8, <1>9

\* A rollback touches the store only for the change set of its request.
LEMMA RollsBackShape ==
    ASSUME Inductive, NEW r \in Requests, Carryable(r), NEW result, result.changed \in BOOLEAN,
           NEW s, RollsBack(r, result, s)
    PROVE  \/ UNCHANGED <<chunk, set, restored>>
           \/ Changes(r) /\ SetOf(r) \in Sets /\ RollbackChangeSet(SetOf(r))
  <1>1. CASE ~result.changed
    BY <1>1 DEF RollsBack, storeVars
  <1>2. CASE result.changed /\ Key(r) # "apply_knowledge_change"
    BY <1>2 DEF RollsBack, RestoreSwitch, Assign
  <1>3. CASE result.changed /\ Key(r) = "apply_knowledge_change"
    <2>1. UNCHANGED storeVars \/ RollbackChangeSet(SetOf(r))
      BY <1>3 DEF RollsBack, SetOf
    <2>2. Changes(r) /\ SetOf(r) \in Sets
      BY <1>3, ChangesApproved DEF Changes, Inductive, ActionsSound
    <2> QED BY <2>1, <2>2 DEF storeVars
  <1> QED BY <1>1, <1>2, <1>3

LEMMA RollbackLeaves ==
    ASSUME Inductive, NEW r \in Requests,
           \/ UNCHANGED <<chunk, set, restored>>
           \/ Changes(r) /\ SetOf(r) \in Sets /\ RollbackChangeSet(SetOf(r))
    PROVE  StoreStep /\ NoneApplied /\ AppliedStaysBut({r})
  <1>1. CASE UNCHANGED <<chunk, set, restored>>
    BY <1>1 DEF StoreStep, NoneApplied, AppliedStaysBut
  <1>2. CASE Changes(r) /\ SetOf(r) \in Sets /\ RollbackChangeSet(SetOf(r))
    <2>1. StoreStep
      BY <1>2 DEF StoreStep
    <2>2. /\ set[SetOf(r)].status = "applied"
          /\ \A s \in Sets \ {SetOf(r)} : set'[s] = set[s]
      BY <1>2 DEF RollbackChangeSet, Inductive, Shapes, StoreType
    <2>3. NoneApplied
      BY <2>2 DEF NoneApplied
    <2>4. AppliedStaysBut({r})
      BY <2>2 DEF AppliedStaysBut, Shared
    <2> QED BY <2>1, <2>3, <2>4
  <1> QED BY <1>1, <1>2

LEMMA ManualKeeps ==
    ASSUME Inductive, EndRollback \/ CutRollbackShort \/ \E r \in Requests : RollbackAction(r)
    PROVE  Inductive'
  <1>0. incident \in [Incidents -> {"open", "acknowledged", "resolved", "closed"}]
    BY DEF Inductive, Shapes
  <1>1. ASSUME NEW r \in Requests, RollbackAction(r)
        PROVE  Inductive'
    <2>1. /\ manual.act = None /\ row[r].status = "succeeded"
          /\ manual' = [act |-> r, end |-> "rolled_back"]
          /\ UNCHANGED <<incident, row, worker, lock, torn>>
      BY <1>1 DEF RollbackAction
    <2>2. Carryable(r) /\ row[r].result.changed \in BOOLEAN
      BY <2>1 DEF Inductive, ActionsSound, RowsSound, Carried, Shapes, IsRow, IsResult
    <2>3. StoreStep /\ NoneApplied /\ AppliedStaysBut({r})
      BY <1>1, <2>2, RollsBackShape, RollbackLeaves DEF RollbackAction
    <2>4. RowsChange
      BY <2>1, RowsRest
    <2>5. Shapes'
      BY <2>1, <2>3, StoreKeepsType DEF Inductive, Shapes
    <2>6. RowsSound' /\ SetsApproved'
      BY <2>3, <2>4, RowsKept, SetsKept
    <2>7. RollbackOnRecord'
      BY <2>1, <2>3, <2>4, RecordKept, ActionAssumption
    <2>8. ASSUME NEW w \in Workers
          PROVE  WorkerSound(w)'
      <3>1. worker[w].pc \in Section => worker[w].act \notin {r}
        BY <2>1 DEF Inductive, ActionsSound, WorkerSound
      <3> QED BY <2>1, <2>3, <2>4, <3>1, WorkerKept
    <2>9. ManualSound'
      BY <2>1 DEF ManualSound
    <2>10. StoreSound'
      BY <2>3, StoreKeepsSound DEF Inductive, Shapes
    <2> QED BY <2>5, <2>6, <2>7, <2>8, <2>9, <2>10 DEF Inductive, ActionsSound
  <1>2. CASE EndRollback
    <2>1. PICK r \in Requests : manual.act = r /\ manual.end = "rolled_back" /\ row[r].status = "succeeded"
      BY <1>2 DEF EndRollback, Inductive, Shapes, ActionsSound, ManualSound
    <2> DEFINE x == [row[r] EXCEPT !.status = "rolled_back"]
    <2>2. row' = [row EXCEPT ![r] = x] /\ manual' = [act |-> None, end |-> "none"]
          /\ UNCHANGED <<storeVars, incident, worker, lock, torn>>
      BY <1>2, <2>1 DEF EndRollback
    <2>3. IsRow(row[r])
      BY DEF Inductive, Shapes
    <2>4. IsRow(x) /\ x.status = "rolled_back" /\ x.approved = row[r].approved
      BY <2>3 DEF IsRow, RowStatuses, Ended
    <2> HIDE DEF x
    <2>5. row'[r] = x => RowChange(r)
      <3>1. /\ Risk[Key(r)] # "L3" /\ (row[r].approved \/ Automatic(r))
            /\ row[r].approved => ValidParams(r)
        BY <2>1 DEF Inductive, ActionsSound, RowsSound, Carried, Carryable
      <3>2. \A w \in Workers : ~(worker[w].pc = "lock" /\ worker[w].act = r)
        BY <2>1 DEF Inductive, ActionsSound, WorkerSound
      <3> QED BY <2>4, <3>1, <3>2 DEF RowChange
    <2>6. RowsChange
      BY <2>2, <2>5, OneRowChanges
    <2>7. row'[r].status # "succeeded"
      BY <2>2, <2>4 DEF Inductive, Shapes
    <2>8. ManualShape
      BY <2>2 DEF ManualShape
    <2> QED BY <1>0, <2>1, <2>2, <2>6, <2>7, <2>8, StoreRests, RowStep
  <1>3. CASE CutRollbackShort
    <2>1. RowsChange
      BY <1>3, RowsRest DEF CutRollbackShort
    <2>2. ManualShape
      BY <1>3 DEF CutRollbackShort, ManualShape
    <2> QED BY <1>0, <1>3, <2>1, <2>2, StoreRests, RowStep DEF CutRollbackShort
  <1> QED BY <1>1, <1>2, <1>3

LEMMA IncidentKeeps ==
    ASSUME Inductive, NEW i \in Incidents, NEW s \in DOMAIN AllowedFrom, TransitionIncident(i, s)
    PROVE  Inductive'
  <1>1. incident' \in [Incidents -> {"open", "acknowledged", "resolved", "closed"}]
    BY DEF TransitionIncident, AllowedFrom, Inductive, Shapes
  <1>2. row' = [r \in Requests |-> row'[r]]
    BY DEF TransitionIncident
  <1>3. ASSUME NEW r \in Requests
        PROVE  RowChange(r) /\ (row[r].status = "succeeded" => row'[r].status = "succeeded")
    <2> DEFINE x == [row[r] EXCEPT !.status = "cancelled"]
    <2>1. \/ row'[r] = row[r]
          \/ row'[r] = x /\ row[r].status \in Unstarted
      BY DEF TransitionIncident
    <2>2. IsRow(row[r])
      BY DEF Inductive, Shapes
    <2>3. IsRow(x) /\ x.status = "cancelled" /\ x.approved = row[r].approved
      BY <2>2 DEF IsRow, RowStatuses, Ended
    <2> HIDE DEF x
    <2>4. CASE row'[r] = row[r]
      BY <2>4, RowRests
    <2>5. CASE row'[r] = x /\ row[r].status \in Unstarted
      <3>1. \A w \in Workers : ~(worker[w].pc = "lock" /\ worker[w].act = r)
        BY <2>5 DEF Inductive, ActionsSound, WorkerSound, Unstarted
      <3>2. row[r].approved => ValidParams(r)
        BY DEF Inductive, ActionsSound, RowsSound
      <3> QED BY <2>3, <2>5, <3>1, <3>2 DEF RowChange, Carried, Unstarted
    <2> QED BY <2>1, <2>4, <2>5
  <1> QED BY <1>1, <1>2, <1>3, StoreRests, RowsAlone DEF TransitionIncident, RowsChange

-----------------------------------------------------------------------------
(* The worker.                                                             *)

OneWorker(w) ==
    /\ worker' = [v \in Workers |-> worker'[v]] /\ IsWorker(worker'[w])
    /\ \A v \in Workers \ {w} : worker'[v] = worker[v]

\* What is left to show of a step of worker w.
LEMMA WorkStep ==
    ASSUME Inductive, NEW w \in Workers, OneWorker(w), RowsChange, UNCHANGED <<incident, manual, torn>>,
           lock' \in Workers \cup {None}, StoreStep, NEW X, AppliedStaysBut(X),
           \A r \in X : row'[r].status # "succeeded",
           \A v \in Workers \ {w} : worker[v].pc \in Section => lock' = lock /\ worker[v].act \notin X,
           \A r \in Requests : row[r].status = "succeeded" => row'[r].status = "succeeded",
           WorkerSound(w)', SetsApproved'
    PROVE  Inductive'
  <1>1. Shapes'
    BY StoreKeepsType DEF Inductive, Shapes, RowsChange, RowChange, OneWorker
  <1>2. \A v \in Workers : WorkerSound(v)'
    <2> SUFFICES ASSUME NEW v \in Workers \ {w}
                 PROVE  WorkerSound(v)'
      OBVIOUS
    <2> QED BY WorkerKept DEF OneWorker
  <1>3. ManualSound'
    BY DEF ManualSound, Inductive, ActionsSound, Shapes
  <1>4. RowsSound' /\ RollbackOnRecord'
    BY RowsKept, RecordKept
  <1>5. StoreSound'
    BY StoreKeepsSound DEF Inductive, Shapes
  <1> QED BY <1>1, <1>2, <1>3, <1>4, <1>5 DEF Inductive, ActionsSound

\* Past the lock there is one worker.
LEMMA Alone ==
    ASSUME Inductive, NEW w \in Workers, worker[w].pc \in Section
    PROVE  /\ lock = w /\ worker[w].act \in Requests /\ row[worker[w].act].status # "succeeded"
           /\ row[worker[w].act].status # "none" /\ Carryable(worker[w].act)
           /\ \A v \in Workers \ {w} : worker[v].pc \notin Section
  <1>1. WorkerSound(w) /\ \A v \in Workers \ {w} : WorkerSound(v)
    BY DEF Inductive, ActionsSound
  <1>2. worker[w].act \in Requests
    BY DEF Section, Inductive, Shapes, IsWorker
  <1> QED BY <1>1, <1>2 DEF WorkerSound, Section

\* A step past the lock that leaves the rows alone.
LEMMA SectionStep ==
    ASSUME Inductive, NEW w \in Workers, worker[w].pc \in Section, NEW r, r = worker[w].act, Moves(w), worker'[w].pc \in Section,
           UNCHANGED <<incident, row, lock, manual, torn>>,
           StoreStep, AppliedStaysBut({r}), SetsApproved',
           worker'[w].pc = "gate" \/ (worker'[w].pc = "finish" /\ worker'[w].end = "succeeded") =>
               (Changes(r) => Stands(r)')
    PROVE  Inductive'
  <1>1. r \in Requests
    BY Alone
  <1>2. /\ lock = w /\ row[r].status # "succeeded" /\ row[r].status # "none" /\ Carryable(r)
        /\ \A v \in Workers \ {w} : worker[v].pc \notin Section
    BY <1>1, Alone
  <1>3. worker'[w].act = r /\ OneWorker(w)
    BY <1>1 DEF Moves, OneWorker
  <1>4. Carryable(r)' /\ (Changes(r) <=> Changes(r)')
    BY <1>2 DEF Carryable, Automatic, Key, Changes
  <1>5. WorkerSound(w)'
    BY <1>1, <1>2, <1>3, <1>4 DEF WorkerSound, Section
  <1>6. RowsChange /\ lock' \in Workers \cup {None}
    BY <1>2, RowsRest
  <1> QED BY <1>1, <1>2, <1>3, <1>5, <1>6, WorkStep

\* One that leaves the change sets alone as well.
LEMMA SectionRests ==
    ASSUME Inductive, NEW w \in Workers, worker[w].pc \in Section, NEW r, r = worker[w].act, Moves(w), worker'[w].pc \in Section,
           UNCHANGED <<incident, row, lock, manual, torn, chunk, set, restored>>,
           worker'[w].pc = "gate" \/ (worker'[w].pc = "finish" /\ worker'[w].end = "succeeded") =>
               worker[w].pc = "gate" \/ ~Changes(r)
    PROVE  Inductive'
  <1>1. StoreStep /\ AppliedStaysBut({r})
    BY DEF StoreStep, AppliedStaysBut
  <1>2. NoneApplied /\ RowsChange
    BY RowsRest DEF NoneApplied
  <1>3. r \in Requests
    BY Alone
  <1>4. worker[w].pc = "gate" => (Changes(r) => Stands(r))
    BY <1>3 DEF Inductive, ActionsSound, WorkerSound
  <1>5. Stands(r) => Stands(r)'
    BY DEF Stands, Shared, SetOf
  <1>6. SetsApproved'
    BY <1>2, SetsKept
  <1>7. worker'[w].pc = "gate" \/ (worker'[w].pc = "finish" /\ worker'[w].end = "succeeded") =>
               (Changes(r) => Stands(r)')
    BY <1>3, <1>4, <1>5
  <1> QED BY <1>1, <1>3, <1>6, <1>7, SectionStep

LEMMA BaselineKeeps ==
    ASSUME Inductive, NEW w \in Workers, TakeBaseline(w)
    PROVE  Inductive'
  <1>1. /\ worker[w].pc \in Section /\ UNCHANGED <<incident, row, lock, manual, torn, chunk, set, restored>>
        /\ worker[w].pc # "idle" /\ Shapes
    BY DEF TakeBaseline, Section, storeVars, Inductive
  <1>2. PICK r : r = worker[w].act
    OBVIOUS
  <1>3. ASSUME NEW report, worker' = [worker EXCEPT ![w].pc = "change", ![w].base = report]
        PROVE  Moves(w) /\ worker'[w].pc = "change"
    <2>1. worker'[w] = [worker[w] EXCEPT !.pc = "change", !.base = report]
      BY <1>1, <1>3 DEF Shapes
    <2>2. worker' = [v \in Workers |-> worker'[v]] /\ \A v \in Workers \ {w} : worker'[v] = worker[v]
      BY <1>1, <1>3 DEF Shapes
    <2>3. IsWorker(worker[w])
      BY <1>1 DEF Shapes
    <2>4. worker'[w] = [pc |-> "change", act |-> worker[w].act, base |-> report,
                        result |-> worker[w].result, end |-> worker[w].end]
      BY <2>1, <2>3 DEF IsWorker
    <2> QED BY <1>1, <2>2, <2>3, <2>4 DEF Moves, IsWorker, WorkSteps, Section
  <1>4. Goes(w, "undo") => Moves(w) /\ worker'[w].pc = "undo"
    BY <1>1, GoesMoves DEF WorkSteps, Section
  <1>5. Moves(w) /\ worker'[w].pc \in {"change", "undo"}
    BY <1>3, <1>4 DEF TakeBaseline
  <1> QED BY <1>1, <1>2, <1>5, SectionRests DEF Section

LEMMA LookKeeps ==
    ASSUME Inductive, NEW w \in Workers, Look(w)
    PROVE  Inductive'
  <1>1. /\ worker[w].pc \in Section /\ UNCHANGED <<incident, row, lock, manual, torn, chunk, set, restored>>
        /\ worker[w].pc # "idle" /\ Shapes
    BY DEF Look, Section, storeVars, Inductive
  <1>2. PICK r : r = worker[w].act
    OBVIOUS
  <1>3. ~Changes(r)
    BY <1>2 DEF Look, Act, Changes, Reversible
  <1>4. Moves(w) /\ worker'[w].pc = "finish"
    BY <1>1, EndsMoves DEF Look
  <1> QED BY <1>1, <1>2, <1>3, <1>4, SectionRests DEF Section

LEMMA JudgeKeeps ==
    ASSUME Inductive, NEW w \in Workers, JudgeGate(w)
    PROVE  Inductive'
  <1>1. /\ worker[w].pc \in Section /\ UNCHANGED <<incident, row, lock, manual, torn, chunk, set, restored>>
        /\ worker[w].pc = "gate" /\ Shapes
    BY DEF JudgeGate, Section, storeVars, Inductive
  <1>2. PICK r : r = worker[w].act
    OBVIOUS
  <1>3. Ends(w, "succeeded") \/ Goes(w, "undo")
    BY DEF JudgeGate
  <1>4. Moves(w) /\ worker'[w].pc \in {"finish", "undo"}
    BY <1>1, <1>3, EndsMoves, GoesMoves DEF WorkSteps, Section
  <1> QED BY <1>1, <1>2, <1>4, SectionRests DEF Section

LEMMA SwitchMoves ==
    ASSUME Shapes, NEW w \in Workers, NEW pc \in {"gate", "finish"}, worker[w].pc # "idle", Switch(w, pc)
    PROVE  Moves(w) /\ worker'[w].pc \in Section /\ UNCHANGED <<chunk, set, restored>>
  <1>1. CASE Ends(w, "succeeded") /\ UNCHANGED storeVars
    BY <1>1, EndsMoves DEF Section, storeVars
  <1>2. ASSUME NEW x, NEW t, NEW v, x = [changed |-> TRUE, was |-> setting[t]], Assign(t, v),
               worker' = [worker EXCEPT ![w].result = x, ![w].pc = pc, ![w].end = "succeeded"]
        PROVE  Moves(w) /\ worker'[w].pc \in Section /\ UNCHANGED <<chunk, set, restored>>
    <2>1. worker'[w] = [worker[w] EXCEPT !.result = x, !.pc = pc, !.end = "succeeded"]
      BY <1>2 DEF Shapes
    <2>2. worker' = [v0 \in Workers |-> worker'[v0]] /\ \A v0 \in Workers \ {w} : worker'[v0] = worker[v0]
      BY <1>2 DEF Shapes
    <2>3. IsWorker(worker[w])
      BY DEF Shapes
    <2>4. IsResult(x)
      BY <1>2 DEF IsResult
    <2> QED BY <1>2, <2>1, <2>2, <2>3, <2>4 DEF Moves, IsWorker, WorkSteps, Section, Assign
  <1> QED BY <1>1, <1>2 DEF Switch

LEMMA SwitchKeeps ==
    ASSUME Inductive, NEW w \in Workers, AdjustRerankTop(w) \/ SetActive(w)
    PROVE  Inductive'
  <1>1. worker[w].pc \in Section /\ worker[w].pc # "idle" /\ UNCHANGED <<incident, row, lock, manual, torn>>
    BY DEF AdjustRerankTop, SetActive, Section
  <1>2. PICK r : r = worker[w].act
    OBVIOUS
  <1>3. ~Changes(r)
    BY <1>2 DEF AdjustRerankTop, SetActive, Act, Changes
  <1>4. \E pc \in {"gate", "finish"} : Switch(w, pc)
    BY DEF AdjustRerankTop, SetActive
  <1>5. Moves(w) /\ worker'[w].pc \in Section /\ UNCHANGED <<chunk, set, restored>>
    BY <1>1, <1>4, SwitchMoves DEF Inductive
  <1> QED BY <1>1, <1>2, <1>3, <1>5, SectionRests

\* The one step that makes a change set count as applied: its request was approved.
LEMMA ApplyKeeps ==
    ASSUME Inductive, NEW w \in Workers, ApplyKnowledgeChange(w)
    PROVE  Inductive'
  <1>1. /\ worker[w].pc \in Section /\ UNCHANGED <<incident, row, lock, manual, torn>>
        /\ worker[w].pc # "idle" /\ Shapes
    BY DEF ApplyKnowledgeChange, Section, Inductive
  <1>2. PICK r \in Requests : r = worker[w].act
    BY <1>1, Alone
  <1>3. Changes(r) /\ Carryable(r)
    BY <1>1, <1>2, Alone DEF ApplyKnowledgeChange, Act, Changes
  <1>4. PICK s \in Sets : s = SetOf(r) /\ row[r].approved
    BY <1>3, ChangesApproved DEF Inductive, ActionsSound
  <1>5. \/ Applicable(s) /\ ApplyChangeSet(s)
        \/ ~Applicable(s) /\ UNCHANGED storeVars
    BY <1>2, <1>4 DEF ApplyKnowledgeChange, Act, SetOf
  <1>6. IF Applicable(s) \/ set[s].status = "applied"
        THEN worker' = [worker EXCEPT ![w].pc = "gate", ![w].result.changed = TRUE]
        ELSE Goes(w, "undo")
    BY <1>2, <1>4 DEF ApplyKnowledgeChange, Act, SetOf
  <1>7. /\ StoreStep /\ AppliedStays
        /\ \A t \in Sets \ {s} : set'[t] = set[t]
        /\ Applicable(s) \/ set[s].status = "applied" => set'[s].status = "applied"
        /\ ~Applicable(s) => set' = set
    <2>1. CASE Applicable(s) /\ ApplyChangeSet(s)
      <3>1. StoreStep
        BY <2>1 DEF StoreStep
      <3>2. /\ \A t \in Sets \ {s} : set'[t] = set[t]
            /\ set'[s].status = "applied"
        BY <1>1, <2>1 DEF ApplyChangeSet, Shapes, StoreType
      <3> QED BY <2>1, <3>1, <3>2 DEF AppliedStays
    <2>2. CASE ~Applicable(s) /\ UNCHANGED storeVars
      BY <2>2, StoreRests DEF storeVars
    <2> QED BY <1>5, <2>1, <2>2
  <1>8. SetsApproved'
    <2> SUFFICES ASSUME NEW t \in Sets, set'[t].status \in {"applied", "rolled_back"}
                 PROVE  \E q \in Requests : SetOf(q) = t /\ row[q].approved
      BY <1>1 DEF SetsApproved, SetOf
    <2> QED BY <1>4, <1>7 DEF Inductive, ActionsSound, SetsApproved
  <1>9. \/ Moves(w) /\ worker'[w].pc = "undo"
        \/ Moves(w) /\ worker'[w].pc = "gate" /\ set'[s].status = "applied"
    <2>1. CASE Goes(w, "undo")
      BY <1>1, <2>1, GoesMoves DEF WorkSteps, Section
    <2>2. CASE /\ worker' = [worker EXCEPT ![w].pc = "gate", ![w].result.changed = TRUE]
               /\ set'[s].status = "applied"
      <3>1. worker'[w] = [worker[w] EXCEPT !.pc = "gate", !.result.changed = TRUE]
        BY <1>1, <2>2 DEF Shapes
      <3>2. worker' = [v \in Workers |-> worker'[v]] /\ \A v \in Workers \ {w} : worker'[v] = worker[v]
        BY <1>1, <2>2 DEF Shapes
      <3>3. IsWorker(worker[w])
        BY <1>1 DEF Shapes
      <3> PICK x : x = [changed |-> TRUE, was |-> worker[w].result.was]
        OBVIOUS
      <3>4. IsResult(x)
        BY DEF IsResult
      <3>5. worker'[w] = [pc |-> "gate", act |-> worker[w].act, base |-> worker[w].base,
                          result |-> x, end |-> worker[w].end]
        BY <3>1, <3>3 DEF IsWorker, IsResult
      <3> QED BY <1>1, <2>2, <3>2, <3>3, <3>4, <3>5 DEF Moves, IsWorker, WorkSteps, Section
    <2> QED BY <1>6, <1>7, <2>1, <2>2
  <1>10. set'[s].status = "applied" => Stands(r)'
    BY <1>4 DEF Stands, SetOf
  <1>11. AppliedStaysBut({r})
    BY <1>7 DEF AppliedStays, AppliedStaysBut
  <1> QED BY <1>1, <1>2, <1>7, <1>8, <1>9, <1>10, <1>11, SectionStep DEF Section

LEMMA UndoKeeps ==
    ASSUME Inductive, NEW w \in Workers, Undo(w)
    PROVE  Inductive'
  <1>1. /\ worker[w].pc \in Section /\ UNCHANGED <<incident, row, lock, manual, torn>>
        /\ worker[w].pc # "idle" /\ Shapes
    BY DEF Undo, Section, Inductive
  <1>2. PICK r \in Requests : r = worker[w].act
    BY <1>1, Alone
  <1>3. Carryable(r) /\ worker[w].result.changed \in BOOLEAN
    BY <1>1, <1>2, Alone DEF Shapes, IsWorker, IsResult
  <1>4. /\ \E s \in {"rolled_back", "failed"} : Ends(w, s)
        /\ \E s \in {"rolled_back", "raised"} : RollsBack(r, worker[w].result, s)
    BY <1>2 DEF Undo, Act
  <1>5. StoreStep /\ NoneApplied /\ AppliedStaysBut({r})
    BY <1>3, <1>4, RollsBackShape, RollbackLeaves
  <1>6. Moves(w) /\ worker'[w].pc = "finish" /\ worker'[w].end # "succeeded"
    BY <1>1, <1>4, EndsMoves
  <1>7. SetsApproved'
    BY <1>1, <1>5, RowsRest, SetsKept
  <1> QED BY <1>1, <1>2, <1>5, <1>6, <1>7, SectionStep DEF Section

-----------------------------------------------------------------------------
(* Claims, the lock, and the end of an attempt.                            *)

\* The fields of a row, and of a worker, after a step that sets some of them.
LEMMA RequeueFields ==
    ASSUME NEW y, IsRow(y), NEW st, NEW tok, NEW x,
           x = [y EXCEPT !.status = st, !.token = tok]
    PROVE  x = [status |-> st, approved |-> y.approved, token |-> tok, lapsed |-> y.lapsed,
               cooling |-> y.cooling, result |-> y.result]
  <1> PICK a, b, c, d, e, f : /\ a = y.status /\ b = y.approved /\ c = y.token
                              /\ d = y.lapsed /\ e = y.cooling /\ f = y.result
    OBVIOUS
  <1>1. y = [status |-> a, approved |-> b, token |-> c, lapsed |-> d, cooling |-> e, result |-> f]
    BY DEF IsRow
  <1>2. x = [status |-> st, approved |-> b, token |-> tok, lapsed |-> d,
               cooling |-> e, result |-> f]
    BY <1>1
  <1> QED BY <1>2

LEMMA IdleFields ==
    ASSUME NEW pc, NEW r, NEW y, y = [Idle EXCEPT !.pc = pc, !.act = r]
    PROVE  y = [pc |-> pc, act |-> r, base |-> None, result |-> NoResult, end |-> "none"]
  <1> PICK a, b, c : a = None /\ b = "none" /\ c = "idle"
    OBVIOUS
  <1>1. Idle = [pc |-> c, act |-> a, base |-> a, result |-> NoResult, end |-> b]
    BY DEF Idle
  <1>2. y = [pc |-> pc, act |-> r, base |-> a, result |-> NoResult, end |-> b]
    BY <1>1
  <1> QED BY <1>2

LEMMA NothingMoves ==
    ASSUME UNCHANGED storeVars
    PROVE  StoreStep /\ AppliedStaysBut({}) /\ NoneApplied
  BY StoreRests, StaysBut

LEMMA LockKeeps ==
    ASSUME Inductive, NEW w \in Workers, TakeLock(w)
    PROVE  Inductive'
  <1>1. /\ worker[w].pc = "lock" /\ lock = None /\ lock' = w /\ Goes(w, "begin")
        /\ UNCHANGED <<storeVars, incident, row, manual, torn>> /\ Shapes
    BY DEF TakeLock, Inductive
  <1>2. Moves(w) /\ worker'[w].pc = "begin"
    BY <1>1, GoesMoves DEF WorkSteps, Section
  <1>3. PICK r \in Requests : r = worker[w].act
    BY <1>1 DEF Shapes, IsWorker
  <1>4. /\ row[r].status = "executing" /\ Carryable(r)
        /\ \A v \in Workers : worker[v].pc \notin Section
    BY <1>1, <1>3, ActionAssumption DEF Inductive, ActionsSound, WorkerSound
  <1>5. Carryable(r)' /\ worker'[w].act = r
    BY <1>1, <1>2, <1>3, <1>4 DEF Carryable, Automatic, Key, Moves
  <1>6. WorkerSound(w)'
    BY <1>1, <1>2, <1>4, <1>5 DEF WorkerSound, Section
  <1>7. RowsChange /\ SetsApproved' /\ OneWorker(w)
    BY <1>1, <1>2, RowsRest, NothingMoves, SetsKept DEF Moves, OneWorker
  <1> QED BY <1>1, <1>4, <1>6, <1>7, NothingMoves, WorkStep

\* A worker that has let go of its action is idle.
LEMMA RestsMoves ==
    ASSUME Shapes, NEW w \in Workers, Rests(w)
    PROVE  OneWorker(w) /\ worker'[w] = Idle /\ worker'[w].pc = "idle" /\ WorkerSound(w)'
  <1>1. worker'[w] = Idle /\ OneWorker(w)
    BY Blank DEF Shapes, Rests, OneWorker
  <1> QED BY <1>1, Blank DEF WorkerSound, Section

LEMMA RequeueKeeps ==
    ASSUME Inductive, NEW w \in Workers, Requeue(w)
    PROVE  Inductive'
  <1>1. /\ worker[w].pc = "lock" /\ Rests(w)
        /\ UNCHANGED <<storeVars, incident, lock, manual, torn>> /\ Shapes
    BY DEF Requeue, Inductive, Rests
  <1>2. OneWorker(w) /\ worker'[w].pc = "idle" /\ WorkerSound(w)'
    BY <1>1, RestsMoves
  <1>3. PICK r \in Requests : r = worker[w].act
    BY <1>1 DEF Shapes, IsWorker
  <1> DEFINE x == [row[r] EXCEPT !.status = "queued", !.token = None]
  <1>4. \/ row' = row
        \/ row' = [row EXCEPT ![r] = x]
    <2>1. CASE Holds(w)
      <3>1. row' = [row EXCEPT ![r].status = "queued", ![r].token = None]
        BY <1>3, <2>1 DEF Requeue, Act
      <3> QED BY <1>1, <1>3, <3>1 DEF Shapes
    <2>2. CASE ~Holds(w)
      BY <2>2 DEF Requeue
    <2> QED BY <2>1, <2>2
  <1>5. row[r].status = "executing" /\ Carryable(r) /\ IsRow(row[r])
    BY <1>1, <1>3 DEF Inductive, ActionsSound, WorkerSound, Shapes
  <1>6. IsRow(x) /\ x.status = "queued" /\ x.approved = row[r].approved
    <2>1. x = [status |-> "queued", approved |-> row[r].approved, token |-> None, lapsed |-> row[r].lapsed,
               cooling |-> row[r].cooling, result |-> row[r].result]
      BY <1>5, RequeueFields
    <2> HIDE DEF x
    <2> QED BY <1>5, <2>1 DEF IsRow, RowStatuses, Unstarted
  <1> HIDE DEF x
  <1>7. row'[r] = x => RowChange(r)
    <2>1. row[r].approved => ValidParams(r)
      BY DEF Inductive, ActionsSound, RowsSound
    <2>2. \A v \in Workers : ~(worker[v].pc = "lock" /\ worker[v].act = r /\ worker'[v] = worker[v])
      <3>1. \A v \in Workers \ {w} : ~(worker[v].pc = "lock" /\ worker[v].act = r)
        BY <1>1, <1>3 DEF Inductive, ActionsSound, WorkerSound
      <3> QED BY <1>1, <1>2, <3>1
    <2> QED BY <1>5, <1>6, <2>1, <2>2 DEF RowChange, Carryable
  <1>8. RowsChange
    BY <1>4, <1>7, RowsRest, OneRowChanges
  <1>9. \A q \in Requests : row[q].status = "succeeded" => row'[q].status = "succeeded"
    BY <1>1, <1>4, <1>5 DEF Shapes
  <1>10. SetsApproved' /\ lock' \in Workers \cup {None}
    BY <1>1, <1>8, NothingMoves, SetsKept DEF Shapes
  <1> QED BY <1>1, <1>2, <1>8, <1>9, <1>10, NothingMoves, WorkStep

LEMMA CrashKeeps ==
    ASSUME Inductive, NEW w \in Workers, Crash(w)
    PROVE  Inductive'
  <1>1. /\ Rests(w) /\ lock' = IF lock = w THEN None ELSE lock
        /\ UNCHANGED <<storeVars, incident, row, manual, torn>> /\ Shapes
    BY DEF Crash, Inductive, Rests
  <1>2. OneWorker(w) /\ WorkerSound(w)'
    BY <1>1, RestsMoves
  <1>3. \A v \in Workers \ {w} : worker[v].pc \in Section => lock' = lock
    BY <1>1 DEF Inductive, ActionsSound, WorkerSound
  <1>4. RowsChange /\ SetsApproved' /\ lock' \in Workers \cup {None}
    BY <1>1, RowsRest, NothingMoves, SetsKept DEF Shapes
  <1> QED BY <1>1, <1>2, <1>3, <1>4, NothingMoves, WorkStep

LEMMA HeartbeatKeeps ==
    ASSUME Inductive, NEW w \in Workers, Heartbeat(w)
    PROVE  Inductive'
  <1>1. /\ worker[w].pc \in Section /\ row[Act(w)].status = "executing"
        /\ UNCHANGED <<storeVars, incident, worker, lock, manual, torn>> /\ Shapes
    BY DEF Heartbeat, Holds, Inductive, Shapes, IsWorker, WorkSteps
  <1>2. PICK r \in Requests : r = worker[w].act
    BY <1>1, Alone
  <1> PICK no \in BOOLEAN : no = FALSE
    OBVIOUS
  <1> DEFINE x == [row[r] EXCEPT !.lapsed = no]
  <1>3. row' = [row EXCEPT ![r] = x]
    <2>1. row' = [row EXCEPT ![r].lapsed = no]
      BY <1>2 DEF Heartbeat, Act
    <2> QED BY <1>1, <2>1 DEF Shapes
  <1>4. IsRow(x) /\ x.status = row[r].status /\ x.approved = row[r].approved /\ x.token = row[r].token /\ x.lapsed = no
    BY <1>1, RowLapses DEF Shapes
  <1> HIDE DEF x
  <1>5. row'[r] = x => RowChange(r)
    <2>1. /\ row[r].status = "executing" /\ Carryable(r) /\ (row[r].approved => ValidParams(r))
          /\ \A v \in Workers : worker[v].pc = "lock" /\ worker[v].act = r => row[r].token = v
      BY <1>1, <1>2, Alone DEF Act, Inductive, ActionsSound, RowsSound, WorkerSound
    <2> QED BY <1>4, <2>1 DEF RowChange, Carryable
  <1>6. RowsChange
    BY <1>3, <1>5, OneRowChanges
  <1>7. \A q \in Requests : row[q].status = "succeeded" => row'[q].status = "succeeded"
    BY <1>1, <1>3, <1>4 DEF Shapes
  <1>8. incident \in [Incidents -> {"open", "acknowledged", "resolved", "closed"}]
    BY <1>1 DEF Shapes
  <1> QED BY <1>1, <1>6, <1>7, <1>8, StoreRests, RowsAlone

\* A row that may be claimed is queued or its lease has lapsed: no worker waits for the lock with it.
LEMMA ClaimKeeps ==
    ASSUME Inductive, NEW w \in Workers, Claim(w)
    PROVE  Inductive'
  <1>1. PICK r \in Requests :
          /\ Claimable(r)
          /\ row' = [row EXCEPT ![r].status = "executing", ![r].token = w, ![r].lapsed = FALSE]
          /\ worker' = [worker EXCEPT ![w] = [Idle EXCEPT !.pc = "lock", !.act = r]]
    BY DEF Claim
  <1>2. worker[w].pc = "idle" /\ UNCHANGED <<storeVars, incident, lock, manual, torn>> /\ Shapes /\ IsRow(row[r])
    BY DEF Claim, Inductive, Shapes
  <1> PICK no \in BOOLEAN : no = FALSE
    OBVIOUS
  <1> PICK x : x = [row[r] EXCEPT !.status = "executing", !.token = w, !.lapsed = no]
    OBVIOUS
  <1> DEFINE y == [Idle EXCEPT !.pc = "lock", !.act = r]
  <1>3. row' = [row EXCEPT ![r] = x]
    BY <1>1, <1>2 DEF Shapes
  <1>4. IsRow(x) /\ x.status = "executing" /\ x.approved = row[r].approved /\ x.token = w /\ ~x.lapsed
    <2> PICK a, b, c, d, e, f : /\ a = row[r].status /\ b = row[r].approved /\ c = row[r].token
                                /\ d = row[r].lapsed /\ e = row[r].cooling /\ f = row[r].result
      OBVIOUS
    <2>0. row[r] = [status |-> a, approved |-> b, token |-> c, lapsed |-> d, cooling |-> e, result |-> f]
      BY <1>2 DEF IsRow
    <2>1. x = [status |-> "executing", approved |-> b, token |-> w, lapsed |-> no, cooling |-> e, result |-> f]
      BY <2>0
    <2> QED BY <1>2, <2>1 DEF IsRow, RowStatuses
  <1>5. IsWorker(y) /\ y.pc = "lock" /\ y.act = r
    <2>1. y = [pc |-> "lock", act |-> r, base |-> None, result |-> NoResult, end |-> "none"]
      BY IdleFields
    <2>2. IsResult(NoResult)
      BY DEF IsResult, NoResult
    <2> HIDE DEF y
    <2> QED BY <2>1, <2>2 DEF IsWorker, WorkSteps
  <1> HIDE DEF y
  <1>6. OneWorker(w) /\ worker'[w] = y
    <2>1. worker' = [worker EXCEPT ![w] = y]
      BY <1>1 DEF y
    <2> QED BY <1>2, <1>5, <2>1 DEF Shapes, OneWorker
  <1>7. /\ row[r].status = "queued" \/ (row[r].status = "executing" /\ row[r].lapsed)
        /\ Carryable(r) /\ (row[r].approved => ValidParams(r))
    BY <1>1 DEF Claimable, Inductive, ActionsSound, RowsSound, Carried
  <1>8. row'[r] = x => RowChange(r)
    <2>1. \A v \in Workers : ~(worker[v].pc = "lock" /\ worker[v].act = r)
      BY <1>7 DEF Inductive, ActionsSound, WorkerSound
    <2> QED BY <1>4, <1>7, <2>1 DEF RowChange, Carryable
  <1>9. RowsChange /\ row'[r] = x
    BY <1>2, <1>3, <1>8, OneRowChanges DEF Shapes
  <1>10. \A q \in Requests : row[q].status = "succeeded" => row'[q].status = "succeeded"
    BY <1>2, <1>3, <1>7 DEF Shapes
  <1>11. WorkerSound(w)'
    <2>1. Carryable(r)'
      BY <1>4, <1>7, <1>9 DEF Carryable, Automatic, Key
    <2> QED BY <1>4, <1>5, <1>6, <1>9, <2>1 DEF WorkerSound, Section
  <1>12. SetsApproved' /\ lock' \in Workers \cup {None}
    BY <1>2, <1>9, NothingMoves, SetsKept DEF Shapes
  <1> QED BY <1>2, <1>6, <1>9, <1>10, <1>11, <1>12, NothingMoves, WorkStep

\* What succeeded and applied a change set stands; who lost the lease writes nothing.
LEMMA FinishKeeps ==
    ASSUME Inductive, NEW w \in Workers, Finish(w)
    PROVE  Inductive'
  <1>1. /\ worker[w].pc = "finish" /\ worker[w].pc \in Section /\ Rests(w) /\ lock' = None
        /\ UNCHANGED <<storeVars, incident, manual, torn>> /\ Shapes
    BY DEF Finish, Inductive, Rests, Section
  <1>2. OneWorker(w) /\ worker'[w].pc = "idle" /\ WorkerSound(w)'
    BY <1>1, RestsMoves
  <1>3. /\ worker[w].act \in Requests /\ row[worker[w].act].status # "succeeded"
        /\ Carryable(worker[w].act)
        /\ \A v \in Workers \ {w} : worker[v].pc \notin Section
    BY <1>1, Alone
  <1>4. PICK r \in Requests : r = worker[w].act
    BY <1>3
  <1>5. RowsChange /\ \A q \in Requests : row[q].status = "succeeded" => row'[q].status = "succeeded"
    <2>1. CASE ~Holds(w)
      <3>1. row' = row
        BY <2>1 DEF Finish
      <3> QED BY <3>1, RowsRest
    <2>2. CASE Holds(w)
      <3> PICK no \in BOOLEAN : no = FALSE
        OBVIOUS
      <3> PICK s : s = worker[w].end
        OBVIOUS
      <3> PICK cool \in BOOLEAN : cool = (s = "succeeded" /\ Key(r) \in Cooled)
        OBVIOUS
      <3> PICK x : x = [row[r] EXCEPT !.status = s, !.token = None, !.lapsed = no, !.cooling = cool,
                                      !.result = worker[w].result]
        OBVIOUS
      <3>1. row' = [row EXCEPT ![r] = x]
        BY <1>4, <2>2 DEF Finish, Act
      <3>2. IsRow(row[r]) /\ IsResult(worker[w].result) /\ s \in {"succeeded", "failed", "rolled_back"}
        BY <1>1 DEF Shapes, IsWorker
      <3>3. x = [status |-> s, approved |-> row[r].approved, token |-> None, lapsed |-> no,
                 cooling |-> cool, result |-> worker[w].result]
        <4> PICK a, b, c, d, e, f : /\ a = row[r].status /\ b = row[r].approved /\ c = row[r].token
                                    /\ d = row[r].lapsed /\ e = row[r].cooling /\ f = row[r].result
          OBVIOUS
        <4>1. row[r] = [status |-> a, approved |-> b, token |-> c, lapsed |-> d, cooling |-> e, result |-> f]
          BY <3>2 DEF IsRow
        <4>2. x = [status |-> s, approved |-> b, token |-> None, lapsed |-> no, cooling |-> cool,
                   result |-> worker[w].result]
          BY <4>1
        <4> QED BY <4>2
      <3>4. IsRow(x) /\ x.status = s /\ x.approved = row[r].approved
        BY <3>2, <3>3 DEF IsRow, RowStatuses, Ended
      <3>5. s = "succeeded" => Completed(r)
        <4>1. s = "succeeded" => (Changes(r) => Stands(r))
          BY <1>1, <1>4 DEF Inductive, ActionsSound, WorkerSound
        <4>2. \A v \in Workers : worker'[v] = worker[v] => worker[v].pc \notin Section
          BY <1>1, <1>2, <1>3
        <4> QED BY <1>1, <4>1, <4>2 DEF Stands, Completed, storeVars
      <3>6. row'[r] = x => RowChange(r)
        <4>1. row[r].token = w /\ (row[r].approved => ValidParams(r))
          BY <1>4, <2>2 DEF Holds, Act, Inductive, ActionsSound, RowsSound
        <4>2. \A v \in Workers : ~(worker[v].pc = "lock" /\ worker[v].act = r)
          BY <1>1, <4>1 DEF Inductive, ActionsSound, WorkerSound
        <4> HIDE DEF Completed
        <4> QED BY <1>3, <1>4, <3>2, <3>4, <3>5, <4>1, <4>2 DEF RowChange, Carryable
      <3>7. RowsChange
        BY <3>1, <3>6, OneRowChanges
      <3> QED BY <1>1, <1>3, <1>4, <3>1, <3>7 DEF Shapes
    <2> QED BY <2>1, <2>2
  <1>6. SetsApproved' /\ lock' \in Workers \cup {None}
    BY <1>1, <1>5, NothingMoves, SetsKept DEF Shapes
  <1> QED BY <1>1, <1>2, <1>3, <1>5, <1>6, NothingMoves, WorkStep

-----------------------------------------------------------------------------
(* The invariant, and what follows from it.                                *)

LEMMA InitInductive == Init => Inductive
  <1> SUFFICES ASSUME Init
               PROVE  Inductive
    OBVIOUS
  <1>1. Shapes
    BY InitShapes
  <1>2. /\ \A r \in Requests : row[r].status = "none" /\ ~row[r].approved
        /\ \A w \in Workers : worker[w].pc = "idle"
        /\ manual.act = None /\ \A s \in Sets : set[s] = [status |-> "none", snapshot |-> {}]
        /\ \A c \in Chunks : chunk[c] = IF c \in Stored THEN "valid" ELSE "absent"
    BY Blank DEF Init, StoreInit
  <1>3. ActionsSound
    BY <1>2 DEF ActionsSound, RowsSound, WorkerSound, ManualSound, SetsApproved, RollbackOnRecord, Carried, Section
  <1>4. StoreKnown
    BY <1>2, StoreAssumption DEF StoreKnown
  <1>5. \A c \in Chunks : Owners(c) = {}
    BY <1>2 DEF Owners
  <1>6. Matches /\ OneTextPerArticle
    BY <1>2, <1>5 DEF Matches, OneTextPerArticle, Valid
  <1> QED BY <1>1, <1>3, <1>4, <1>6 DEF Inductive, StoreSound

LEMMA NextInductive == Inductive /\ [Next]_vars => Inductive'
  <1> SUFFICES ASSUME Inductive, [Next]_vars
               PROVE  Inductive'
    OBVIOUS
  <1>1. ASSUME NEW r \in Requests,
               CreateAction(r) \/ ProposeChangeSet(r) \/ ApproveAction(r) \/ CancelAction(r)
                 \/ LeaseLapses(r) \/ CooldownEnds(r)
        PROVE  Inductive'
    BY <1>1, AdministratorsKeep
  <1>2. CASE EndRollback \/ CutRollbackShort \/ \E r \in Requests : RollbackAction(r)
    BY <1>2, ManualKeeps
  <1>3. ASSUME NEW i \in Incidents, NEW s \in DOMAIN AllowedFrom, TransitionIncident(i, s)
        PROVE  Inductive'
    BY <1>3, IncidentKeeps
  <1>4. ASSUME NEW w \in Workers, Work(w) \/ Heartbeat(w) \/ Crash(w)
        PROVE  Inductive'
    BY <1>4, ClaimKeeps, LockKeeps, RequeueKeeps, BaselineKeeps, ApplyKeeps, SwitchKeeps, LookKeeps,
       JudgeKeeps, UndoKeeps, FinishKeeps, HeartbeatKeeps, CrashKeeps DEF Work
  <1>5. CASE UNCHANGED vars
    <2>1. /\ UNCHANGED <<storeVars, incident, row, worker, lock, manual, torn>>
          /\ incident \in [Incidents -> {"open", "acknowledged", "resolved", "closed"}]
      BY <1>5 DEF vars, Inductive, Shapes
    <2> QED BY <2>1, RowsRest, StoreRests, RowsAlone
  <1> QED BY <1>1, <1>2, <1>3, <1>4, <1>5 DEF Next

LEMMA AlwaysInductive == Spec => []Inductive
  BY InitInductive, NextInductive, PTL DEF Spec

\* _claim_next, approve_action, evaluate_action: nothing above its automatic level is queued,
\* run or finished without an administrator's approval, a proposal never, and whatever a change
\* set did to the knowledge base an approved action of it did.
THEOREM AlwaysApproved == Spec => []ApprovedBeforeApplied
  <1>1. Inductive => ApprovedBeforeApplied
    BY DEF Inductive, ActionsSound, RowsSound, SetsApproved, ApprovedBeforeApplied, Carryable, Automatic, SetOf
  <1> QED BY <1>1, AlwaysInductive, PTL

\* apply_change_set, rollback_change_set, _execute_locked_action, rollback_action: the chunks
\* are what the change sets say, no two of which own one, no article has two texts but through
\* a rollback, and no action passes for succeeded whose change set was taken back behind it.
THEOREM StoreAlwaysSound == Spec => []StoreIsSound
  <1>1. Inductive => StoreMatchesSets
    <2> SUFFICES ASSUME Inductive, NEW c \in Chunks \ Stored
                 PROVE  Cardinality(Owners(c)) <= 1 /\ (chunk[c] # "absent" <=> Owners(c) # {})
      BY DEF StoreMatchesSets, Owners
    <2> QED BY SoleMember DEF Inductive, StoreSound, Matches
  <1>2. Inductive => StoreIsSound
    BY <1>1 DEF Inductive, ActionsSound, StoreSound, StoreIsSound
  <1> QED BY <1>2, AlwaysInductive, PTL

-----------------------------------------------------------------------------
(* RagMonitor.                                                             *)

\* The tables of the monitor.
IncidentRows == [keyed : BOOLEAN, status : Active \cup {"none", "resolved", "closed", "deleted"}]
DbRows ==
    [version : [Traces -> Versions \cup {0}], verdict : [Verdicts -> 0..MaxIncidents],
     incident : [RuleIncidents -> IncidentRows], queued : SUBSET RuleIncidents]

\* The status that the partial unique index on active_key is about.
Live(d, i) == d.incident[i].status \in Active

\* What the tables say at any time, even in the middle of a cycle; A has the incidents that
\* lost a verdict to its age. Incidents of a rule are opened in order.
DbSound(d, A) ==
    /\ d \in DbRows
    /\ \A i \in RuleIncidents : d.incident[i].keyed <=> Live(d, i)
    /\ \A code \in Rules : \E k \in 0..MaxIncidents : Opened(d, code) = 1..k
    /\ \A i \in RuleIncidents : Live(d, i) => Evidence(d, i) # {} \/ i \in A
    /\ \A i \in d.queued : Live(d, i)

\* A new verdict of the rule finds an incident, or one can be opened.
Room(d, code) == Cardinality(Opened(d, code)) < MaxIncidents \/ Keyed(d, code) # {}

\* A new verdict goes to the incident that holds the key of its rule, or to the next one in order.
LEMMA TargetIs ==
    ASSUME NEW d, NEW A, DbSound(d, A), NEW code \in Rules, Room(d, code)
    PROVE  /\ Target(d, code) \in 1..MaxIncidents /\ <<code, Target(d, code)>> \in RuleIncidents
           /\ \/ d.incident[<<code, Target(d, code)>>].keyed
              \/ /\ ~d.incident[<<code, Target(d, code)>>].keyed
                 /\ Opened(d, code) = 1..(Target(d, code) - 1)
  <1>1. CASE Keyed(d, code) # {}
    <2>1. Target(d, code) \in Keyed(d, code)
      BY <1>1 DEF Target
    <2> QED BY <2>1 DEF Keyed, RuleIncidents
  <1>2. CASE Keyed(d, code) = {}
    <2>1. PICK k \in 0..MaxIncidents : Opened(d, code) = 1..k
      BY DEF DbSound
    <2>2. k \in Nat /\ MaxIncidents \in Nat
      BY MonitorAssumption
    <2>3. Cardinality(1..k) = k
      BY <2>2, FS_Interval
    <2>4. Target(d, code) = 1 + k /\ k < MaxIncidents
      BY <1>2, <2>1, <2>2, <2>3 DEF Target, Room
    <2>5. Target(d, code) \in 1..MaxIncidents /\ Target(d, code) - 1 = k
      BY <2>2, <2>4
    <2>6. <<code, Target(d, code)>> \in RuleIncidents /\ ~d.incident[<<code, Target(d, code)>>].keyed
      BY <1>2, <2>5 DEF RuleIncidents, Keyed
    <2> QED BY <2>1, <2>5, <2>6
  <1> QED BY <1>1, <1>2

\* The new verdicts of a row, and the incidents they go to.
Fresh(d, t, codes) == {x \in {t} \X codes : d.verdict[x] = 0}
Into(d, t, codes) == {<<x[2], Target(d, x[2])>> : x \in Fresh(d, t, codes)}

LEMMA PersistIs ==
    ASSUME NEW d \in DbRows, NEW t, NEW codes, NEW late
    PROVE  LET p == Persist(d, t, codes, late) IN
           /\ DOMAIN p = {"version", "verdict", "incident", "queued"}
           /\ p.version = d.version
           /\ p.verdict = [x \in Verdicts |-> IF x \in Fresh(d, t, codes) THEN Target(d, x[2]) ELSE d.verdict[x]]
           /\ p.incident = [i \in RuleIncidents |-> IF i \in Into(d, t, codes) /\ ~d.incident[i].keyed
                                                    THEN [keyed |-> TRUE, status |-> "open"] ELSE d.incident[i]]
           /\ \A i \in p.queued : i \in d.queued \/ (i \in Into(d, t, codes) /\ Live(p, i))
           /\ p \in [version : {p.version}, verdict : {p.verdict}, incident : {p.incident}, queued : {p.queued}]
  <1> DEFINE e == [x \in Verdicts |-> IF x \in Fresh(d, t, codes) THEN Target(d, x[2]) ELSE d.verdict[x]]
             g == [i \in RuleIncidents |-> IF i \in Into(d, t, codes) /\ ~d.incident[i].keyed
                                           THEN [keyed |-> TRUE, status |-> "open"] ELSE d.incident[i]]
             w == [d EXCEPT !.verdict = e, !.incident = g]
             p == Persist(d, t, codes, late)
  <1>1. /\ DOMAIN w = {"version", "verdict", "incident", "queued"} /\ w.version = d.version /\ w.verdict = e
        /\ w.incident = g /\ w.queued = d.queued
    <2> HIDE DEF e, g
    <2> QED BY DEF DbRows
  <1>2. p = [w EXCEPT !.queued = @ \cup Plan(w, Into(d, t, codes), late)]
    BY DEF Persist, Into, Fresh, DbRows
  <1> HIDE DEF w, e, g, p
  <1>3. /\ DOMAIN p = {"version", "verdict", "incident", "queued"}
        /\ p.version = d.version /\ p.verdict = e /\ p.incident = g
        /\ p.queued = d.queued \cup Plan(w, Into(d, t, codes), late)
    BY <1>1, <1>2
  <1>4. \A i \in p.queued : i \in d.queued \/ (i \in Into(d, t, codes) /\ Live(p, i))
    BY <1>1, <1>3 DEF Plan, Live
  <1>5. p \in [version : {p.version}, verdict : {p.verdict}, incident : {p.incident}, queued : {p.queued}]
    <2>1. p = [f \in {"version", "verdict", "incident", "queued"} |-> p[f]]
      BY <1>1, <1>2
    <2> QED BY <2>1
  <1> QED BY <1>3, <1>4, <1>5 DEF e, g, p

\* Writing verdicts keeps the tables sound, and each new verdict is in a live incident.
LEMMA PersistKeeps ==
    ASSUME NEW d, NEW A, DbSound(d, A), \A code \in Rules : Room(d, code),
           NEW t \in Traces, NEW codes \in SUBSET Rules, NEW late, NEW p, p = Persist(d, t, codes, late)
    PROVE  /\ DbSound(p, A)
           /\ \A x \in Verdicts : x \notin Fresh(d, t, codes) => p.verdict[x] = d.verdict[x]
           /\ \A x \in Fresh(d, t, codes) : x \in Verdicts /\ p.verdict[x] # 0 /\ Live(p, IncidentOf(p, x))
           /\ \A i \in RuleIncidents : Live(d, i) => Live(p, i)
           /\ \A code \in Rules : <<t, code>> \notin Fresh(d, t, codes) => Opened(p, code) = Opened(d, code)
  <1> DEFINE F == Fresh(d, t, codes)
             I == Into(d, t, codes)
  <1>1. /\ DOMAIN p = {"version", "verdict", "incident", "queued"}
        /\ p.version = d.version
        /\ p.verdict = [x \in Verdicts |-> IF x \in F THEN Target(d, x[2]) ELSE d.verdict[x]]
        /\ p.incident = [i \in RuleIncidents |-> IF i \in I /\ ~d.incident[i].keyed
                                                 THEN [keyed |-> TRUE, status |-> "open"] ELSE d.incident[i]]
        /\ \A i \in p.queued : i \in d.queued \/ (i \in I /\ Live(p, i))
        /\ p \in [version : {p.version}, verdict : {p.verdict}, incident : {p.incident}, queued : {p.queued}]
    BY PersistIs DEF DbSound
  <1>2. \A x \in F : x \in Verdicts /\ x[1] = t /\ x[2] \in Rules /\ x[2] \in codes /\ d.verdict[x] = 0
                     /\ x = <<t, x[2]>>
    BY DEF Fresh, Verdicts
  <1>3. \A x \in F : /\ Target(d, x[2]) \in 1..MaxIncidents /\ <<x[2], Target(d, x[2])>> \in RuleIncidents
                     /\ \/ d.incident[<<x[2], Target(d, x[2])>>].keyed
                        \/ /\ ~d.incident[<<x[2], Target(d, x[2])>>].keyed
                           /\ Opened(d, x[2]) = 1..(Target(d, x[2]) - 1)
    BY <1>2, TargetIs
  <1>4. \A i \in I : \E x \in F : i = <<x[2], Target(d, x[2])>>
    BY DEF Into
  <1>5. \A x \in F : <<x[2], Target(d, x[2])>> \in I
    BY DEF Into
  <1> HIDE DEF F, I
  <1>6. I \subseteq RuleIncidents
    BY <1>3, <1>4
  <1>7. /\ d \in DbRows
        /\ d.incident \in [RuleIncidents -> IncidentRows] /\ d.verdict \in [Verdicts -> 0..MaxIncidents]
        /\ d.version \in [Traces -> Versions \cup {0}] /\ d.queued \subseteq RuleIncidents
        /\ \A i \in RuleIncidents : d.incident[i].keyed <=> Live(d, i)
    BY DEF DbSound, DbRows
  <1>8. \A i \in RuleIncidents : \/ p.incident[i] = d.incident[i] /\ (i \in I => d.incident[i].keyed)
                                 \/ /\ i \in I /\ ~d.incident[i].keyed
                                    /\ p.incident[i] = [keyed |-> TRUE, status |-> "open"]
    BY <1>1
  <1>9. \A i \in RuleIncidents : /\ p.incident[i] \in IncidentRows
                                 /\ p.incident[i].keyed <=> Live(p, i)
                                 /\ Live(d, i) => Live(p, i)
                                 /\ i \in I => Live(p, i)
                                 /\ ~Live(d, i) /\ Live(p, i) => i \in I
    <2> TAKE i \in RuleIncidents
    <2>1. CASE p.incident[i] = d.incident[i] /\ (i \in I => d.incident[i].keyed)
      BY <1>7, <2>1 DEF Live
    <2>2. CASE i \in I /\ ~d.incident[i].keyed /\ p.incident[i] = [keyed |-> TRUE, status |-> "open"]
      BY <1>7, <2>2 DEF Live, IncidentRows, Active
    <2> QED BY <1>8, <2>1, <2>2
  <1>10. \A x \in Verdicts : /\ x \in F => p.verdict[x] = Target(d, x[2])
                             /\ x \notin F => p.verdict[x] = d.verdict[x]
                             /\ p.verdict[x] \in 0..MaxIncidents
    <2> TAKE x \in Verdicts
    <2>1. d.verdict[x] \in 0..MaxIncidents
      BY <1>7
    <2>2. ASSUME x \in F PROVE Target(d, x[2]) \in 0..MaxIncidents
      <3>1. Target(d, x[2]) \in 1..MaxIncidents
        BY <1>3, <2>2
      <3> QED BY <3>1, MonitorAssumption
    <2>3. p.verdict[x] = IF x \in F THEN Target(d, x[2]) ELSE d.verdict[x]
      BY <1>1
    <2> QED BY <2>1, <2>2, <2>3
  <1>11. \A x \in F : x \in Verdicts /\ p.verdict[x] # 0 /\ IncidentOf(p, x) \in I /\ IncidentOf(p, x) \in RuleIncidents
    BY <1>2, <1>3, <1>5, <1>6, <1>10 DEF IncidentOf
  <1>12. p \in DbRows
    <2>1. p.incident \in [RuleIncidents -> IncidentRows]
      BY <1>1, <1>9
    <2>2. p.verdict \in [Verdicts -> 0..MaxIncidents]
      BY <1>1, <1>10
    <2>3. p.queued \subseteq RuleIncidents
      BY <1>1, <1>6, <1>7
    <2> QED BY <1>1, <1>7, <2>1, <2>2, <2>3 DEF DbRows
  <1>13. \A code \in Rules : <<t, code>> \notin F => Opened(p, code) = Opened(d, code)
    <2> SUFFICES ASSUME NEW code \in Rules, <<t, code>> \notin F PROVE Opened(p, code) = Opened(d, code)
      OBVIOUS
    <2>1. \A n \in 1..MaxIncidents : <<code, n>> \in RuleIncidents /\ <<code, n>> \notin I
      BY <1>2, <1>4 DEF RuleIncidents
    <2> QED BY <1>8, <2>1 DEF Opened
  <1>14. \A code \in Rules : \E k \in 0..MaxIncidents : Opened(p, code) = 1..k
    <2> TAKE code \in Rules
    <2>1. CASE <<t, code>> \notin F
      BY <1>13, <2>1 DEF DbSound
    <2>2. CASE <<t, code>> \in F
      <3> DEFINE k == Target(d, code)
      <3>1. /\ k \in 1..MaxIncidents /\ <<code, k>> \in I
            /\ d.incident[<<code, k>>].keyed \/ (~d.incident[<<code, k>>].keyed /\ Opened(d, code) = 1..(k - 1))
        <4>1. <<t, code>>[2] = code
          OBVIOUS
        <4> QED BY <1>3, <1>5, <2>2, <4>1
      <3>2. \A n \in 1..MaxIncidents : <<code, n>> \in RuleIncidents /\ (<<code, n>> \in I => n = k)
        BY <1>2, <1>4 DEF RuleIncidents
      <3> HIDE DEF k
      <3>3. CASE d.incident[<<code, k>>].keyed
        <4>1. \A n \in 1..MaxIncidents : p.incident[<<code, n>>] = d.incident[<<code, n>>]
          BY <1>8, <3>2, <3>3
        <4>2. Opened(p, code) = Opened(d, code)
          BY <4>1 DEF Opened
        <4> QED BY <4>2 DEF DbSound
      <3>4. CASE ~d.incident[<<code, k>>].keyed /\ Opened(d, code) = 1..(k - 1)
        <4>1. \A n \in 1..MaxIncidents : n # k => p.incident[<<code, n>>] = d.incident[<<code, n>>]
          BY <1>8, <3>2
        <4>2. p.incident[<<code, k>>].status = "open"
          BY <1>8, <3>1, <3>2, <3>4
        <4>3. Opened(p, code) = Opened(d, code) \cup {k}
          BY <3>1, <4>1, <4>2 DEF Opened
        <4>4. MaxIncidents \in Nat /\ k \in Nat /\ 1..(k - 1) \cup {k} = 1..k /\ k \in 0..MaxIncidents
          BY <3>1, MonitorAssumption
        <4> QED BY <3>4, <4>3, <4>4
      <3> QED BY <3>1, <3>3, <3>4
    <2> QED BY <2>1, <2>2
  <1>15. \A i \in RuleIncidents : Live(p, i) => Evidence(p, i) # {} \/ i \in A
    <2> SUFFICES ASSUME NEW i \in RuleIncidents, Live(p, i), i \notin A PROVE Evidence(p, i) # {}
      OBVIOUS
    <2>1. CASE i \in I
      <3>1. PICK x \in F : i = <<x[2], Target(d, x[2])>>
        BY <1>4, <2>1
      <3>2. x \in Evidence(p, i)
        BY <1>2, <1>10, <3>1 DEF Evidence
      <3> QED BY <3>2
    <2>2. CASE i \notin I
      <3>1. Live(d, i)
        BY <1>9, <2>2
      <3>2. PICK x \in Evidence(d, i) : TRUE
        BY <3>1 DEF DbSound
      <3>3. x \in Verdicts /\ x[2] = i[1] /\ d.verdict[x] = i[2] /\ i[2] \in 1..MaxIncidents
        BY <3>2 DEF Evidence, RuleIncidents
      <3>4. x \notin F
        BY <1>2, <3>3
      <3> QED BY <1>10, <3>3, <3>4 DEF Evidence
    <2> QED BY <2>1, <2>2
  <1>16. \A i \in p.queued : Live(p, i)
    BY <1>1, <1>7, <1>9 DEF DbSound
  <1>17. DbSound(p, A)
    BY <1>9, <1>12, <1>14, <1>15, <1>16 DEF DbSound
  <1> QED BY <1>9, <1>10, <1>11, <1>13, <1>17 DEF F

\* r is d without the stale verdicts, and without the incidents gone.
Dropped(d, t, codes, r, gone) ==
    /\ DOMAIN r = {"version", "verdict", "incident", "queued"}
    /\ r.version = d.version
    /\ r.verdict = [x \in Verdicts |-> IF x \in Stale(d, t, codes) THEN 0 ELSE d.verdict[x]]
    /\ r.incident = [i \in RuleIncidents |-> IF i \in gone THEN [keyed |-> FALSE, status |-> "resolved"]
                                             ELSE d.incident[i]]
    /\ r.queued = d.queued \ gone
    /\ r \in [version : {r.version}, verdict : {r.verdict}, incident : {r.incident}, queued : {r.queued}]
    /\ \A i \in gone : Live(d, i) /\ Evidence(r, i) = {}
    /\ \A x \in Stale(d, t, codes) :
         Live(d, IncidentOf(d, x)) /\ Evidence(r, IncidentOf(d, x)) = {} => IncidentOf(d, x) \in gone

\* The verdicts that a rule set takes back, and the incidents that they leave without evidence.
LEMMA DropIs ==
    ASSUME NEW d, d \in DbRows, NEW t \in Traces, NEW codes \in SUBSET Rules, NEW r, r = DropStale(d, t, codes)
    PROVE  \E gone \in SUBSET RuleIncidents : Dropped(d, t, codes, r, gone)
  <1> DEFINE e == [x \in Verdicts |-> IF x \in Stale(d, t, codes) THEN 0 ELSE d.verdict[x]]
             left == [d EXCEPT !.verdict = e]
             gone == {i \in {IncidentOf(d, x) : x \in Stale(d, t, codes)} :
                        Evidence(left, i) = {} /\ d.incident[i].status \in Active}
             g == [i \in RuleIncidents |-> IF i \in gone THEN [keyed |-> FALSE, status |-> "resolved"]
                                           ELSE d.incident[i]]
  <1>1. left.verdict = e /\ left.incident = d.incident /\ left.version = d.version /\ left.queued = d.queued
        /\ DOMAIN left = {"version", "verdict", "incident", "queued"}
    <2> HIDE DEF e
    <2> QED BY DEF DbRows
  <1>2. left.verdict = [x \in Verdicts |-> IF x \in Stale(d, t, codes) THEN 0 ELSE d.verdict[x]]
    BY <1>1
  <1>3. r = Transition(left, gone, "resolved")
    <2>1. left = [d EXCEPT !.verdict = [x \in Verdicts |-> IF x \in Stale(d, t, codes) THEN 0 ELSE @[x]]]
      BY DEF DbRows
    <2> QED BY <2>1 DEF DropStale
  <1>4. gone \subseteq RuleIncidents
    <2> SUFFICES ASSUME NEW x \in Stale(d, t, codes) PROVE IncidentOf(d, x) \in RuleIncidents
      OBVIOUS
    <2>1. x \in Verdicts /\ x[2] \in Rules /\ d.verdict[x] # 0 /\ d.verdict[x] \in 0..MaxIncidents
      BY DEF Stale, Verdicts, DbRows
    <2>2. d.verdict[x] \in 1..MaxIncidents
      BY <2>1, MonitorAssumption
    <2> QED BY <2>1, <2>2 DEF IncidentOf, RuleIncidents
  <1>6. \A i \in gone : Live(d, i) /\ Evidence(left, i) = {}
    BY DEF Live
  <1>7. \A x \in Stale(d, t, codes) :
           Live(d, IncidentOf(d, x)) /\ Evidence(left, IncidentOf(d, x)) = {} => IncidentOf(d, x) \in gone
    BY DEF Live
  <1>8. r = [left EXCEPT !.incident = [i \in RuleIncidents |-> IF i \in gone THEN [keyed |-> FALSE, status |-> "resolved"]
                                                               ELSE left.incident[i]],
                         !.queued = left.queued \ gone]
    <2> HIDE DEF left, gone
    <2> QED BY <1>1, <1>3 DEF Transition
  <1>9. r = [left EXCEPT !.incident = g, !.queued = d.queued \ gone]
    <2> HIDE DEF left, gone
    <2> QED BY <1>1, <1>8
  <1>10. /\ DOMAIN r = {"version", "verdict", "incident", "queued"}
         /\ r.version = d.version /\ r.verdict = left.verdict /\ r.incident = g /\ r.queued = d.queued \ gone
    <2> HIDE DEF left, gone, g
    <2> QED BY <1>1, <1>9
  <1>11. r = [f \in {"version", "verdict", "incident", "queued"} |-> r[f]]
    <2> HIDE DEF left, gone, g
    <2> QED BY <1>1, <1>9
  <1>12. r \in [version : {r.version}, verdict : {r.verdict}, incident : {r.incident}, queued : {r.queued}]
    BY <1>11
  <1>13. \A i : Evidence(r, i) = Evidence(left, i)
    <2> HIDE DEF left, gone, g
    <2> QED BY <1>10 DEF Evidence
  <1>14. r.incident = [i \in RuleIncidents |-> IF i \in gone THEN [keyed |-> FALSE, status |-> "resolved"]
                                               ELSE d.incident[i]]
    BY <1>10
  <1>15. Dropped(d, t, codes, r, gone)
    <2> HIDE DEF left, gone, g
    <2> QED BY <1>2, <1>6, <1>7, <1>10, <1>12, <1>13, <1>14 DEF Dropped
  <1> QED BY <1>4, <1>15

LEMMA DropKeeps ==
    ASSUME NEW d, NEW A, DbSound(d, A), NEW t \in Traces, NEW codes \in SUBSET Rules,
           NEW r, r = DropStale(d, t, codes)
    PROVE  /\ DbSound(r, A)
           /\ \A x \in Verdicts : x[1] # t \/ x[2] \in codes => r.verdict[x] = d.verdict[x]
           /\ \A x \in Verdicts : r.verdict[x] # 0 => r.verdict[x] = d.verdict[x]
           /\ \A x \in Verdicts : (x[1] # t \/ x[2] \in codes) /\ d.verdict[x] # 0 /\ Live(d, IncidentOf(d, x)) =>
                                    Live(r, IncidentOf(r, x))
           /\ \A code \in Rules : Opened(r, code) = Opened(d, code)
  <1>1. /\ d \in DbRows
        /\ d.incident \in [RuleIncidents -> IncidentRows] /\ d.verdict \in [Verdicts -> 0..MaxIncidents]
        /\ d.version \in [Traces -> Versions \cup {0}] /\ d.queued \subseteq RuleIncidents
        /\ \A i \in RuleIncidents : d.incident[i].keyed <=> Live(d, i)
    BY DEF DbSound, DbRows
  <1>2. PICK gone \in SUBSET RuleIncidents : Dropped(d, t, codes, r, gone)
    BY <1>1, DropIs
  <1>3. \A x \in Stale(d, t, codes) : x[1] = t /\ x[2] \notin codes /\ d.verdict[x] # 0
    BY DEF Stale
  <1>4. \A i \in RuleIncidents : /\ i \notin gone => r.incident[i] = d.incident[i] /\ (Live(r, i) <=> Live(d, i))
                                 /\ i \in gone => r.incident[i] = [keyed |-> FALSE, status |-> "resolved"] /\ ~Live(r, i)
                                 /\ r.incident[i] \in IncidentRows
                                 /\ r.incident[i].keyed <=> Live(r, i)
    <2> TAKE i \in RuleIncidents
    <2>1. r.incident[i] = IF i \in gone THEN [keyed |-> FALSE, status |-> "resolved"] ELSE d.incident[i]
      BY <1>2 DEF Dropped
    <2> QED BY <1>1, <2>1 DEF Live, IncidentRows, Active
  <1>5. \A x \in Verdicts : /\ x \in Stale(d, t, codes) => r.verdict[x] = 0
                            /\ x \notin Stale(d, t, codes) => r.verdict[x] = d.verdict[x]
                            /\ r.verdict[x] \in 0..MaxIncidents
    <2> TAKE x \in Verdicts
    <2>1. r.verdict[x] = IF x \in Stale(d, t, codes) THEN 0 ELSE d.verdict[x]
      BY <1>2 DEF Dropped
    <2>2. 0 \in 0..MaxIncidents /\ d.verdict[x] \in 0..MaxIncidents
      BY <1>1, MonitorAssumption
    <2> QED BY <2>1, <2>2
  <1>6. r \in DbRows
    <2>1. r.incident \in [RuleIncidents -> IncidentRows] /\ r.verdict \in [Verdicts -> 0..MaxIncidents]
      BY <1>2, <1>4, <1>5 DEF Dropped
    <2> QED BY <1>1, <1>2, <2>1 DEF DbRows, Dropped
  <1>7. \A code \in Rules : Opened(r, code) = Opened(d, code)
    <2> TAKE code \in Rules
    <2>1. ASSUME NEW n \in 1..MaxIncidents
          PROVE  r.incident[<<code, n>>].status # "none" <=> d.incident[<<code, n>>].status # "none"
      <3>1. <<code, n>> \in RuleIncidents
        BY DEF RuleIncidents
      <3> QED BY <1>2, <1>4, <3>1 DEF Live, Active, Dropped
    <2> QED BY <2>1 DEF Opened
  <1>8. \A i \in RuleIncidents : Live(r, i) => Evidence(r, i) # {} \/ i \in A
    <2> SUFFICES ASSUME NEW i \in RuleIncidents, Live(r, i), i \notin A, Evidence(r, i) = {} PROVE FALSE
      OBVIOUS
    <2>1. i \notin gone /\ Live(d, i)
      BY <1>4
    <2>2. PICK x \in Evidence(d, i) : TRUE
      BY <2>1 DEF DbSound
    <2>3. x \in Verdicts /\ x[2] = i[1] /\ d.verdict[x] = i[2] /\ x \notin Evidence(r, i)
      BY <2>2 DEF Evidence
    <2>4. x \in Stale(d, t, codes)
      BY <1>5, <2>3 DEF Evidence
    <2>5. i = IncidentOf(d, x)
      BY <2>3 DEF IncidentOf, RuleIncidents
    <2> QED BY <1>2, <2>1, <2>4, <2>5 DEF Dropped
  <1>9. \A i \in r.queued : Live(r, i)
    BY <1>1, <1>2, <1>4 DEF DbSound, Dropped
  <1>10. \A x \in Verdicts : (x[1] # t \/ x[2] \in codes) /\ d.verdict[x] # 0 /\ Live(d, IncidentOf(d, x)) =>
                               Live(r, IncidentOf(r, x))
    <2> SUFFICES ASSUME NEW x \in Verdicts, x[1] # t \/ x[2] \in codes, d.verdict[x] # 0, Live(d, IncidentOf(d, x))
                 PROVE  Live(r, IncidentOf(r, x))
      OBVIOUS
    <2>1. r.verdict[x] = d.verdict[x]
      BY <1>3, <1>5
    <2>2. d.verdict[x] \in 1..MaxIncidents /\ x[2] \in Rules
      BY <1>1, MonitorAssumption DEF Verdicts
    <2>3. IncidentOf(r, x) = IncidentOf(d, x) /\ IncidentOf(d, x) \in RuleIncidents
      BY <2>1, <2>2 DEF IncidentOf, RuleIncidents
    <2>4. x \in Evidence(r, IncidentOf(d, x))
      BY <2>1 DEF Evidence, IncidentOf
    <2> QED BY <1>2, <1>4, <2>3, <2>4 DEF Dropped
  <1>11. DbSound(r, A)
    BY <1>4, <1>6, <1>7, <1>8, <1>9 DEF DbSound
  <1> QED BY <1>3, <1>5, <1>7, <1>10, <1>11

\* What a row is diagnosed with are rules.
LEMMA DiagnosisIs ==
    ASSUME NEW t \in Traces, NEW v \in Versions
    PROVE  Diagnosis(t, v) \in SUBSET Rules
  <1> DEFINE all == {Fact[u].fires[w] : u \in Traces, w \in Versions}
             one == {"RC-4d"}
  <1>1. Rules = (UNION all) \cup one
    BY DEF Rules
  <1>2. Fact[t].fires[v] \in all
    OBVIOUS
  <1>3. Ungrounded(t) = one \/ Ungrounded(t) = {}
    BY DEF Ungrounded
  <1> HIDE DEF all, one
  <1>4. Fact[t].fires[v] \subseteq Rules /\ one \subseteq Rules
    BY <1>1, <1>2
  <1> QED BY <1>3, <1>4 DEF Diagnosis

\* One row of a cycle: it leaves the verdicts of the others and the incidents they support,
\* and what it finds anew goes to a live incident.
LEMMA RowKeeps ==
    ASSUME NEW d, NEW A, DbSound(d, A), \A code \in Rules : Room(d, code),
           NEW t \in Traces, NEW v \in Versions, NEW late, NEW r, r = Row(d, t, v, late)
    PROVE  /\ DbSound(r, A)
           /\ \A x \in Verdicts : x[1] # t => r.verdict[x] = d.verdict[x]
           /\ \A x \in Verdicts : x[1] # t /\ d.verdict[x] # 0 /\ Live(d, IncidentOf(d, x)) =>
                                    Live(r, IncidentOf(r, x))
           /\ \A x \in Verdicts : d.verdict[x] = 0 /\ r.verdict[x] # 0 => Live(r, IncidentOf(r, x))
           /\ \A code \in Rules : \/ Opened(r, code) = Opened(d, code)
                                  \/ r.verdict[<<t, code>>] # 0 /\ Live(r, IncidentOf(r, <<t, code>>))
  <1> DEFINE codes == Diagnosis(t, v)
             p == Persist(d, t, codes, late)
             q == DropStale(p, t, codes)
  <1>1. codes \in SUBSET Rules
    BY DiagnosisIs
  <1>2. r = [q EXCEPT !.version[t] = IF v >= @ THEN v ELSE @]
    BY DEF Row, Processed
  <1> HIDE DEF codes
  <1>3. /\ DbSound(p, A)
        /\ \A x \in Verdicts : x \notin Fresh(d, t, codes) => p.verdict[x] = d.verdict[x]
        /\ \A x \in Fresh(d, t, codes) : x \in Verdicts /\ p.verdict[x] # 0 /\ Live(p, IncidentOf(p, x))
        /\ \A i \in RuleIncidents : Live(d, i) => Live(p, i)
        /\ \A code \in Rules : <<t, code>> \notin Fresh(d, t, codes) => Opened(p, code) = Opened(d, code)
    BY <1>1, PersistKeeps
  <1> HIDE DEF p
  <1>4. /\ DbSound(q, A)
        /\ \A x \in Verdicts : x[1] # t \/ x[2] \in codes => q.verdict[x] = p.verdict[x]
        /\ \A x \in Verdicts : q.verdict[x] # 0 => q.verdict[x] = p.verdict[x]
        /\ \A x \in Verdicts : (x[1] # t \/ x[2] \in codes) /\ p.verdict[x] # 0 /\ Live(p, IncidentOf(p, x)) =>
                                 Live(q, IncidentOf(q, x))
        /\ \A code \in Rules : Opened(q, code) = Opened(p, code)
    BY <1>1, <1>3, DropKeeps
  <1> HIDE DEF q
  <1>5. \A x \in Fresh(d, t, codes) : x[1] = t /\ x[2] \in codes
    BY DEF Fresh
  <1>6. /\ \A x \in Verdicts : x[1] # t => q.verdict[x] = d.verdict[x]
        /\ \A x \in Verdicts : x[1] # t /\ d.verdict[x] # 0 /\ Live(d, IncidentOf(d, x)) => Live(q, IncidentOf(q, x))
        /\ \A x \in Verdicts : d.verdict[x] = 0 /\ q.verdict[x] # 0 => Live(q, IncidentOf(q, x))
    <2>1. ASSUME NEW x \in Verdicts, x[1] # t
          PROVE  /\ q.verdict[x] = d.verdict[x]
                 /\ d.verdict[x] # 0 /\ Live(d, IncidentOf(d, x)) => Live(q, IncidentOf(q, x))
      <3>1. p.verdict[x] = d.verdict[x] /\ q.verdict[x] = d.verdict[x]
        BY <1>3, <1>4, <1>5, <2>1
      <3>2. ASSUME d.verdict[x] # 0, Live(d, IncidentOf(d, x))
            PROVE  Live(q, IncidentOf(q, x))
        <4>1. d.verdict[x] \in 1..MaxIncidents /\ x[2] \in Rules
          BY <3>2, MonitorAssumption DEF Verdicts, DbSound, DbRows
        <4>2. IncidentOf(d, x) \in RuleIncidents /\ IncidentOf(p, x) = IncidentOf(d, x)
          BY <3>1, <4>1 DEF IncidentOf, RuleIncidents
        <4>3. Live(p, IncidentOf(p, x)) /\ p.verdict[x] # 0
          BY <1>3, <3>1, <3>2, <4>2
        <4> QED BY <1>4, <2>1, <4>3
      <3> QED BY <3>1, <3>2
    <2>2. ASSUME NEW x \in Verdicts, d.verdict[x] = 0, q.verdict[x] # 0
          PROVE  Live(q, IncidentOf(q, x))
      <3>1. x \in Fresh(d, t, codes)
        BY <1>3, <1>4, <2>2
      <3> QED BY <1>3, <1>4, <1>5, <3>1
    <2> QED BY <2>1, <2>2
  <1>7. \A code \in Rules : \/ Opened(q, code) = Opened(d, code)
                            \/ q.verdict[<<t, code>>] # 0 /\ Live(q, IncidentOf(q, <<t, code>>))
    <2> TAKE code \in Rules
    <2>1. CASE <<t, code>> \notin Fresh(d, t, codes)
      BY <1>3, <1>4, <2>1
    <2>2. CASE <<t, code>> \in Fresh(d, t, codes)
      <3> DEFINE x == <<t, code>>
      <3>1. x \in Fresh(d, t, codes)
        BY <2>2
      <3> HIDE DEF x
      <3>2. x \in Verdicts /\ p.verdict[x] # 0 /\ Live(p, IncidentOf(p, x)) /\ x[2] \in codes
        BY <1>3, <1>5, <3>1
      <3>3. q.verdict[x] # 0 /\ Live(q, IncidentOf(q, x))
        BY <1>4, <3>2
      <3> QED BY <3>3 DEF x
    <2> QED BY <2>1, <2>2
  <1>8. /\ q \in DbRows /\ r.verdict = q.verdict /\ r.incident = q.incident /\ r.queued = q.queued
        /\ r \in DbRows
    <2>1. q \in DbRows
      BY <1>4 DEF DbSound
    <2>2. r.verdict = q.verdict /\ r.incident = q.incident /\ r.queued = q.queued
      BY <1>2, <2>1 DEF DbRows
    <2>3. r.version \in [Traces -> Versions \cup {0}]
      BY <1>2, <2>1 DEF DbRows
    <2>4. r = [q EXCEPT !.version = r.version]
      BY <1>2, <2>1 DEF DbRows
    <2> QED BY <2>1, <2>2, <2>3, <2>4 DEF DbRows
  <1>9. /\ \A i : Live(r, i) <=> Live(q, i)
        /\ \A i : Evidence(r, i) = Evidence(q, i)
        /\ \A x : IncidentOf(r, x) = IncidentOf(q, x)
        /\ \A code : Opened(r, code) = Opened(q, code)
    BY <1>8 DEF Live, Evidence, IncidentOf, Opened
  <1>10. DbSound(r, A)
    BY <1>4, <1>8, <1>9 DEF DbSound
  <1> QED BY <1>6, <1>7, <1>8, <1>9, <1>10

\* Rows of a batch one after the other.
Following(h, d0, rows, v, late, N) ==
    h = [n \in 0..N |-> IF n = 0 THEN d0 ELSE IF n \in rows THEN Row(h[n - 1], n, v, late) ELSE h[n - 1]]

\* The rows of a batch one after the other are such a function.
LEMMA CyclesExist ==
    ASSUME NEW d0, NEW rows, NEW v, NEW late, NEW N \in Nat
    PROVE  \E h : Following(h, d0, rows, v, late, N)
  <1> DEFINE Next1(h, n) == IF n = 0 THEN d0 ELSE IF n \in rows THEN Row(h[n - 1], n, v, late) ELSE h[n - 1]
             Upto(n) == \E h : h = [m \in 0..n |-> Next1(h, m)]
             Missing == {n \in Nat : ~Upto(n)}
  <1>1. Upto(0)
    <2> WITNESS [m \in 0..0 |-> d0]
    <2>1. \A m \in 0..0 : m = 0
      OBVIOUS
    <2> QED BY <2>1
  <1>2. ASSUME NEW n \in Nat, Upto(n) PROVE Upto(n + 1)
    <2> PICK g : g = [m \in 0..n |-> Next1(g, m)]
      BY <1>2
    <2> DEFINE h == [m \in 0..(n + 1) |-> Next1(g, m)]
    <2>1. \A m \in 0..n : h[m] = g[m]
      BY SMT
    <2>2. \A m \in 0..(n + 1) : m = 0 \/ m - 1 \in 0..n
      OBVIOUS
    <2>3. \A m \in 0..(n + 1) : Next1(g, m) = Next1(h, m)
      <3> HIDE DEF h
      <3> QED BY <2>1, <2>2
    <2> HIDE DEF Next1
    <2>4. h = [m \in 0..(n + 1) |-> Next1(h, m)]
      BY <2>3
    <2> QED BY <2>4
  <1>3. Missing = {}
    <2> SUFFICES ASSUME Missing # {} PROVE FALSE
      OBVIOUS
    <2> PICK n \in Missing : \A m \in Missing : n <= m
      BY LeastNat
    <2> HIDE DEF Upto
    <2>1. n # 0 /\ n - 1 \in Nat /\ n - 1 \notin Missing
      BY <1>1
    <2>2. Upto(n - 1)
      BY <2>1
    <2> QED BY <2>1, <2>2, <1>2
  <1> QED BY <1>3 DEF Following

\* What holds in the middle of a cycle that began with d0, when the traces up to n are done:
\* incidents opened in the cycle keep the verdict they were opened for.
Midway(d, d0, A, n) ==
    /\ DbSound(d, A)
    /\ \A code \in Rules : \/ Cardinality(Opened(d, code)) < MaxIncidents
                           \/ \E t \in Traces : /\ t <= n /\ d.verdict[<<t, code>>] # 0
                                                /\ Live(d, IncidentOf(d, <<t, code>>))
    /\ \A x \in Verdicts : x[1] > n => d.verdict[x] = d0.verdict[x]
    /\ \A x \in Verdicts : d0.verdict[x] = 0 /\ d.verdict[x] # 0 => Live(d, IncidentOf(d, x))

\* One more row of a cycle.
LEMMA RowsKeep ==
    ASSUME NEW d, NEW d0, NEW A, NEW n \in Nat, n + 1 <= LastTrace, Midway(d, d0, A, n),
           NEW v \in Versions, NEW late, NEW r, r = Row(d, n + 1, v, late)
    PROVE  Midway(r, d0, A, n + 1)
  <1> DEFINE t == n + 1
  <1>0. t \in Traces /\ \A u \in Traces : u \in Nat
    BY MonitorAssumption DEF Traces
  <1>1. \A code \in Rules : Room(d, code)
    <2> SUFFICES ASSUME NEW code \in Rules, NEW u \in Traces, d.verdict[<<u, code>>] # 0,
                        Live(d, IncidentOf(d, <<u, code>>))
                 PROVE  Keyed(d, code) # {}
      BY DEF Midway, Room
    <2> DEFINE k == d.verdict[<<u, code>>]
    <2>1. k \in 1..MaxIncidents
      <3>1. <<u, code>> \in Verdicts
        BY DEF Verdicts
      <3>2. k \in 0..MaxIncidents
        BY <3>1 DEF Midway, DbSound, DbRows
      <3> QED BY <3>2, MonitorAssumption
    <2>2. IncidentOf(d, <<u, code>>) = <<code, k>>
      BY DEF IncidentOf
    <2> HIDE DEF k
    <2>3. <<code, k>> \in RuleIncidents /\ Live(d, <<code, k>>)
      BY <2>1, <2>2 DEF RuleIncidents
    <2>4. d.incident[<<code, k>>].keyed
      BY <2>3 DEF Midway, DbSound
    <2> QED BY <2>1, <2>4 DEF Keyed
  <1>2. /\ DbSound(r, A)
        /\ \A x \in Verdicts : x[1] # t => r.verdict[x] = d.verdict[x]
        /\ \A x \in Verdicts : x[1] # t /\ d.verdict[x] # 0 /\ Live(d, IncidentOf(d, x)) =>
                                 Live(r, IncidentOf(r, x))
        /\ \A x \in Verdicts : d.verdict[x] = 0 /\ r.verdict[x] # 0 => Live(r, IncidentOf(r, x))
        /\ \A code \in Rules : \/ Opened(r, code) = Opened(d, code)
                               \/ r.verdict[<<t, code>>] # 0 /\ Live(r, IncidentOf(r, <<t, code>>))
    BY <1>0, <1>1, RowKeeps DEF Midway
  <1>3. \A x \in Verdicts : x[1] \in Traces /\ x[1] \in Nat
    BY <1>0 DEF Verdicts
  <1>4. \A x \in Verdicts : x[1] > t => r.verdict[x] = d0.verdict[x]
    <2> SUFFICES ASSUME NEW x \in Verdicts, x[1] > t PROVE r.verdict[x] = d0.verdict[x]
      OBVIOUS
    <2>1. x[1] # t /\ x[1] > n
      BY <1>3
    <2> QED BY <1>2, <2>1 DEF Midway
  <1>5. \A x \in Verdicts : d0.verdict[x] = 0 /\ r.verdict[x] # 0 => Live(r, IncidentOf(r, x))
    <2> SUFFICES ASSUME NEW x \in Verdicts, d0.verdict[x] = 0, r.verdict[x] # 0 PROVE Live(r, IncidentOf(r, x))
      OBVIOUS
    <2>1. CASE x[1] = t
      <3>1. d.verdict[x] = 0
        BY <1>3, <2>1 DEF Midway
      <3> QED BY <1>2, <3>1
    <2>2. CASE x[1] # t
      BY <1>2, <2>2 DEF Midway
    <2> QED BY <2>1, <2>2
  <1>6. \A code \in Rules : \/ Cardinality(Opened(r, code)) < MaxIncidents
                            \/ \E u \in Traces : /\ u <= t /\ r.verdict[<<u, code>>] # 0
                                                 /\ Live(r, IncidentOf(r, <<u, code>>))
    <2> TAKE code \in Rules
    <2>1. CASE r.verdict[<<t, code>>] # 0 /\ Live(r, IncidentOf(r, <<t, code>>))
      BY <1>0, <2>1
    <2>2. CASE Opened(r, code) = Opened(d, code)
      <3>1. CASE Cardinality(Opened(d, code)) < MaxIncidents
        BY <2>2, <3>1
      <3>2. ASSUME NEW u \in Traces, u <= n, d.verdict[<<u, code>>] # 0, Live(d, IncidentOf(d, <<u, code>>))
            PROVE  u <= t /\ r.verdict[<<u, code>>] # 0 /\ Live(r, IncidentOf(r, <<u, code>>))
        <4>1. u # t /\ u <= t
          BY <1>0, <3>2
        <4> DEFINE x == <<u, code>>
        <4>2. x \in Verdicts /\ x[1] = u
          BY DEF Verdicts
        <4>3. d.verdict[x] # 0 /\ Live(d, IncidentOf(d, x))
          BY <3>2
        <4> HIDE DEF x
        <4>4. r.verdict[x] # 0 /\ Live(r, IncidentOf(r, x))
          BY <1>2, <4>1, <4>2, <4>3
        <4> QED BY <4>1, <4>4 DEF x
      <3> QED BY <3>1, <3>2 DEF Midway
    <2> QED BY <1>2, <2>1, <2>2
  <1> QED BY <1>2, <1>4, <1>5, <1>6 DEF Midway

\* A whole cycle.
LEMMA CycleEnds ==
    ASSUME DbSound(db, aged), RoomForIncidents, NEW rows \in SUBSET Traces, NEW v \in Versions, NEW late
    PROVE  Midway(Diagnosed(db, rows, v, late), db, aged, LastTrace)
  <1>0. LastTrace \in Nat /\ Traces = 1..LastTrace
    BY MonitorAssumption DEF Traces
  <1> DEFINE after == CHOOSE h : Following(h, db, rows, v, late, LastTrace)
             Missing == {n \in Nat : n <= LastTrace /\ ~Midway(after[n], db, aged, n)}
  <1>1. Following(after, db, rows, v, late, LastTrace)
    BY <1>0, CyclesExist
  <1>2. Diagnosed(db, rows, v, late) = after[LastTrace]
    BY DEF Diagnosed, Following
  <1> HIDE DEF after
  <1>3. after[0] = db /\ Midway(after[0], db, aged, 0)
    <2>1. after[0] = db
      BY <1>0, <1>1 DEF Following
    <2> QED BY <2>1 DEF Midway, RoomForIncidents
  <1>4. ASSUME NEW n \in Nat, n + 1 <= LastTrace, Midway(after[n], db, aged, n)
        PROVE  Midway(after[n + 1], db, aged, n + 1)
    <2>1. after[n + 1] = IF n + 1 \in rows THEN Row(after[n], n + 1, v, late) ELSE after[n]
      <3>1. n + 1 \in 0..LastTrace /\ n + 1 # 0 /\ (n + 1) - 1 = n
        BY <1>0, <1>4
      <3> QED BY <1>1, <3>1 DEF Following
    <2>2. CASE n + 1 \in rows
      BY <1>4, <2>1, <2>2, RowsKeep
    <2>3. CASE n + 1 \notin rows
      <3>1. \A t \in Traces : t \in Nat /\ (t <= n => t <= n + 1)
        BY <1>0
      <3>2. \A x \in Verdicts : x[1] \in Nat /\ (x[1] > n + 1 => x[1] > n)
        BY <1>0 DEF Verdicts
      <3> QED BY <1>4, <2>1, <2>3, <3>1, <3>2 DEF Midway
    <2> QED BY <2>2, <2>3
  <1>5. Missing = {}
    <2> SUFFICES ASSUME Missing # {} PROVE FALSE
      OBVIOUS
    <2> PICK n \in Missing : \A m \in Missing : n <= m
      BY LeastNat
    <2>1. n # 0
      BY <1>3
    <2>2. n - 1 \in Nat /\ (n - 1) + 1 = n /\ n <= LastTrace
      BY <2>1
    <2>3. n - 1 \notin Missing /\ n - 1 <= LastTrace
      BY <1>0, <2>2
    <2>4. Midway(after[n - 1], db, aged, n - 1)
      BY <2>2, <2>3
    <2>5. Midway(after[n], db, aged, n)
      BY <1>4, <2>2, <2>4
    <2> QED BY <2>5
  <1> QED BY <1>0, <1>2, <1>5

\* What is known of the monitor in every state.
MonitorSound ==
    /\ DbSound(db, aged)
    /\ present \subseteq Traces /\ aged \subseteq RuleIncidents /\ reported \in BOOLEAN /\ outages \in 0..MaxOutages
    /\ fails \in [Processes -> [Traces -> 0..(PoisonAfter - 1)]]

\* Marks of what is processed or set aside.
LEMMA VersionsOnly ==
    ASSUME NEW d, NEW A, DbSound(d, A), NEW e, NEW w \in [Traces -> Versions \cup {0}],
           e = [d EXCEPT !.version = w]
    PROVE  DbSound(e, A) /\ e.verdict = d.verdict /\ e.incident = d.incident
  <1>1. d \in DbRows
    BY DEF DbSound
  <1>2. /\ e.verdict = d.verdict /\ e.incident = d.incident /\ e.queued = d.queued /\ e.version = w
        /\ e \in DbRows
    BY <1>1 DEF DbRows
  <1>3. /\ \A i : Live(e, i) <=> Live(d, i)
        /\ \A i : Evidence(e, i) = Evidence(d, i)
        /\ \A code : Opened(e, code) = Opened(d, code)
    BY <1>2 DEF Live, Evidence, Opened
  <1> QED BY <1>2, <1>3 DEF DbSound

\* A cycle of a process, by its effect on the tables.
LEMMA CycleIs ==
    ASSUME MonitorSound, NEW p \in Processes, Cycle(p)
    PROVE  /\ DbSound(db', aged') /\ UNCHANGED <<present, aged, reported, outages>>
           /\ fails' \in [Processes -> [Traces -> 0..(PoisonAfter - 1)]]
           /\ \A x \in Verdicts : db.verdict[x] = 0 /\ db'.verdict[x] # 0 => Live(db', IncidentOf(db', x))
  <1>1. RoomForIncidents
    BY DEF Cycle
  <1>2. PICK unlucky \in SUBSET (present \ Persistent), late \in BOOLEAN : RunCycle(p, unlucky, late)
    BY DEF Cycle
  <1> DEFINE v == VersionOf[p]
             batch == Batch(v)
             failed == batch \cap (Unwritable \cup unlucky)
             poisoned == Poisoned(p, failed)
             after == Diagnosed(db, batch \ failed, v, late)
  <1>3. /\ db' = SetAside(after, poisoned, v)
        /\ fails' = [fails EXCEPT ![p] = [t \in Traces |-> IF t \in failed \ poisoned THEN @[t] + 1
                                                           ELSE IF t \in batch THEN 0 ELSE @[t]]]
        /\ UNCHANGED <<present, aged, reported, outages>>
    BY <1>2 DEF RunCycle
  <1>4. v \in Versions /\ batch \subseteq Traces /\ failed \subseteq batch /\ poisoned \subseteq failed
    BY DEF Versions, Batch, Pending, MonitorSound, Poisoned
  <1>5. Midway(after, db, aged, LastTrace)
    <2>1. batch \ failed \in SUBSET Traces
      BY <1>4
    <2> HIDE DEF batch, failed, v
    <2> QED BY <1>1, <1>4, <2>1, CycleEnds DEF MonitorSound
  <1>6. \A t \in failed \ poisoned : fails[p][t] + 1 < PoisonAfter
    <2> SUFFICES ASSUME NEW t \in failed, ~(fails[p][t] + 1 >= PoisonAfter) PROVE fails[p][t] + 1 < PoisonAfter
      BY DEF Poisoned
    <2>1. fails[p][t] \in 0..(PoisonAfter - 1)
      BY <1>4 DEF MonitorSound
    <2> QED BY <2>1, MonitorAssumption
  <1> HIDE DEF v, batch, failed, poisoned, after
  <1>7. DbSound(db', aged) /\ db'.verdict = after.verdict /\ db'.incident = after.incident
    <2> DEFINE w == [t \in Traces |-> IF t \in poisoned THEN v ELSE after.version[t]]
    <2>1. DbSound(after, aged) /\ after \in DbRows
      BY <1>5 DEF Midway, DbSound
    <2>2. w \in [Traces -> Versions \cup {0}]
      BY <1>4, <2>1 DEF DbRows
    <2>3. db' = [after EXCEPT !.version = w]
      BY <1>3, <2>1 DEF SetAside, DbRows
    <2> HIDE DEF w
    <2> QED BY <2>1, <2>2, <2>3, VersionsOnly
  <1>8. \A x \in Verdicts : db.verdict[x] = 0 /\ db'.verdict[x] # 0 => Live(db', IncidentOf(db', x))
    <2>1. \A x : Live(db', IncidentOf(db', x)) <=> Live(after, IncidentOf(after, x))
      BY <1>7 DEF Live, IncidentOf
    <2> QED BY <1>5, <1>7, <2>1 DEF Midway
  <1>9. fails' \in [Processes -> [Traces -> 0..(PoisonAfter - 1)]]
    <2> DEFINE now == [t \in Traces |-> IF t \in failed \ poisoned THEN fails[p][t] + 1
                                        ELSE IF t \in batch THEN 0 ELSE fails[p][t]]
    <2>1. fails \in [Processes -> [Traces -> 0..(PoisonAfter - 1)]]
      BY DEF MonitorSound
    <2>2. ASSUME NEW t \in Traces PROVE now[t] \in 0..(PoisonAfter - 1)
      <3>1. fails[p][t] \in 0..(PoisonAfter - 1) /\ PoisonAfter \in Nat \ {0}
        BY <2>1, MonitorAssumption
      <3> QED BY <1>6, <3>1
    <2>3. now \in [Traces -> 0..(PoisonAfter - 1)]
      BY <2>2
    <2>4. fails' = [fails EXCEPT ![p] = now]
      BY <1>3, <2>1
    <2> HIDE DEF now
    <2> QED BY <2>1, <2>3, <2>4
  <1> QED BY <1>3, <1>7, <1>8, <1>9

\* What an administrator or the retention does to an incident: none is opened.
LEMMA FewerLive ==
    ASSUME NEW d, NEW A, DbSound(d, A), NEW e \in DbRows,
           \A j \in RuleIncidents : (e.incident[j].keyed <=> Live(e, j)) /\ (Live(e, j) => Live(d, j)),
           \A code \in Rules : Opened(e, code) = Opened(d, code),
           \A j : Evidence(e, j) = Evidence(d, j),
           \A j \in e.queued : Live(e, j)
    PROVE  DbSound(e, A)
  <1>1. \A code \in Rules : \E k \in 0..MaxIncidents : Opened(e, code) = 1..k
    BY DEF DbSound
  <1>2. \A j \in RuleIncidents : Live(e, j) => Evidence(e, j) # {} \/ j \in A
    BY DEF DbSound
  <1> QED BY <1>1, <1>2 DEF DbSound

\* Whoever administers an incident.
LEMMA AdministersKeep ==
    ASSUME MonitorSound, NEW i \in RuleIncidents, NEW s \in DOMAIN AdministerFrom, Administer(i, s)
    PROVE  DbSound(db', aged') /\ db'.verdict = db.verdict
  <1>1. /\ db \in DbRows /\ aged' = aged /\ db' = Transition(db, {i}, s)
        /\ db.incident[i].status \in AdministerFrom[s]
    BY DEF MonitorSound, DbSound, Administer
  <1>2. s \in {"acknowledged", "resolved", "closed"}
    BY DEF AdministerFrom
  <1>3. \A j \in RuleIncidents : db.incident[j] \in IncidentRows /\ (db.incident[j].keyed <=> Live(db, j))
    BY <1>1 DEF MonitorSound, DbSound, DbRows
  <1>4. CASE s = "acknowledged"
    <2>1. /\ db'.version = db.version /\ db'.verdict = db.verdict /\ db'.queued = db.queued
          /\ db'.incident = [j \in RuleIncidents |-> IF j \in {i} THEN [db.incident[j] EXCEPT !.status = s]
                                                     ELSE db.incident[j]]
          /\ db' \in [version : {db'.version}, verdict : {db'.verdict}, incident : {db'.incident}, queued : {db'.queued}]
      BY <1>1, <1>4 DEF Transition, DbRows
    <2>2. db.incident[i].status = "open"
      BY <1>1, <1>4 DEF AdministerFrom
    <2>3. \A j \in RuleIncidents : /\ db'.incident[j] \in IncidentRows /\ db'.incident[j].keyed = db.incident[j].keyed
                                   /\ Live(db', j) <=> Live(db, j)
                                   /\ db'.incident[j].status # "none" <=> db.incident[j].status # "none"
      <3> TAKE j \in RuleIncidents
      <3>1. db'.incident[j] = IF j = i THEN [db.incident[j] EXCEPT !.status = s] ELSE db.incident[j]
        BY <2>1
      <3> QED BY <1>3, <1>4, <2>2, <3>1 DEF IncidentRows, Live, Active
    <2>4. db' \in DbRows
      BY <1>1, <2>1, <2>3 DEF DbRows
    <2>5. \A code \in Rules : Opened(db', code) = Opened(db, code)
      BY <2>3 DEF Opened, RuleIncidents
    <2>6. \A j : Evidence(db', j) = Evidence(db, j)
      BY <2>1 DEF Evidence
    <2>7. \A j \in RuleIncidents : (db'.incident[j].keyed <=> Live(db', j)) /\ (Live(db', j) => Live(db, j))
      BY <1>3, <2>3
    <2>8. \A j \in db'.queued : Live(db', j)
      BY <1>1, <2>1, <2>3 DEF MonitorSound, DbSound, DbRows
    <2>9. DbSound(db', aged)
      BY <2>4, <2>5, <2>6, <2>7, <2>8, FewerLive DEF MonitorSound
    <2> QED BY <1>1, <2>1, <2>9
  <1>5. CASE s \in {"resolved", "closed"}
    <2>1. /\ db'.version = db.version /\ db'.verdict = db.verdict /\ db'.queued = db.queued \ {i}
          /\ db'.incident = [j \in RuleIncidents |-> IF j \in {i} THEN [keyed |-> FALSE, status |-> s]
                                                     ELSE db.incident[j]]
          /\ db' \in [version : {db'.version}, verdict : {db'.verdict}, incident : {db'.incident}, queued : {db'.queued}]
      BY <1>1, <1>5 DEF Transition, DbRows
    <2>2. db.incident[i].status # "none"
      BY <1>1, <1>5 DEF AdministerFrom, Active
    <2>3. \A j \in RuleIncidents : /\ db'.incident[j] \in IncidentRows /\ (db'.incident[j].keyed <=> Live(db', j))
                                   /\ Live(db', j) <=> (Live(db, j) /\ j # i)
                                   /\ db'.incident[j].status # "none" <=> db.incident[j].status # "none"
      <3> TAKE j \in RuleIncidents
      <3>1. db'.incident[j] = IF j = i THEN [keyed |-> FALSE, status |-> s] ELSE db.incident[j]
        BY <2>1
      <3> QED BY <1>3, <1>5, <2>2, <3>1 DEF IncidentRows, Live, Active
    <2>4. db' \in DbRows
      BY <1>1, <2>1, <2>3 DEF DbRows
    <2>5. \A code \in Rules : Opened(db', code) = Opened(db, code)
      BY <2>3 DEF Opened, RuleIncidents
    <2>6. \A j : Evidence(db', j) = Evidence(db, j)
      BY <2>1 DEF Evidence
    <2>7. \A j \in RuleIncidents : (db'.incident[j].keyed <=> Live(db', j)) /\ (Live(db', j) => Live(db, j))
      BY <1>3, <2>3
    <2>8. \A j \in db'.queued : Live(db', j)
      BY <1>1, <2>1, <2>3 DEF MonitorSound, DbSound, DbRows
    <2>9. DbSound(db', aged)
      BY <2>4, <2>5, <2>6, <2>7, <2>8, FewerLive DEF MonitorSound
    <2> QED BY <1>1, <2>1, <2>9
  <1> QED BY <1>2, <1>4, <1>5

\* The retention.
LEMMA PurgesKeep ==
    ASSUME MonitorSound, \/ \E x \in Verdicts : PurgeVerdict(x)
                         \/ \E i \in RuleIncidents : PurgeIncident(i)
    PROVE  /\ DbSound(db', aged') /\ aged' \subseteq RuleIncidents
           /\ \A x \in Verdicts : db'.verdict[x] # 0 => db'.verdict[x] = db.verdict[x]
  <1>1. /\ db \in DbRows /\ aged \subseteq RuleIncidents
        /\ \A j \in RuleIncidents : db.incident[j] \in IncidentRows /\ (db.incident[j].keyed <=> Live(db, j))
    BY DEF MonitorSound, DbSound, DbRows
  <1>2. ASSUME NEW x \in Verdicts, PurgeVerdict(x)
        PROVE  /\ DbSound(db', aged') /\ aged' \subseteq RuleIncidents
               /\ \A y \in Verdicts : db'.verdict[y] # 0 => db'.verdict[y] = db.verdict[y]
    <2>1. /\ db'.version = db.version /\ db'.queued = db.queued /\ db'.incident = db.incident
          /\ db'.verdict = [db.verdict EXCEPT ![x] = 0]
          /\ db' \in [version : {db'.version}, verdict : {db'.verdict}, incident : {db'.incident}, queued : {db'.queued}]
          /\ aged' = aged \cup {IncidentOf(db, x)}
      BY <1>1, <1>2 DEF PurgeVerdict, DbRows
    <2>2. IncidentOf(db, x) \in RuleIncidents
      <3>1. db.verdict[x] \in 0..MaxIncidents /\ db.verdict[x] # 0 /\ x[2] \in Rules
        BY <1>1, <1>2 DEF PurgeVerdict, DbRows, Verdicts
      <3>2. db.verdict[x] \in 1..MaxIncidents
        BY <3>1, MonitorAssumption
      <3> QED BY <3>1, <3>2 DEF IncidentOf, RuleIncidents
    <2>3. \A y \in Verdicts : db'.verdict[y] \in 0..MaxIncidents /\ (y # x => db'.verdict[y] = db.verdict[y])
                              /\ (y = x => db'.verdict[y] = 0)
      <3>1. db.verdict \in [Verdicts -> 0..MaxIncidents] /\ 0 \in 0..MaxIncidents
        BY <1>1, MonitorAssumption DEF DbRows
      <3> QED BY <2>1, <3>1
    <2>4. db' \in DbRows
      <3>1. db'.verdict \in [Verdicts -> 0..MaxIncidents]
        BY <1>1, <2>1, <2>3 DEF DbRows
      <3> QED BY <1>1, <2>1, <3>1 DEF DbRows
    <2>5. \A j \in RuleIncidents : Live(db', j) => Evidence(db', j) # {} \/ j \in aged'
      <3> SUFFICES ASSUME NEW j \in RuleIncidents, Live(db, j), j \notin aged, j # IncidentOf(db, x)
                   PROVE  Evidence(db', j) # {}
        BY <2>1 DEF Live
      <3>1. PICK y \in Evidence(db, j) : TRUE
        BY DEF MonitorSound, DbSound
      <3>2. y \in Verdicts /\ y[2] = j[1] /\ db.verdict[y] = j[2]
        BY <3>1 DEF Evidence
      <3>3. IncidentOf(db, y) = j
        BY <3>2 DEF IncidentOf, RuleIncidents
      <3>4. y # x
        BY <3>3
      <3>5. y \in Evidence(db', j)
        BY <2>3, <3>2, <3>4 DEF Evidence
      <3> QED BY <3>5
    <2>6. /\ \A j : Live(db', j) <=> Live(db, j)
          /\ \A code : Opened(db', code) = Opened(db, code)
      BY <2>1 DEF Live, Opened
    <2>7. DbSound(db', aged')
      BY <2>1, <2>4, <2>5, <2>6 DEF DbSound, MonitorSound
    <2> QED BY <1>1, <2>1, <2>2, <2>3, <2>7
  <1>3. ASSUME NEW i \in RuleIncidents, PurgeIncident(i)
        PROVE  /\ DbSound(db', aged') /\ aged' \subseteq RuleIncidents
               /\ \A y \in Verdicts : db'.verdict[y] # 0 => db'.verdict[y] = db.verdict[y]
    <2>1. /\ db'.version = db.version /\ db'.queued = db.queued /\ db'.verdict = db.verdict
          /\ db'.incident = [db.incident EXCEPT ![i] = [db.incident[i] EXCEPT !.status = "deleted"]]
          /\ db' \in [version : {db'.version}, verdict : {db'.verdict}, incident : {db'.incident}, queued : {db'.queued}]
          /\ aged' = aged /\ db.incident[i].status \in {"resolved", "closed"}
      BY <1>1, <1>3 DEF PurgeIncident, DbRows
    <2>2. \A j \in RuleIncidents : /\ db'.incident[j] \in IncidentRows /\ (db'.incident[j].keyed <=> Live(db', j))
                                   /\ Live(db', j) <=> Live(db, j)
                                   /\ db'.incident[j].status # "none" <=> db.incident[j].status # "none"
      <3> TAKE j \in RuleIncidents
      <3>1. db.incident \in [RuleIncidents -> IncidentRows]
        BY <1>1 DEF DbRows
      <3>2. db'.incident[j] = IF j = i THEN [db.incident[i] EXCEPT !.status = "deleted"] ELSE db.incident[j]
        BY <2>1, <3>1
      <3> QED BY <1>1, <2>1, <3>2 DEF IncidentRows, Live, Active
    <2>3. db' \in DbRows
      <3>1. db'.incident \in [RuleIncidents -> IncidentRows]
        BY <1>1, <2>1, <2>2 DEF DbRows
      <3> QED BY <1>1, <2>1, <3>1 DEF DbRows
    <2>4. \A code \in Rules : Opened(db', code) = Opened(db, code)
      BY <2>2 DEF Opened, RuleIncidents
    <2>5. \A j : Evidence(db', j) = Evidence(db, j)
      BY <2>1 DEF Evidence
    <2>6. DbSound(db', aged')
      BY <1>1, <2>1, <2>2, <2>3, <2>4, <2>5 DEF DbSound, DbRows, MonitorSound
    <2> QED BY <1>1, <2>1, <2>6
  <1> QED BY <1>2, <1>3

LEMMA MonitorStart == MonitorInit => MonitorSound
  <1> SUFFICES ASSUME MonitorInit PROVE MonitorSound
    OBVIOUS
  <1>1. /\ db = [version |-> [t \in Traces |-> 0], verdict |-> [x \in Verdicts |-> 0],
                incident |-> [i \in RuleIncidents |-> [keyed |-> FALSE, status |-> "none"]], queued |-> {}]
        /\ 0 \in 0..MaxIncidents /\ 0 \in 0..MaxOutages /\ 0 \in 0..(PoisonAfter - 1)
    BY MonitorAssumption DEF MonitorInit
  <1>2. db \in DbRows
    BY <1>1 DEF DbRows, IncidentRows
  <1>3. \A i \in RuleIncidents : ~db.incident[i].keyed /\ ~Live(db, i) /\ db.incident[i].status = "none"
    BY <1>1 DEF Live, Active
  <1>4. \A code \in Rules : Opened(db, code) = 1..0
    BY <1>3 DEF Opened, RuleIncidents
  <1>5. db.queued = {}
    BY <1>1
  <1>6. DbSound(db, aged)
    BY <1>1, <1>2, <1>3, <1>4, <1>5 DEF DbSound
  <1> QED BY <1>1, <1>6 DEF MonitorInit, MonitorSound

\* Every step of the monitor, of an administrator and of the retention.
LEMMA MonitorStep == MonitorSound /\ [MonitorNext]_monitorVars => MonitorSound'
  <1> SUFFICES ASSUME MonitorSound, [MonitorNext]_monitorVars PROVE MonitorSound'
    OBVIOUS
  <1>1. /\ DbSound(db, aged) /\ present \subseteq Traces /\ aged \subseteq RuleIncidents /\ reported \in BOOLEAN
        /\ outages \in 0..MaxOutages /\ fails \in [Processes -> [Traces -> 0..(PoisonAfter - 1)]]
    BY DEF MonitorSound
  <1>2. CASE db' = db /\ aged' = aged
    <2>1. DbSound(db', aged')
      BY <1>1, <1>2
    <2>2. /\ present' \subseteq Traces /\ reported' \in BOOLEAN /\ outages' \in 0..MaxOutages
          /\ fails' \in [Processes -> [Traces -> 0..(PoisonAfter - 1)]]
      <3>1. ASSUME NEW p \in Processes, Restart(p)
            PROVE  outages' \in 0..MaxOutages /\ fails' \in [Processes -> [Traces -> 0..(PoisonAfter - 1)]]
        BY <1>1, <3>1, MonitorAssumption DEF Restart
      <3>2. CASE \E p \in Processes : Restart(p)
        BY <1>1, <3>1, <3>2 DEF Restart
      <3>3. ASSUME NEW p \in Processes, Cycle(p)
            PROVE  /\ UNCHANGED <<present, reported, outages>>
                   /\ fails' \in [Processes -> [Traces -> 0..(PoisonAfter - 1)]]
        BY <3>3, CycleIs
      <3>4. CASE \E p \in Processes : Cycle(p)
        BY <1>1, <3>3, <3>4
      <3>5. CASE DailyReport \/ \E t \in Traces : Record(t) \/ PurgeTrace(t)
        BY <1>1, <3>5 DEF DailyReport, Record, PurgeTrace
      <3>6. CASE \/ \E i \in RuleIncidents, s \in DOMAIN AdministerFrom : Administer(i, s)
                 \/ \E x \in Verdicts : PurgeVerdict(x)
                 \/ \E i \in RuleIncidents : PurgeIncident(i)
                 \/ UNCHANGED monitorVars
        BY <1>1, <3>6 DEF Administer, PurgeVerdict, PurgeIncident, monitorVars
      <3> QED BY <3>2, <3>4, <3>5, <3>6 DEF MonitorNext
    <2> QED BY <1>1, <1>2, <2>1, <2>2 DEF MonitorSound
  <1>3. CASE \E p \in Processes : Cycle(p)
    <2>1. PICK p \in Processes : Cycle(p)
      BY <1>3
    <2> QED BY <1>1, <2>1, CycleIs DEF MonitorSound
  <1>4. CASE \E i \in RuleIncidents, s \in DOMAIN AdministerFrom : Administer(i, s)
    <2>1. PICK i \in RuleIncidents, s \in DOMAIN AdministerFrom : Administer(i, s)
      BY <1>4
    <2>2. DbSound(db', aged')
      BY <2>1, AdministersKeep
    <2> QED BY <1>1, <2>1, <2>2 DEF Administer, MonitorSound
  <1>5. CASE (\E x \in Verdicts : PurgeVerdict(x)) \/ \E i \in RuleIncidents : PurgeIncident(i)
    <2>1. DbSound(db', aged') /\ aged' \subseteq RuleIncidents
      BY <1>5, PurgesKeep
    <2> QED BY <1>1, <1>5, <2>1 DEF PurgeVerdict, PurgeIncident, MonitorSound
  <1>6. (db' = db /\ aged' = aged) \/ (\E p \in Processes : Cycle(p))
        \/ (\E i \in RuleIncidents, s \in DOMAIN AdministerFrom : Administer(i, s))
        \/ (\E x \in Verdicts : PurgeVerdict(x)) \/ \E i \in RuleIncidents : PurgeIncident(i)
    BY DEF MonitorNext, monitorVars, Restart, DailyReport, Record, PurgeTrace
  <1> QED BY <1>2, <1>3, <1>4, <1>5, <1>6

\* The incidents an administrator sees are backed by a verdict, or by one the retention took,
\* and no automatic action waits for an incident that ended: services/rag_monitor.py and
\* rag_incidents.py, for every number of traces, rules, processes and rule sets.
THEOREM IncidentsAlwaysSound == MonitorSpec => []IncidentsAreSound
  <1>1. MonitorSound => IncidentsAreSound
    <2> SUFFICES ASSUME MonitorSound PROVE IncidentsAreSound
      OBVIOUS
    <2>1. MonitorTypeOK
      BY DEF MonitorSound, DbSound, DbRows, IncidentRows, MonitorTypeOK
    <2>2. ActiveHasEvidence
      BY DEF MonitorSound, DbSound, Live, ActiveHasEvidence
    <2>3. QueuedIsActive
      BY DEF MonitorSound, DbSound, Live, QueuedIsActive
    <2> QED BY <2>1, <2>2, <2>3 DEF IncidentsAreSound
  <1> QED BY <1>1, MonitorStart, MonitorStep, PTL DEF MonitorSpec

\* A verdict that appears is in an incident that is still open: a cycle never files what it
\* finds under an incident that an administrator, or an earlier row of it, has ended.
THEOREM NewVerdictsAreSeen == MonitorSpec => NewVerdictIsVisible
  <1>1. MonitorSound /\ [MonitorNext]_monitorVars =>
          [\A x \in Verdicts : db.verdict[x] = 0 /\ db'.verdict[x] # 0 =>
             db'.incident[IncidentOf(db', x)].status \in Active]_monitorVars
    <2> SUFFICES ASSUME MonitorSound, [MonitorNext]_monitorVars,
                        NEW x \in Verdicts, db.verdict[x] = 0, db'.verdict[x] # 0
                 PROVE  Live(db', IncidentOf(db', x))
      BY DEF Live
    <2>1. CASE \E p \in Processes : Cycle(p)
      BY <2>1, CycleIs
    <2>2. CASE \E i \in RuleIncidents, s \in DOMAIN AdministerFrom : Administer(i, s)
      BY <2>2, AdministersKeep
    <2>3. CASE (\E y \in Verdicts : PurgeVerdict(y)) \/ \E i \in RuleIncidents : PurgeIncident(i)
      BY <2>3, PurgesKeep
    <2>4. CASE db' = db
      BY <2>4
    <2> QED BY <2>1, <2>2, <2>3, <2>4 DEF MonitorNext, monitorVars, Restart, DailyReport, Record, PurgeTrace
  <1> QED BY <1>1, MonitorStart, MonitorStep, PTL DEF MonitorSpec, NewVerdictIsVisible
=============================================================================
