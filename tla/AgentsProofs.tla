---------------------------- MODULE AgentsProofs ----------------------------
(***************************************************************************)
(* Proofs about TaskLifecycle, for any number of requests, any limits and  *)
(* any number of faults, about AgentRun, for any prompts and scenes, and   *)
(* about StreamGuards, for any words, fingerprints and streams.            *)
(***************************************************************************)
EXTENDS TaskLifecycle, AgentRun, StreamGuards, SetFacts, SequenceTheorems

-----------------------------------------------------------------------------
(* The inductive invariant.                                                *)

\* The steps at which the question of a request has not been asked for, and those at
\* which it is reserved.
Unasked == {"claim", "quota"}
Asked == {"global", "user", "over global", "over user", "make", "save"} \cup RunSteps

\* What the step of a request says of its task and its question: nothing is produced before
\* the run, and a question is given back only for an empty buffer or an unread one.
JobKnown(r) ==
    /\ job[r].pc \in Unasked => question[r] = "none"
    /\ job[r].pc \in Asked => question[r] = "reserved"
    /\ job[r].pc \in {"undo", "rollback"} => question[r] \in {"none", "reserved"}
    /\ job[r].pc \in (CreationSteps \cup {"claim"}) \ {"save", "undo"} => status[r] = "none"
    /\ job[r].pc \in CreationSteps \cup {"claim", "rollback"} => ~produced[r]
    /\ question[r] \in {"none", "returned"} => ~produced[r]

\* A slot is counted for every holder and for every request that is about to step back.
Refused(k) == {r \in Requests : job[r].pc = Over[k]}

ScopeFits(k) ==
    /\ IsFiniteSet(Holders(k)) /\ IsFiniteSet(Refused(k))
    /\ Cardinality(Holders(k)) + Cardinality(Refused(k)) <= slots[k]
    /\ Cardinality(Holders(k)) <= SlotLimit[k]

SlotsKnown == \A k \in Scopes : ScopeFits(k)

\* As long as every creation holds the claim, the claim says that one is under way.
ClaimKnown == sole => OneCreator /\ (Creators # {} => taskClaim = Creating)

CancelKnown == cancel.step # "idle" => cancel.task \in Requests

Reserved == {r \in Requests : question[r] = "reserved"}

TasksSound ==
    /\ TaskTypeOK /\ (\A r \in Requests : JobKnown(r)) /\ CancelKnown
    /\ SlotsKnown /\ ClaimKnown /\ IsFiniteSet(Reserved) /\ used = Cardinality(Reserved)

-----------------------------------------------------------------------------
(* What a step does to the request it belongs to, and to the others.       *)

JobType == [Requests -> [pc : JobSteps, held : SUBSET Scopes]]

\* Request r goes to step pc, with the slots it has.
Moves(r, pc) ==
    /\ job' \in JobType /\ job'[r].pc = pc /\ job'[r].held = job[r].held
    /\ \A q \in Requests \ {r} : job'[q] = job[q]

\* JobGoes changes the step of one request.
LEMMA GoesMoves ==
    ASSUME TaskTypeOK, NEW r \in Requests, NEW pc \in JobSteps, JobGoes(r, pc)
    PROVE  Moves(r, pc)
  <1>1. job \in JobType /\ job[r] \in [pc : JobSteps, held : SUBSET Scopes]
    BY DEF TaskTypeOK, JobType
  <1>2. job' = [job EXCEPT ![r] = [job[r] EXCEPT !.pc = pc]]
    BY <1>1 DEF JobGoes, JobType
  <1>3. [job[r] EXCEPT !.pc = pc] \in [pc : JobSteps, held : SUBSET Scopes]
    BY <1>1
  <1> QED BY <1>1, <1>2, <1>3 DEF Moves, JobType

\* Faults stay within their bound.
LEMMA FaultsBounded ==
    ASSUME TaskTypeOK, Smooth \/ Trouble
    PROVE  faults' \in 0..MaxFaults
  <1>1. faults \in 0..MaxFaults /\ MaxFaults \in Nat
    BY TaskAssumption DEF TaskTypeOK
  <1> QED BY <1>1 DEF Smooth, Trouble

\* Of the tasks, only an active one changes, and none comes to be.
StatusKept(r) ==
    /\ status' \in [Requests -> Statuses]
    /\ \A q \in Requests : status[q] \in EndStatuses => status'[q] = status[q]
    /\ \A q \in Requests : status[q] = "none" /\ (q # r \/ status[r] # "none") => status'[q] = "none"

\* The scripts that end a task keep what has ended and make nothing.
LEMMA EndKeeps ==
    ASSUME TaskTypeOK, NEW r \in Requests, NEW s \in EndStatuses, NEW q, End(r, s)
    PROVE  StatusKept(q)
  BY DEF TaskTypeOK, End, Active, StatusKept, Statuses, LiveStatuses, EndStatuses

\* So does a step that leaves the statuses alone.
LEMMA StatusRests ==
    ASSUME TaskTypeOK, UNCHANGED status, NEW q
    PROVE  StatusKept(q)
  BY DEF TaskTypeOK, StatusKept

\* And _finish_cancelled.
LEMMA CancelledKeeps ==
    ASSUME TaskTypeOK, NEW r \in Requests, NEW q, FinishCancelled(r)
    PROVE  StatusKept(q) /\ cancelMarker' \in [Requests -> BOOLEAN]
  <1>1. StatusKept(q)
    BY EndKeeps DEF FinishCancelled, EndStatuses
  <1>2. cancelMarker' \in [Requests -> BOOLEAN]
    BY DEF FinishCancelled, TaskTypeOK
  <1> QED BY <1>1, <1>2

-----------------------------------------------------------------------------
(* Slots, claims and questions when nobody gets any.                       *)

\* The steps that belong to the two scopes of slots.
LEMMA ScopeSteps ==
    /\ Over["global"] = "over global" /\ Over["user"] = "over user"
    /\ After["global"] = "user" /\ After["user"] = "make"
    /\ \A k \in Scopes : k \in {"global", "user"} /\ Over[k] \in {"over global", "over user"} /\ After[k] \in {"user", "make"}
  <1>1. /\ Over["global"] = "over global" /\ Over["user"] = "over user"
        /\ After["global"] = "user" /\ After["user"] = "make"
    BY DEF Over, After
  <1> QED BY <1>1 DEF Scopes

\* A scope fits as long as its counter does not fall and nobody is added.
LEMMA ScopeLess ==
    ASSUME TasksSound, NEW k \in Scopes, slots' \in [Scopes -> Nat], slots'[k] >= slots[k],
           Holders(k)' \subseteq Holders(k), Refused(k)' \subseteq Refused(k)
    PROVE  ScopeFits(k)'
  <1>1. /\ IsFiniteSet(Holders(k)) /\ IsFiniteSet(Refused(k)) /\ slots[k] \in Nat /\ SlotLimit[k] \in Nat
        /\ Cardinality(Holders(k)) + Cardinality(Refused(k)) <= slots[k]
        /\ Cardinality(Holders(k)) <= SlotLimit[k]
    BY TaskAssumption DEF TasksSound, SlotsKnown, ScopeFits, TaskTypeOK
  <1>2. /\ IsFiniteSet(Holders(k)') /\ Cardinality(Holders(k)') <= Cardinality(Holders(k))
        /\ IsFiniteSet(Refused(k)') /\ Cardinality(Refused(k)') <= Cardinality(Refused(k))
    BY <1>1, FS_Subset
  <1>3. /\ Cardinality(Holders(k)) \in Nat /\ Cardinality(Refused(k)) \in Nat
        /\ Cardinality(Holders(k)') \in Nat /\ Cardinality(Refused(k)') \in Nat
    BY <1>1, <1>2, FS_CardinalityType
  <1>4. slots'[k] \in Nat
    OBVIOUS
  <1>5. /\ Cardinality(Holders(k)') + Cardinality(Refused(k)') <= slots'[k]
        /\ Cardinality(Holders(k)') <= SlotLimit[k]
    BY <1>1, <1>2, <1>3, <1>4
  <1> QED BY <1>2, <1>5 DEF ScopeFits

\* The same of all scopes, when no counter moves.
LEMMA SlotsLess ==
    ASSUME TasksSound, slots' = slots,
           \A k \in Scopes : Holders(k)' \subseteq Holders(k) /\ Refused(k)' \subseteq Refused(k)
    PROVE  SlotsKnown'
  <1> SUFFICES ASSUME NEW k \in Scopes
               PROVE  ScopeFits(k)'
    BY DEF SlotsKnown
  <1>1. slots' \in [Scopes -> Nat] /\ slots'[k] >= slots[k]
    <2>1. slots \in [Scopes -> Nat] /\ slots' = slots
      BY DEF TasksSound, TaskTypeOK
    <2>2. slots[k] \in Nat
      BY <2>1
    <2> QED BY <2>1, <2>2
  <1> QED BY <1>1, ScopeLess

\* The claim says enough as long as no creator is added.
LEMMA ClaimLess ==
    ASSUME TasksSound, sole' => sole, Creators' \subseteq Creators,
           taskClaim' = taskClaim \/ Creators' = {} \/ \A q \in Creators : q \notin Creators'
    PROVE  ClaimKnown'
  BY DEF TasksSound, ClaimKnown, OneCreator

\* The count of questions is right when neither it nor a question moves.
LEMMA QuotaRests ==
    ASSUME TasksSound, UNCHANGED quota
    PROVE  IsFiniteSet(Reserved)' /\ used' = Cardinality(Reserved)'
  <1>1. Reserved' = Reserved
    BY DEF Reserved, quota
  <1> QED BY <1>1 DEF TasksSound, quota

-----------------------------------------------------------------------------
(* The run of a task.                                                      *)

RunShape(r) ==
    /\ job[r].pc \in RunSteps
    /\ \E pc \in RunSteps \cup {"clear"} : Moves(r, pc)
    /\ StatusKept(r) /\ produced' \in [Requests -> BOOLEAN]
    /\ \A q \in Requests \ {r} : produced'[q] = produced[q]
    /\ cancelMarker' \in [Requests -> BOOLEAN] /\ faults' \in 0..MaxFaults
    /\ UNCHANGED <<taskClaim, slots, quota, cancel, sole>>

\* A step of a run that touches neither slots nor questions keeps the invariant.
LEMMA RunKeeps ==
    ASSUME TasksSound, NEW r \in Requests, RunShape(r)
    PROVE  TasksSound'
  <1> PICK pc \in RunSteps \cup {"clear"} : Moves(r, pc)
    BY DEF RunShape
  <1>1. TaskTypeOK'
    BY DEF TasksSound, TaskTypeOK, RunShape, StatusKept, Moves, JobType, quota
  <1>2. question[r] = "reserved" /\ question' = question
    BY DEF RunShape, TasksSound, JobKnown, Asked, quota
  <1>3. ASSUME NEW q \in Requests
        PROVE  JobKnown(q)'
    <2>1. CASE q = r
      <3>1. question'[q] = "reserved" /\ job'[q].pc = pc
        BY <1>2, <2>1 DEF Moves
      <3> QED BY <3>1 DEF JobKnown, Unasked, CreationSteps, RunSteps
    <2>2. CASE q # r
      <3>1. job'[q] = job[q] /\ produced'[q] = produced[q] /\ (status[q] = "none" => status'[q] = "none")
        BY <2>2 DEF Moves, RunShape, StatusKept
      <3> QED BY <1>2, <3>1 DEF TasksSound, JobKnown
    <2> QED BY <2>1, <2>2
  <1>4. \A k \in Scopes : Holders(k)' = Holders(k) /\ Refused(k)' \subseteq Refused(k)
    <2> SUFFICES ASSUME NEW k \in Scopes
                 PROVE  Holders(k)' = Holders(k) /\ Refused(k)' \subseteq Refused(k)
      OBVIOUS
    <2>1. \A q \in Requests : job'[q].held = job[q].held
      BY DEF Moves
    <2>2. Over[k] \notin RunSteps \cup {"clear"}
      BY ScopeSteps DEF RunSteps
    <2>3. \A q \in Requests : job'[q].pc = Over[k] => job[q].pc = Over[k]
      BY <2>2 DEF Moves
    <2> QED BY <2>1, <2>3 DEF Holders, Refused
  <1>5. Creators' \subseteq Creators
    BY DEF Creators, Moves, CreationSteps, RunSteps
  <1>6. SlotsKnown' /\ ClaimKnown'
    BY <1>4, <1>5, SlotsLess, ClaimLess DEF RunShape
  <1> QED BY <1>1, <1>3, <1>6, QuotaRests DEF TasksSound, CancelKnown, RunShape

\* Most steps of a run are of that kind.
LEMMA RunIsShaped ==
    ASSUME TasksSound, NEW r \in Requests,
           \/ StartRun(r) \/ CacheMiss(r) \/ CacheBusy(r) \/ CacheHit(r) \/ CheckCancelled(r)
           \/ ServeCached(r) \/ KeepCached(r) \/ HitFails(r) \/ Produce(r) \/ NoticeCancelled(r)
           \/ FinishTextAnswer(r) \/ StoreAnswer(r) \/ SimpleTaskFails(r) \/ Resolve(r) \/ RunFails(r)
           \/ FailTask(r) \/ ShutDown(r)
    PROVE  RunShape(r)
  <1>0. /\ TaskTypeOK /\ cancelMarker \in [Requests -> BOOLEAN] /\ produced \in [Requests -> BOOLEAN]
        /\ faults \in 0..MaxFaults
    BY DEF TasksSound, TaskTypeOK
  <1>m. \A pc \in RunSteps \cup {"clear"} : JobGoes(r, pc) => \E p \in RunSteps \cup {"clear"} : Moves(r, p)
    BY <1>0, GoesMoves DEF JobSteps
  <1>s. ASSUME NEW s \in EndStatuses, End(r, s)
        PROVE  StatusKept(r)
    BY <1>0, <1>s, EndKeeps
  <1> USE DEF RunSteps, EndStatuses, redis
  <1>1. CASE StartRun(r)
    <2>1. StatusKept(r)
      BY <1>0, <1>1, StatusRests DEF StartRun, StatusKept, TaskTypeOK, Active, LiveStatuses, Statuses
    <2> QED BY <1>0, <1>m, <1>1, <2>1 DEF RunShape, StartRun
  <1>2. CASE CacheMiss(r) \/ KeepCached(r) \/ StoreAnswer(r) \/ Resolve(r)
    BY <1>0, <1>m, <1>2, StatusRests DEF RunShape, CacheMiss, KeepCached, StoreAnswer, Resolve
  <1>3. CASE CacheBusy(r) \/ NoticeCancelled(r)
    BY <1>0, <1>m, <1>s, <1>3, StatusRests, CancelledKeeps DEF RunShape, CacheBusy, NoticeCancelled
  <1>4. CASE CacheHit(r)
    BY <1>0, <1>m, <1>4, StatusRests DEF RunShape, CacheHit
  <1>5. CASE CheckCancelled(r)
    BY <1>0, <1>m, <1>5, StatusRests, CancelledKeeps, FaultsBounded DEF RunShape, CheckCancelled
  <1>6. CASE ServeCached(r) \/ FinishTextAnswer(r)
    BY <1>0, <1>m, <1>s, <1>6 DEF RunShape, ServeCached, FinishTextAnswer
  <1>7. CASE HitFails(r) \/ RunFails(r)
    BY <1>0, <1>m, <1>7, StatusRests, FaultsBounded DEF RunShape, HitFails, RunFails
  <1>8. CASE Produce(r)
    <2>1. Moves(r, "answer")
      BY <1>0, <1>8 DEF Produce, TaskTypeOK, Moves, JobType
    <2> QED BY <1>0, <1>8, <2>1, StatusRests DEF RunShape, Produce
  <1>9. CASE SimpleTaskFails(r) \/ FailTask(r)
    BY <1>0, <1>m, <1>s, <1>9, StatusRests, FaultsBounded DEF RunShape, SimpleTaskFails, FailTask
  <1>10. CASE ShutDown(r)
    BY <1>0, <1>m, <1>10, StatusRests, CancelledKeeps, FaultsBounded DEF RunShape, ShutDown
  <1> QED BY <1>1, <1>2, <1>3, <1>4, <1>5, <1>6, <1>7, <1>8, <1>9, <1>10

-----------------------------------------------------------------------------
(* Steps that leave tasks, questions and slots alone.                      *)

\* A request goes from one step to another, perhaps without what it held.
Passes(r, pc) ==
    /\ job' \in JobType /\ job'[r].pc = pc /\ job'[r].held \subseteq job[r].held
    /\ \A q \in Requests \ {r} : job'[q] = job[q]
    /\ UNCHANGED <<status, produced, slots, quota, cancel>>
    /\ taskClaim' \in Requests \cup {Creating, NoRequest} /\ sole' \in BOOLEAN
    /\ cancelMarker' \in [Requests -> BOOLEAN] /\ faults' \in 0..MaxFaults

\* What is known at a step is known at a later one.
Later(p, pc) ==
    \/ p = "claim" /\ pc \in {"quota", "done"}
    \/ p = "save" /\ pc = "start"
    \/ p = "undo" /\ pc = "rollback"
    \/ pc \in {"free", "done"}

\* A step from which nothing new has to be known keeps the invariant.
LEMMA PassKeeps ==
    ASSUME TasksSound, NEW r \in Requests, NEW pc, Passes(r, pc), Later(job[r].pc, pc), ClaimKnown'
    PROVE  TasksSound'
  <1>1. TaskTypeOK'
    BY DEF TasksSound, TaskTypeOK, Passes, JobType, quota
  <1>2. ASSUME NEW q \in Requests
        PROVE  JobKnown(q)'
    <2>1. CASE q = r
      <3>1. /\ job'[q].pc = pc /\ question'[q] = question[r] /\ produced'[q] = produced[r] /\ status'[q] = status[r]
            /\ JobKnown(r)
        BY <2>1 DEF Passes, quota, TasksSound
      <3> QED BY <3>1 DEF JobKnown, Later, Unasked, Asked, CreationSteps, RunSteps
    <2>2. CASE q # r
      <3>1. job'[q] = job[q] /\ produced'[q] = produced[q] /\ status'[q] = status[q] /\ question'[q] = question[q]
        BY <2>2 DEF Passes, quota
      <3> QED BY <3>1 DEF TasksSound, JobKnown
    <2> QED BY <2>1, <2>2
  <1>3. \A k \in Scopes : Holders(k)' \subseteq Holders(k) /\ Refused(k)' \subseteq Refused(k)
    <2> SUFFICES ASSUME NEW k \in Scopes
                 PROVE  Holders(k)' \subseteq Holders(k) /\ Refused(k)' \subseteq Refused(k)
      OBVIOUS
    <2>1. \A q \in Requests : job'[q].held \subseteq job[q].held
      BY DEF Passes
    <2>2. pc # Over[k]
      BY ScopeSteps DEF Later
    <2>3. \A q \in Requests : job'[q].pc = Over[k] => job[q].pc = Over[k]
      BY <2>2 DEF Passes
    <2> QED BY <2>1, <2>3 DEF Holders, Refused
  <1>4. SlotsKnown'
    BY <1>3, SlotsLess DEF Passes
  <1>5. CancelKnown'
    BY DEF TasksSound, CancelKnown, Passes
  <1> QED BY <1>1, <1>2, <1>4, <1>5, QuotaRests DEF TasksSound, Passes

\* How a step is seen to be of that kind.
LEMMA MovesPasses ==
    ASSUME TasksSound, NEW r \in Requests, NEW pc \in JobSteps, JobGoes(r, pc),
           UNCHANGED <<status, produced, slots, quota, cancel>>,
           taskClaim' \in Requests \cup {Creating, NoRequest}, sole' \in BOOLEAN,
           cancelMarker' \in [Requests -> BOOLEAN], Smooth \/ Trouble
    PROVE  Passes(r, pc) /\ Moves(r, pc)
  BY GoesMoves, FaultsBounded DEF TasksSound, Moves, Passes

\* claim_idempotency: whoever gets the claim is alone, or sole is over.
LEMMA ClaimKeeps ==
    ASSUME TasksSound, NEW r \in Requests, ClaimTaskKey(r)
    PROVE  TasksSound'
  <1>1. /\ job[r].pc = "claim" /\ UNCHANGED <<status, cancelMarker, produced, slots, quota, cancel>>
        /\ \/ taskClaim # Creating /\ taskClaim' = Creating /\ JobGoes(r, "quota") /\ Smooth /\ UNCHANGED sole
           \/ JobGoes(r, "done") /\ Smooth /\ UNCHANGED <<taskClaim, sole>>
           \/ JobGoes(r, "quota") /\ sole' = FALSE /\ Trouble /\ UNCHANGED taskClaim
    BY TaskAssumption DEF ClaimTaskKey
  <1>2. /\ taskClaim \in Requests \cup {Creating, NoRequest} /\ sole \in BOOLEAN
        /\ cancelMarker \in [Requests -> BOOLEAN]
    BY DEF TasksSound, TaskTypeOK
  <1>3. CASE taskClaim # Creating /\ taskClaim' = Creating /\ JobGoes(r, "quota") /\ Smooth /\ UNCHANGED sole
    <2>1. Passes(r, "quota") /\ Moves(r, "quota")
      BY <1>1, <1>2, <1>3, MovesPasses DEF JobSteps, CreationSteps
    <2>2. sole => Creators = {}
      BY <1>3 DEF TasksSound, ClaimKnown
    <2>3. Creators' \subseteq Creators \cup {r}
      BY <2>1 DEF Creators, Moves
    <2>4. ClaimKnown'
      BY <1>3, <2>2, <2>3 DEF ClaimKnown, OneCreator
    <2> QED BY <1>1, <2>1, <2>4, PassKeeps DEF Later
  <1>4. CASE JobGoes(r, "done") /\ Smooth /\ UNCHANGED <<taskClaim, sole>>
    <2>1. Passes(r, "done") /\ Moves(r, "done")
      BY <1>1, <1>2, <1>4, MovesPasses DEF JobSteps
    <2>2. Creators' \subseteq Creators
      BY <2>1 DEF Creators, Moves, CreationSteps
    <2> QED BY <1>4, <2>1, <2>2, ClaimLess, PassKeeps DEF Later
  <1>5. CASE JobGoes(r, "quota") /\ sole' = FALSE /\ Trouble /\ UNCHANGED taskClaim
    <2>1. Passes(r, "quota")
      BY <1>1, <1>2, <1>5, MovesPasses DEF JobSteps, CreationSteps
    <2> QED BY <1>1, <1>5, <2>1, PassKeeps DEF Later, ClaimKnown
  <1> QED BY <1>1, <1>3, <1>4, <1>5

\* save_idempotent overwrites the claim of a creation that is no longer one.
LEMMA SaveKeeps ==
    ASSUME TasksSound, NEW r \in Requests, SaveAndLaunch(r)
    PROVE  TasksSound'
  <1>1. /\ job[r].pc = "save" /\ JobGoes(r, "start") /\ (Smooth \/ Trouble)
        /\ UNCHANGED <<status, cancelMarker, produced, slots, quota, cancel, sole>>
        /\ taskClaim' \in {r, taskClaim}
    BY DEF SaveAndLaunch
  <1>2. /\ taskClaim \in Requests \cup {Creating, NoRequest} /\ sole \in BOOLEAN
        /\ cancelMarker \in [Requests -> BOOLEAN]
    BY DEF TasksSound, TaskTypeOK
  <1>3. Passes(r, "start") /\ Moves(r, "start")
    BY <1>1, <1>2, MovesPasses DEF JobSteps, RunSteps
  <1>4. Creators' \subseteq Creators \ {r} /\ r \in Creators
    BY <1>1, <1>3 DEF Creators, Moves, CreationSteps
  <1>5. ClaimKnown'
    BY <1>1, <1>4 DEF TasksSound, ClaimKnown, OneCreator
  <1> QED BY <1>1, <1>3, <1>5, PassKeeps DEF Later

\* release_idempotency_claim: as long as creations are sole, the claim is its own.
LEMMA ReleaseKeeps ==
    ASSUME TasksSound, NEW r \in Requests, ReleaseClaim(r)
    PROVE  TasksSound'
  <1>1. /\ job[r].pc = "undo" /\ JobGoes(r, "rollback") /\ (Smooth \/ Trouble)
        /\ UNCHANGED <<status, cancelMarker, produced, slots, quota, cancel, sole>>
        /\ taskClaim' \in {NoRequest, taskClaim}
    BY DEF ReleaseClaim
  <1>2. /\ taskClaim \in Requests \cup {Creating, NoRequest} /\ sole \in BOOLEAN
        /\ cancelMarker \in [Requests -> BOOLEAN]
    BY DEF TasksSound, TaskTypeOK
  <1>3. Passes(r, "rollback") /\ Moves(r, "rollback")
    BY <1>1, <1>2, MovesPasses DEF JobSteps
  <1>4. Creators' \subseteq Creators \ {r} /\ r \in Creators
    BY <1>1, <1>3 DEF Creators, Moves, CreationSteps
  <1>5. ClaimKnown'
    BY <1>1, <1>4 DEF TasksSound, ClaimKnown, OneCreator
  <1> QED BY <1>1, <1>3, <1>5, PassKeeps DEF Later

\* A run that clears its marker, a job that ends or dies.
LEMMA LeaveKeeps ==
    ASSUME TasksSound, NEW r \in Requests, ClearMarker(r) \/ EndJob(r) \/ TaskCrash(r)
    PROVE  TasksSound'
  <1>1. /\ taskClaim \in Requests \cup {Creating, NoRequest} /\ sole \in BOOLEAN
        /\ cancelMarker \in [Requests -> BOOLEAN]
    BY DEF TasksSound, TaskTypeOK
  <1>2. UNCHANGED <<taskClaim, sole>>
    BY DEF ClearMarker, EndJob, TaskCrash, redis
  <1>3. \E pc \in {"free", "done"} : Passes(r, pc)
    <2>1. CASE ClearMarker(r)
      BY <1>1, <1>2, <2>1, MovesPasses DEF ClearMarker, JobSteps
    <2>2. CASE EndJob(r)
      BY <1>1, <1>2, <2>2, MovesPasses DEF EndJob, JobSteps, redis, Smooth
    <2>3. CASE TaskCrash(r)
      <3>1. job' \in JobType /\ job'[r].pc = "done" /\ job'[r].held = {} /\ \A q \in Requests \ {r} : job'[q] = job[q]
        BY <2>3 DEF TaskCrash, TasksSound, TaskTypeOK, JobType, JobSteps
      <3> QED BY <1>1, <1>2, <2>3, <3>1, FaultsBounded DEF TaskCrash, Passes, redis, TasksSound
    <2> QED BY <2>1, <2>2, <2>3
  <1>4. Creators' \subseteq Creators
    BY <1>3 DEF Passes, Creators, CreationSteps
  <1> QED BY <1>2, <1>3, <1>4, ClaimLess, PassKeeps DEF Later

-----------------------------------------------------------------------------
(* Questions and slots.                                                    *)

\* reserve_used_questions counts one question more.
LEMMA QuestionTaken ==
    ASSUME TasksSound, NEW r \in Requests, question[r] # "reserved", used < MaxUses,
           used' = used + 1, question' = [question EXCEPT ![r] = "reserved"]
    PROVE  IsFiniteSet(Reserved)' /\ used' = Cardinality(Reserved)' /\ used' \in 0..MaxUses
  <1>1. Reserved' = Reserved \cup {r} /\ r \notin Reserved
    BY DEF Reserved, TasksSound, TaskTypeOK
  <1>2. IsFiniteSet(Reserved) /\ used = Cardinality(Reserved) /\ used \in 0..MaxUses /\ MaxUses \in Nat
    BY TaskAssumption DEF TasksSound, TaskTypeOK
  <1>3. IsFiniteSet(Reserved \cup {r}) /\ Cardinality(Reserved \cup {r}) = Cardinality(Reserved) + 1
    BY <1>1, <1>2, FS_AddElement
  <1> QED BY <1>1, <1>2, <1>3

\* A finite set without one of its members.
LEMMA OneLess ==
    ASSUME NEW S, IsFiniteSet(S), NEW x \in S, NEW m \in Nat, Cardinality(S) \in 0..m
    PROVE  /\ Cardinality(S) > 0 /\ IsFiniteSet(S \ {x})
           /\ Cardinality(S) - 1 = Cardinality(S \ {x}) /\ Cardinality(S) - 1 \in 0..m
  <1>1. IsFiniteSet(S \ {x}) /\ Cardinality(S \ {x}) = Cardinality(S) - 1
    BY FS_RemoveElement
  <1>2. Cardinality(S \ {x}) \in Nat /\ Cardinality(S) \in Nat
    BY <1>1, FS_CardinalityType
  <1> QED BY <1>1, <1>2

\* rollback_used_questions of a reserved question counts one less, and does not meet zero.
LEMMA QuestionReturned ==
    ASSUME TasksSound, NEW r \in Requests, question[r] = "reserved",
           NEW mark \in {"returned", "returned unread"}, GiveBack(r, mark)
    PROVE  IsFiniteSet(Reserved)' /\ used' = Cardinality(Reserved)' /\ used' \in 0..MaxUses
  <1>1. Reserved' = Reserved \ {r} /\ r \in Reserved
    BY DEF Reserved, TasksSound, TaskTypeOK, GiveBack
  <1>2. IsFiniteSet(Reserved) /\ used = Cardinality(Reserved) /\ Cardinality(Reserved) \in 0..MaxUses /\ MaxUses \in Nat
    BY TaskAssumption DEF TasksSound, TaskTypeOK
  <1>3. /\ Cardinality(Reserved) > 0 /\ IsFiniteSet(Reserved \ {r})
        /\ Cardinality(Reserved) - 1 = Cardinality(Reserved \ {r}) /\ Cardinality(Reserved) - 1 \in 0..MaxUses
    BY <1>1, <1>2, OneLess
  <1>4. used' = Cardinality(Reserved) - 1
    BY <1>2, <1>3 DEF GiveBack
  <1> QED BY <1>1, <1>3, <1>4

\* What the move of r leaves is known of the others.
LEMMA OthersKnown ==
    ASSUME TasksSound, NEW r \in Requests, NEW pc, Moves(r, pc), NEW q \in Requests \ {r},
           question'[q] = question[q], produced' = produced, status[q] = "none" => status'[q] = "none"
    PROVE  JobKnown(q)'
  <1>1. job'[q] = job[q]
    BY DEF Moves
  <1> QED BY <1>1 DEF TasksSound, JobKnown

\* A step at which r moves within its creation or out of it, and slots are not touched.
Settles(r, pc) ==
    /\ Moves(r, pc) /\ pc \notin {"over global", "over user"}
    /\ pc \in CreationSteps => job[r].pc \in CreationSteps
    /\ UNCHANGED <<taskClaim, cancelMarker, produced, slots, cancel, sole>> /\ faults' \in 0..MaxFaults
    /\ status' \in [Requests -> Statuses] /\ (\A q \in Requests \ {r} : status'[q] = status[q])
    /\ question' \in [Requests -> {"none", "reserved", "returned", "returned unread"}]
    /\ (\A q \in Requests \ {r} : question'[q] = question[q]) /\ used' \in 0..MaxUses
    /\ IsFiniteSet(Reserved)' /\ used' = Cardinality(Reserved)' /\ JobKnown(r)'

\* Such a step keeps the invariant.
LEMMA SettleKeeps ==
    ASSUME TasksSound, NEW r \in Requests, NEW pc, Settles(r, pc)
    PROVE  TasksSound'
  <1>1. TaskTypeOK'
    BY DEF TasksSound, TaskTypeOK, Moves, JobType, Settles
  <1>2. \A q \in Requests : JobKnown(q)'
    <2>1. Moves(r, pc) /\ produced' = produced /\ JobKnown(r)'
      BY DEF Settles
    <2>2. ASSUME NEW q \in Requests \ {r}
          PROVE  question'[q] = question[q] /\ status'[q] = status[q]
      BY DEF Settles
    <2> QED BY <2>1, <2>2, OthersKnown
  <1>3. \A k \in Scopes : Holders(k)' \subseteq Holders(k) /\ Refused(k)' \subseteq Refused(k)
    <2>1. \A q \in Requests : job'[q].held = job[q].held
      BY DEF Moves, Settles
    <2>2. ASSUME NEW k \in Scopes, NEW q \in Requests, job'[q].pc = Over[k]
          PROVE  job[q].pc = Over[k]
      <3>1. job'[r].pc # Over[k]
        BY ScopeSteps DEF Moves, Settles
      <3>2. q # r
        BY <2>2, <3>1
      <3>3. job'[q] = job[q]
        BY <3>2 DEF Moves, Settles
      <3> QED BY <2>2, <3>3
    <2> QED BY <2>1, <2>2 DEF Holders, Refused
  <1>4. Creators' \subseteq Creators
    BY DEF Creators, Moves, Settles
  <1> QED BY <1>1, <1>2, <1>3, <1>4, SlotsLess, ClaimLess DEF TasksSound, CancelKnown, Settles

\* Reserving a question and giving it back in a creation or a run.
LEMMA QuestionKeeps ==
    ASSUME TasksSound, NEW r \in Requests, ReserveQuestion(r) \/ RollBackCreation(r) \/ RefundIfUnproduced(r)
    PROVE  TasksSound'
  <1>1. /\ status \in [Requests -> Statuses] /\ faults \in 0..MaxFaults
        /\ question \in [Requests -> {"none", "reserved", "returned", "returned unread"}]
        /\ TaskTypeOK /\ JobKnown(r)
    BY DEF TasksSound, TaskTypeOK
  <1>2. /\ UNCHANGED <<status, taskClaim, cancelMarker, produced, slots, cancel, sole>>
        /\ faults' \in 0..MaxFaults
    BY <1>1, FaultsBounded DEF ReserveQuestion, RollBackCreation, RefundIfUnproduced, redis
  <1>3. UNCHANGED quota =>
          /\ IsFiniteSet(Reserved)' /\ used' = Cardinality(Reserved)' /\ used' \in 0..MaxUses /\ question' = question
    BY QuotaRests DEF quota, TasksSound, TaskTypeOK
  <1>4. CASE ReserveQuestion(r)
    <2>1. question[r] = "none" /\ job[r].pc = "quota" /\ status[r] = "none" /\ ~produced[r]
      BY <1>1, <1>4 DEF JobKnown, ReserveQuestion, Unasked, CreationSteps
    <2>2. CASE /\ used < MaxUses /\ used' = used + 1 /\ question' = [question EXCEPT ![r] = "reserved"]
               /\ JobGoes(r, "global")
      <3>1. Moves(r, "global")
        BY <1>1, <2>2, GoesMoves DEF JobSteps, CreationSteps
      <3>2. IsFiniteSet(Reserved)' /\ used' = Cardinality(Reserved)' /\ used' \in 0..MaxUses
        BY <2>1, <2>2, QuestionTaken
      <3>3. /\ question' \in [Requests -> {"none", "reserved", "returned", "returned unread"}]
            /\ question'[r] = "reserved" /\ \A q \in Requests \ {r} : question'[q] = question[q]
        BY <1>1, <2>2
      <3>4. JobKnown(r)'
        BY <1>2, <2>1, <3>1, <3>3 DEF JobKnown, Moves, Unasked, Asked, CreationSteps, RunSteps
      <3>5. Settles(r, "global")
        BY <1>1, <1>2, <2>1, <3>1, <3>2, <3>3, <3>4 DEF Settles, CreationSteps
      <3> QED BY <3>5, SettleKeeps
    <2>3. CASE JobGoes(r, "undo") /\ UNCHANGED quota
      <3>1. Moves(r, "undo")
        BY <1>1, <2>3, GoesMoves DEF JobSteps, CreationSteps
      <3>2. JobKnown(r)'
        BY <1>2, <1>3, <2>1, <2>3, <3>1 DEF JobKnown, Moves, Unasked, Asked, CreationSteps, RunSteps
      <3>3. Settles(r, "undo")
        BY <1>1, <1>2, <1>3, <2>1, <2>3, <3>1, <3>2 DEF Settles, CreationSteps
      <3> QED BY <3>3, SettleKeeps
    <2> QED BY <1>4, <2>2, <2>3 DEF ReserveQuestion
  <1>5. ASSUME NEW pc \in {"free", "clear"}, JobGoes(r, pc), question[r] \in {"none", "reserved"},
               question[r] = "none" => ~produced[r],
               \/ UNCHANGED quota
               \/ question[r] = "reserved" /\ ~produced[r] /\ GiveBack(r, "returned")
               \/ question[r] = "reserved" /\ GiveBack(r, "returned unread")
        PROVE  TasksSound'
    <2>1. Moves(r, pc)
      BY <1>1, <1>5, GoesMoves DEF JobSteps, RunSteps
    <2>2. pc \notin CreationSteps
      BY DEF CreationSteps
    <2>3. IsFiniteSet(Reserved)' /\ used' = Cardinality(Reserved)' /\ used' \in 0..MaxUses
      BY <1>3, <1>5, QuestionReturned
    <2>4. /\ question' \in [Requests -> {"none", "reserved", "returned", "returned unread"}]
          /\ \A q \in Requests \ {r} : question'[q] = question[q]
          /\ question'[r] \in {"none", "returned"} => ~produced[r]
      BY <1>1, <1>3, <1>5 DEF GiveBack
    <2>5. JobKnown(r)'
      BY <1>2, <2>1, <2>4 DEF JobKnown, Moves, Unasked, Asked, CreationSteps, RunSteps
    <2>6. Settles(r, pc)
      BY <1>1, <1>2, <2>1, <2>2, <2>3, <2>4, <2>5 DEF Settles
    <2> QED BY <2>6, SettleKeeps
  <1>6. CASE RollBackCreation(r)
    <2>1. /\ question[r] \in {"none", "reserved"} /\ ~produced[r] /\ JobGoes(r, "free")
          /\ UNCHANGED quota \/ (question[r] = "reserved" /\ GiveBack(r, "returned"))
      BY <1>1, <1>6 DEF RollBackCreation, JobKnown
    <2> QED BY <1>5, <2>1
  <1>7. CASE RefundIfUnproduced(r)
    <2>1. /\ question[r] = "reserved" /\ JobGoes(r, "clear")
          /\ \/ UNCHANGED quota
             \/ ~produced[r] /\ GiveBack(r, "returned")
             \/ GiveBack(r, "returned unread")
      BY <1>1, <1>7 DEF RefundIfUnproduced, JobKnown, Asked, RunSteps
    <2> QED BY <1>5, <2>1
  <1> QED BY <1>4, <1>6, <1>7

\* create_task makes a task where there is none.
LEMMA MakeKeeps ==
    ASSUME TasksSound, NEW r \in Requests, CreateTask(r)
    PROVE  TasksSound'
  <1>1. /\ status \in [Requests -> Statuses] /\ TaskTypeOK /\ JobKnown(r)
        /\ question \in [Requests -> {"none", "reserved", "returned", "returned unread"}]
        /\ job[r].pc = "make" /\ question[r] = "reserved" /\ status[r] = "none" /\ ~produced[r]
    BY DEF TasksSound, TaskTypeOK, CreateTask, JobKnown, Asked, CreationSteps
  <1>2. /\ UNCHANGED <<taskClaim, cancelMarker, produced, slots, quota, cancel, sole>>
        /\ faults' \in 0..MaxFaults
    BY <1>1, FaultsBounded DEF CreateTask
  <1>3. PICK pc \in {"save", "undo"} : JobGoes(r, pc)
    BY DEF CreateTask
  <1>4. Moves(r, pc)
    BY <1>1, <1>3, GoesMoves DEF JobSteps, CreationSteps
  <1>5. status' \in [Requests -> Statuses] /\ \A q \in Requests \ {r} : status'[q] = status[q]
    BY <1>1 DEF CreateTask, Statuses, LiveStatuses
  <1>6. JobKnown(r)'
    BY <1>1, <1>2, <1>4 DEF JobKnown, Moves, quota, Unasked, Asked, CreationSteps, RunSteps
  <1>7. IsFiniteSet(Reserved)' /\ used' = Cardinality(Reserved)' /\ used' \in 0..MaxUses /\ question' = question
    BY <1>1, <1>2, QuotaRests DEF quota, TaskTypeOK
  <1>8. Settles(r, pc)
    BY <1>1, <1>2, <1>4, <1>5, <1>6, <1>7 DEF Settles, CreationSteps
  <1> QED BY <1>8, SettleKeeps

\* A step at which r gets or loses a slot.
Shifts(r, pc) ==
    /\ job' \in JobType /\ job'[r].pc = pc /\ (\A q \in Requests \ {r} : job'[q] = job[q])
    /\ pc \in CreationSteps => job[r].pc \in CreationSteps
    /\ UNCHANGED <<taskClaim, status, cancelMarker, produced, quota, cancel, sole>> /\ faults' \in 0..MaxFaults
    /\ slots' \in [Scopes -> Nat] /\ SlotsKnown' /\ JobKnown(r)'

\* Such a step keeps the invariant.
LEMMA ShiftKeeps ==
    ASSUME TasksSound, NEW r \in Requests, NEW pc, Shifts(r, pc)
    PROVE  TasksSound'
  <1>1. TaskTypeOK'
    BY DEF TasksSound, TaskTypeOK, JobType, Shifts, quota
  <1>2. ASSUME NEW q \in Requests
        PROVE  JobKnown(q)'
    <2>1. CASE q = r
      BY <2>1 DEF Shifts
    <2>2. CASE q # r
      <3>1. job'[q] = job[q] /\ question'[q] = question[q] /\ produced'[q] = produced[q] /\ status'[q] = status[q]
        BY <2>2 DEF Shifts, quota
      <3> QED BY <3>1 DEF TasksSound, JobKnown
    <2> QED BY <2>1, <2>2
  <1>3. Creators' \subseteq Creators
    BY DEF Creators, Shifts
  <1> QED BY <1>1, <1>2, <1>3, QuotaRests, ClaimLess DEF TasksSound, CancelKnown, Shifts

\* The other scope does not notice.
LEMMA OtherScope ==
    ASSUME TasksSound, NEW r \in Requests, NEW k \in Scopes, NEW n \in Nat,
           slots' = [slots EXCEPT ![k] = n], job' \in JobType,
           job'[r].pc \notin {Over[z] : z \in Scopes \ {k}}, job'[r].held \subseteq job[r].held \cup {k},
           \A q \in Requests \ {r} : job'[q] = job[q], ScopeFits(k)'
    PROVE  SlotsKnown' /\ slots' \in [Scopes -> Nat]
  <1>1. slots' \in [Scopes -> Nat]
    BY DEF TasksSound, TaskTypeOK
  <1>2. ASSUME NEW z \in Scopes, z # k
        PROVE  ScopeFits(z)'
    <2>1. Holders(z)' \subseteq Holders(z) /\ Refused(z)' \subseteq Refused(z)
      BY <1>2 DEF Holders, Refused
    <2>2. slots'[z] = slots[z] /\ slots[z] \in Nat
      BY <1>2 DEF TasksSound, TaskTypeOK
    <2>3. slots'[z] >= slots[z]
      BY <2>2
    <2> QED BY <1>1, <2>1, <2>3, ScopeLess
  <1> QED BY <1>1, <1>2 DEF SlotsKnown

\* What the cardinalities of a scope come to.
LEMMA ScopeCounts ==
    ASSUME TasksSound, NEW k \in Scopes
    PROVE  /\ IsFiniteSet(Holders(k)) /\ IsFiniteSet(Refused(k))
           /\ Cardinality(Holders(k)) \in Nat /\ Cardinality(Refused(k)) \in Nat
           /\ slots[k] \in Nat /\ SlotLimit[k] \in Nat
           /\ Cardinality(Holders(k)) + Cardinality(Refused(k)) <= slots[k]
           /\ Cardinality(Holders(k)) <= SlotLimit[k]
  BY TaskAssumption, FS_CardinalityType DEF TasksSound, SlotsKnown, ScopeFits, TaskTypeOK

\* A request that is admitted to a scope, refused, or let through.
LEMMA CreatorShifts ==
    ASSUME TasksSound, NEW r \in Requests, NEW k \in Scopes, job[r].pc \in {k, Over[k]},
           NEW pc \in {After[k], Over[k], "undo"},
           job' \in JobType, job'[r].pc = pc, \A q \in Requests \ {r} : job'[q] = job[q],
           UNCHANGED <<taskClaim, status, cancelMarker, produced, quota, cancel, sole>>, Smooth \/ Trouble,
           SlotsKnown' /\ slots' \in [Scopes -> Nat]
    PROVE  TasksSound'
  <1>1. job[r].pc \in {"global", "user", "over global", "over user"} /\ pc \in {"user", "make", "over global", "over user", "undo"}
    BY ScopeSteps
  <1>2. JobKnown(r) /\ TaskTypeOK
    BY DEF TasksSound
  <1>3. question[r] = "reserved" /\ status[r] = "none" /\ ~produced[r]
    BY <1>1, <1>2 DEF JobKnown, Asked, CreationSteps
  <1>4. question'[r] = "reserved" /\ status'[r] = "none" /\ ~produced'[r]
    BY <1>3 DEF quota
  <1>5. JobKnown(r)'
    BY <1>1, <1>4 DEF JobKnown, Unasked, Asked, CreationSteps, RunSteps
  <1>6. Shifts(r, pc)
    BY <1>1, <1>2, <1>5, FaultsBounded DEF Shifts, CreationSteps
  <1> QED BY <1>6, ShiftKeeps

\* INCR of a slot: counted for its holder, or for the request that is about to step back.
LEMMA AdmitKeeps ==
    ASSUME TasksSound, NEW r \in Requests, NEW k \in Scopes, ReserveSlot(r, k)
    PROVE  TasksSound'
  <1>1. /\ job[r].pc = k /\ UNCHANGED <<taskClaim, status, cancelMarker, produced, quota, cancel, sole>>
        /\ Smooth \/ Trouble
    BY DEF ReserveSlot
  <1>2. TaskTypeOK /\ slots \in [Scopes -> Nat] /\ job \in JobType /\ k \in JobSteps
    BY ScopeSteps DEF TasksSound, TaskTypeOK, JobType, JobSteps, CreationSteps
  <1>3. /\ After[k] \in JobSteps /\ Over[k] \in JobSteps /\ k # After[k] /\ k # Over[k] /\ After[k] # Over[k]
        /\ After[k] \notin {Over[z] : z \in Scopes} /\ Over[k] \notin {Over[z] : z \in Scopes \ {k}}
    BY ScopeSteps DEF Scopes, JobSteps, CreationSteps
  <1>4. /\ IsFiniteSet(Holders(k)) /\ IsFiniteSet(Refused(k))
        /\ Cardinality(Holders(k)) \in Nat /\ Cardinality(Refused(k)) \in Nat
        /\ slots[k] \in Nat /\ SlotLimit[k] \in Nat
        /\ Cardinality(Holders(k)) + Cardinality(Refused(k)) <= slots[k]
        /\ Cardinality(Holders(k)) <= SlotLimit[k]
    BY ScopeCounts
  <1>5. CASE /\ slots[k] < SlotLimit[k] /\ slots' = [slots EXCEPT ![k] = @ + 1]
             /\ job' = [job EXCEPT ![r] = [pc |-> After[k], held |-> @.held \cup {k}]]
    <2>1. /\ job' \in JobType /\ job'[r].pc = After[k] /\ job'[r].held = job[r].held \cup {k}
          /\ \A q \in Requests \ {r} : job'[q] = job[q]
      BY <1>2, <1>3, <1>5 DEF JobType
    <2>2. Holders(k)' = Holders(k) \cup {r} /\ Refused(k)' \subseteq Refused(k)
      BY <1>3, <2>1 DEF Holders, Refused
    <2>3. /\ IsFiniteSet(Holders(k) \cup {r}) /\ IsFiniteSet(Refused(k)')
          /\ Cardinality(Refused(k)') <= Cardinality(Refused(k))
          /\ Cardinality(Holders(k) \cup {r}) = IF r \in Holders(k) THEN Cardinality(Holders(k)) ELSE Cardinality(Holders(k)) + 1
      BY <1>4, <2>2, FS_AddElement, FS_Subset
    <2>4. Cardinality(Refused(k)') \in Nat
      BY <2>3, FS_CardinalityType
    <2>5. slots' = [slots EXCEPT ![k] = slots[k] + 1] /\ slots'[k] = slots[k] + 1 /\ slots[k] + 1 \in Nat
      BY <1>2, <1>4, <1>5
    <2>6. /\ Cardinality(Holders(k)') + Cardinality(Refused(k)') <= slots'[k]
          /\ Cardinality(Holders(k)') <= SlotLimit[k]
      BY <1>4, <1>5, <2>2, <2>3, <2>4, <2>5
    <2>7. ScopeFits(k)'
      BY <2>2, <2>3, <2>6 DEF ScopeFits
    <2>8. SlotsKnown' /\ slots' \in [Scopes -> Nat]
      <3>1. job'[r].pc \notin {Over[z] : z \in Scopes \ {k}} /\ job'[r].held \subseteq job[r].held \cup {k}
        BY <1>3, <2>1
      <3>2. PICK n \in Nat : slots' = [slots EXCEPT ![k] = n]
        BY <2>5
      <3> QED BY <2>1, <2>7, <3>1, <3>2, OtherScope
    <2> QED BY <1>1, <2>1, <2>8, CreatorShifts
  <1>6. CASE slots' = [slots EXCEPT ![k] = @ + 1] /\ JobGoes(r, Over[k])
    <2>1. Moves(r, Over[k])
      BY <1>2, <1>3, <1>6, GoesMoves
    <2>2. Holders(k)' = Holders(k) /\ Refused(k)' = Refused(k) \cup {r} /\ r \notin Refused(k)
      BY <1>1, <1>3, <2>1 DEF Holders, Refused, Moves
    <2>3. IsFiniteSet(Refused(k) \cup {r}) /\ Cardinality(Refused(k) \cup {r}) = Cardinality(Refused(k)) + 1
      BY <1>4, <2>2, FS_AddElement
    <2>5. slots' = [slots EXCEPT ![k] = slots[k] + 1] /\ slots'[k] = slots[k] + 1 /\ slots[k] + 1 \in Nat
      BY <1>2, <1>4, <1>6
    <2>6. /\ Cardinality(Holders(k)') + Cardinality(Refused(k)') <= slots'[k]
          /\ Cardinality(Holders(k)') <= SlotLimit[k]
      BY <1>4, <2>2, <2>3, <2>5
    <2>7. ScopeFits(k)'
      BY <1>4, <2>2, <2>3, <2>6 DEF ScopeFits
    <2>8. SlotsKnown' /\ slots' \in [Scopes -> Nat]
      <3>1. /\ job' \in JobType /\ \A q \in Requests \ {r} : job'[q] = job[q]
            /\ job'[r].pc \notin {Over[z] : z \in Scopes \ {k}} /\ job'[r].held \subseteq job[r].held \cup {k}
        BY <1>3, <2>1 DEF Moves
      <3>2. PICK n \in Nat : slots' = [slots EXCEPT ![k] = n]
        BY <2>5
      <3> QED BY <2>7, <3>1, <3>2, OtherScope
    <2> QED BY <1>1, <2>1, <2>8, CreatorShifts DEF Moves
  <1>7. CASE /\ slots' \in {slots, [slots EXCEPT ![k] = IF @ < SlotLimit[k] THEN @ + 1 ELSE @]}
             /\ JobGoes(r, After[k])
    <2>1. Moves(r, After[k])
      BY <1>2, <1>3, <1>7, GoesMoves
    <2>2. Holders(k)' = Holders(k) /\ Refused(k)' \subseteq Refused(k)
      BY <1>1, <1>3, <2>1 DEF Holders, Refused, Moves
    <2>3. PICK n \in Nat : slots' = [slots EXCEPT ![k] = n] /\ n >= slots[k]
      <3>1. slots' = [slots EXCEPT ![k] = slots[k]] \/ slots' = [slots EXCEPT ![k] = slots[k] + 1]
        BY <1>2, <1>7
      <3>2. slots[k] \in Nat /\ slots[k] + 1 \in Nat /\ slots[k] >= slots[k] /\ slots[k] + 1 >= slots[k]
        BY <1>4
      <3>3. CASE slots' = [slots EXCEPT ![k] = slots[k]]
        BY <3>2, <3>3
      <3>4. CASE slots' = [slots EXCEPT ![k] = slots[k] + 1]
        BY <3>2, <3>4
      <3> QED BY <3>1, <3>3, <3>4
    <2>4. slots' \in [Scopes -> Nat] /\ slots'[k] >= slots[k]
      BY <1>2, <2>3
    <2>5. ScopeFits(k)'
      BY <2>2, <2>4, ScopeLess
    <2>6. SlotsKnown' /\ slots' \in [Scopes -> Nat]
      <3>1. /\ job' \in JobType /\ \A q \in Requests \ {r} : job'[q] = job[q]
            /\ job'[r].pc \notin {Over[z] : z \in Scopes \ {k}} /\ job'[r].held \subseteq job[r].held \cup {k}
        BY <1>3, <2>1 DEF Moves
      <3>2. slots' = [slots EXCEPT ![k] = n]
        BY <2>3
      <3> QED BY <2>5, <3>1, <3>2, OtherScope
    <2> QED BY <1>1, <2>1, <2>6, CreatorShifts DEF Moves
  <1> QED BY <1>5, <1>6, <1>7 DEF ReserveSlot

\* DECR of a refused request takes back what it counted, or lets it through.
LEMMA StepBackKeeps ==
    ASSUME TasksSound, NEW r \in Requests, NEW k \in Scopes, StepBack(r, k)
    PROVE  TasksSound'
  <1>1. /\ job[r].pc = Over[k] /\ UNCHANGED <<taskClaim, status, cancelMarker, produced, quota, cancel, sole>>
        /\ Smooth \/ Trouble
    BY DEF StepBack
  <1>2. TaskTypeOK /\ slots \in [Scopes -> Nat] /\ job \in JobType
    BY DEF TasksSound, TaskTypeOK, JobType
  <1>3. /\ After[k] \in JobSteps /\ "undo" \in JobSteps /\ Over[k] # "undo" /\ After[k] # Over[k]
        /\ After[k] \notin {Over[z] : z \in Scopes} /\ "undo" \notin {Over[z] : z \in Scopes}
    BY ScopeSteps DEF Scopes, JobSteps, CreationSteps
  <1>4. /\ IsFiniteSet(Holders(k)) /\ IsFiniteSet(Refused(k))
        /\ Cardinality(Holders(k)) \in Nat /\ Cardinality(Refused(k)) \in Nat
        /\ slots[k] \in Nat /\ SlotLimit[k] \in Nat
        /\ Cardinality(Holders(k)) + Cardinality(Refused(k)) <= slots[k]
        /\ Cardinality(Holders(k)) <= SlotLimit[k]
    BY ScopeCounts
  <1>5. CASE slots' = [slots EXCEPT ![k] = @ - 1] /\ JobGoes(r, "undo")
    <2>1. Moves(r, "undo")
      BY <1>2, <1>3, <1>5, GoesMoves
    <2>2. Holders(k)' = Holders(k) /\ Refused(k)' = Refused(k) \ {r} /\ r \in Refused(k)
      BY <1>1, <1>3, <2>1 DEF Holders, Refused, Moves
    <2>3. IsFiniteSet(Refused(k) \ {r}) /\ Cardinality(Refused(k) \ {r}) = Cardinality(Refused(k)) - 1
      BY <1>4, <2>2, FS_RemoveElement
    <2>4. Cardinality(Refused(k) \ {r}) \in Nat
      BY <2>3, FS_CardinalityType
    <2>5. slots[k] - 1 \in Nat
      BY <1>4, <2>3, <2>4
    <2>6. slots' = [slots EXCEPT ![k] = slots[k] - 1] /\ slots'[k] = slots[k] - 1
      BY <1>2, <1>5
    <2>7. Cardinality(Holders(k)') + Cardinality(Refused(k)') <= slots'[k] /\ Cardinality(Holders(k)') <= SlotLimit[k]
      BY <1>4, <2>2, <2>3, <2>6
    <2>8. ScopeFits(k)'
      BY <1>4, <2>2, <2>3, <2>7 DEF ScopeFits
    <2>9. SlotsKnown' /\ slots' \in [Scopes -> Nat]
      <3>1. /\ job'[r].pc \notin {Over[z] : z \in Scopes \ {k}} /\ job'[r].held \subseteq job[r].held \cup {k}
            /\ job' \in JobType /\ \A q \in Requests \ {r} : job'[q] = job[q]
        BY <1>3, <2>1 DEF Moves
      <3>2. PICK n \in Nat : slots' = [slots EXCEPT ![k] = n]
        BY <2>5, <2>6
      <3> QED BY <2>8, <3>1, <3>2, OtherScope
    <2> QED BY <1>1, <2>1, <2>9, CreatorShifts DEF Moves
  <1>6. CASE slots' = slots /\ JobGoes(r, After[k])
    <2>1. Moves(r, After[k])
      BY <1>2, <1>3, <1>6, GoesMoves
    <2>2. \A z \in Scopes : Holders(z)' \subseteq Holders(z) /\ Refused(z)' \subseteq Refused(z)
      BY <1>3, <2>1 DEF Holders, Refused, Moves
    <2>3. SlotsKnown' /\ slots' \in [Scopes -> Nat]
      BY <1>2, <1>6, <2>2, SlotsLess
    <2> QED BY <1>1, <2>1, <2>3, CreatorShifts DEF Moves
  <1> QED BY <1>5, <1>6 DEF StepBack

\* A release takes back the slot of a holder, so it does not meet zero.
LEMMA FreeKeeps ==
    ASSUME TasksSound, NEW r \in Requests, NEW k \in Scopes, FreeSlot(r, k)
    PROVE  TasksSound'
  <1>1. /\ job[r].pc = "free" /\ k \in job[r].held /\ job' = [job EXCEPT ![r].held = @ \ {k}]
        /\ UNCHANGED <<taskClaim, status, cancelMarker, produced, quota, cancel, sole>>
        /\ Smooth \/ Trouble
    BY DEF FreeSlot
  <1>2. TaskTypeOK /\ slots \in [Scopes -> Nat] /\ job \in JobType /\ faults' \in 0..MaxFaults /\ JobKnown(r)
    BY <1>1, FaultsBounded DEF TasksSound, TaskTypeOK, JobType
  <1>3. /\ job' \in JobType /\ job'[r].pc = "free" /\ job'[r].held = job[r].held \ {k}
        /\ \A q \in Requests \ {r} : job'[q] = job[q]
    BY <1>1, <1>2 DEF JobType
  <1>4. /\ IsFiniteSet(Holders(k)) /\ IsFiniteSet(Refused(k))
        /\ Cardinality(Holders(k)) \in Nat /\ Cardinality(Refused(k)) \in Nat
        /\ slots[k] \in Nat /\ SlotLimit[k] \in Nat
        /\ Cardinality(Holders(k)) + Cardinality(Refused(k)) <= slots[k]
        /\ Cardinality(Holders(k)) <= SlotLimit[k]
    BY ScopeCounts
  <1>5. JobKnown(r)'
    <2>1. question'[r] = question[r] /\ produced'[r] = produced[r]
      BY <1>1 DEF quota
    <2> QED BY <1>2, <1>3, <2>1 DEF JobKnown, Unasked, Asked, CreationSteps, RunSteps
  <1>6. Holders(k)' = Holders(k) \ {r} /\ r \in Holders(k) /\ Refused(k)' = Refused(k)
    <2>1. "free" # Over[k]
      BY ScopeSteps
    <2> QED BY <1>1, <1>3, <2>1 DEF Holders, Refused
  <1>7. \A z \in Scopes : Holders(z)' \subseteq Holders(z) /\ Refused(z)' \subseteq Refused(z)
    <2>1. \A z \in Scopes : "free" # Over[z]
      BY ScopeSteps
    <2> QED BY <1>3, <2>1 DEF Holders, Refused
  <1>8. SlotsKnown' /\ slots' \in [Scopes -> Nat]
    <2>1. CASE slots' = slots
      BY <1>2, <1>7, <2>1, SlotsLess
    <2>2. CASE slots' = [slots EXCEPT ![k] = IF @ > 0 THEN @ - 1 ELSE 0]
      <3>1. IsFiniteSet(Holders(k) \ {r}) /\ Cardinality(Holders(k) \ {r}) = Cardinality(Holders(k)) - 1
        BY <1>4, <1>6, FS_RemoveElement
      <3>2. Cardinality(Holders(k) \ {r}) \in Nat
        BY <3>1, FS_CardinalityType
      <3>3. slots[k] > 0 /\ slots[k] - 1 \in Nat
        BY <1>4, <3>1, <3>2
      <3>4. slots' = [slots EXCEPT ![k] = slots[k] - 1] /\ slots'[k] = slots[k] - 1
        BY <1>2, <2>2, <3>3
      <3>5. Cardinality(Holders(k)') + Cardinality(Refused(k)') <= slots'[k] /\ Cardinality(Holders(k)') <= SlotLimit[k]
        BY <1>4, <1>6, <3>1, <3>2, <3>4
      <3>6. ScopeFits(k)'
        BY <1>4, <1>6, <3>1, <3>5 DEF ScopeFits
      <3>7. job'[r].pc \notin {Over[z] : z \in Scopes \ {k}} /\ job'[r].held \subseteq job[r].held \cup {k}
        BY <1>3, ScopeSteps
      <3>8. PICK n \in Nat : slots' = [slots EXCEPT ![k] = n]
        BY <3>3, <3>4
      <3> QED BY <1>3, <3>6, <3>7, <3>8, OtherScope
    <2> QED BY <2>1, <2>2 DEF FreeSlot
  <1>9. Shifts(r, "free")
    BY <1>1, <1>2, <1>3, <1>5, <1>8 DEF Shifts, CreationSteps
  <1> QED BY <1>9, ShiftKeeps

-----------------------------------------------------------------------------
(* Cancellation and time.                                                  *)

\* A step of nobody's request.
Happens ==
    /\ UNCHANGED <<produced, slots, quota, job>> /\ status' \in [Requests -> Statuses]
    /\ (\A q \in Requests : status[q] = "none" => status'[q] = "none")
    /\ cancelMarker' \in [Requests -> BOOLEAN] /\ taskClaim' \in Requests \cup {Creating, NoRequest}
    /\ cancel' \in [step : {"idle", "mark", "end"}, task : Requests \cup {NoRequest}]
    /\ sole' \in BOOLEAN /\ faults' \in 0..MaxFaults /\ CancelKnown'
    /\ (UNCHANGED <<taskClaim, sole>> \/ (sole' => sole /\ Creators = {}))

\* Such a step keeps the invariant.
LEMMA HappensKeeps ==
    ASSUME TasksSound, Happens
    PROVE  TasksSound'
  <1>1. TaskTypeOK'
    BY DEF TasksSound, TaskTypeOK, Happens, quota
  <1>2. ASSUME NEW q \in Requests
        PROVE  JobKnown(q)'
    <2>1. /\ job'[q] = job[q] /\ question'[q] = question[q] /\ produced'[q] = produced[q]
          /\ (status[q] = "none" => status'[q] = "none") /\ JobKnown(q)
      BY DEF Happens, quota, TasksSound
    <2> QED BY <2>1 DEF JobKnown
  <1>3. SlotsKnown'
    <2>1. slots' = slots /\ \A k \in Scopes : Holders(k)' \subseteq Holders(k) /\ Refused(k)' \subseteq Refused(k)
      BY DEF Happens, Holders, Refused
    <2> QED BY <2>1, SlotsLess
  <1>4. ClaimKnown'
    <2>1. Creators' = Creators
      BY DEF Happens, Creators
    <2> QED BY <2>1 DEF Happens, TasksSound, ClaimKnown, OneCreator
  <1>5. IsFiniteSet(Reserved)' /\ used' = Cardinality(Reserved)'
    BY QuotaRests DEF Happens
  <1> QED BY <1>1, <1>2, <1>3, <1>4, <1>5 DEF TasksSound, Happens

\* mark_task_timeout, and the first step of a cancellation.
LEMMA TimeOutKeeps ==
    ASSUME TasksSound, NEW r \in Requests, ReadTask(r) \/ TimeOut(r)
    PROVE  TasksSound'
  <1>1. TaskTypeOK /\ CancelKnown
    BY DEF TasksSound
  <1>2. CASE ReadTask(r)
    <2>1. cancel' = [step |-> "mark", task |-> r] /\ UNCHANGED <<redis, quota, job, sole, faults>>
      BY <1>2 DEF ReadTask
    <2>2. cancel' \in [step : {"idle", "mark", "end"}, task : Requests \cup {NoRequest}] /\ CancelKnown'
      BY <2>1 DEF CancelKnown
    <2> QED BY <1>1, <2>1, <2>2, HappensKeeps DEF Happens, TaskTypeOK, redis
  <1>3. CASE TimeOut(r)
    <2>1. faults' \in 0..MaxFaults /\ UNCHANGED <<taskClaim, produced, slots, quota, job, cancel, sole>>
      BY <1>1, <1>3, FaultsBounded DEF TimeOut
    <2>2. status' \in [Requests -> Statuses] /\ \A q \in Requests : status[q] = "none" => status'[q] = "none"
      BY <1>1, <1>3 DEF TimeOut, Active, LiveStatuses, Statuses, EndStatuses, TaskTypeOK
    <2>3. cancelMarker' \in [Requests -> BOOLEAN]
      BY <1>1, <1>3 DEF TimeOut, TaskTypeOK
    <2> QED BY <1>1, <2>1, <2>2, <2>3, HappensKeeps DEF Happens, TaskTypeOK, CancelKnown
  <1> QED BY <1>2, <1>3

\* The two writes of a cancellation.
LEMMA CancelKeeps ==
    ASSUME TasksSound, RequestCancel \/ CancelTask
    PROVE  TasksSound'
  <1>1. TaskTypeOK /\ CancelKnown
    BY DEF TasksSound
  <1>2. cancel.step # "idle" /\ cancel.task \in Requests
    BY <1>1 DEF RequestCancel, CancelTask, CancelKnown
  <1>3. faults' \in 0..MaxFaults /\ UNCHANGED <<taskClaim, produced, slots, quota, job, sole>>
    BY <1>1, FaultsBounded DEF RequestCancel, CancelTask
  <1>4. CASE RequestCancel
    <2>1. cancelMarker' \in [Requests -> BOOLEAN] /\ status' = status
      BY <1>1, <1>4 DEF RequestCancel, TaskTypeOK
    <2>2. cancel' \in [step : {"idle", "mark", "end"}, task : Requests \cup {NoRequest}] /\ CancelKnown'
      <3>1. cancel \in [step : {"idle", "mark", "end"}, task : Requests \cup {NoRequest}]
        BY <1>1 DEF TaskTypeOK
      <3>2. cancel' = [cancel EXCEPT !.step = "end"] \/ cancel' = [step |-> "idle", task |-> NoRequest]
        BY <1>4 DEF RequestCancel, NoJob
      <3>3. CASE cancel' = [cancel EXCEPT !.step = "end"]
        <4>1. cancel' \in [step : {"idle", "mark", "end"}, task : Requests \cup {NoRequest}] /\ cancel'.task = cancel.task
          BY <3>1, <3>3
        <4> QED BY <1>2, <4>1 DEF CancelKnown
      <3>4. CASE cancel' = [step |-> "idle", task |-> NoRequest]
        BY <3>4 DEF CancelKnown
      <3> QED BY <3>2, <3>3, <3>4
    <2> QED BY <1>1, <1>3, <2>1, <2>2, HappensKeeps DEF Happens, TaskTypeOK
  <1>5. CASE CancelTask
    <2>1. PICK r \in Requests : r = cancel.task
      BY <1>2
    <2>2. End(r, "cancelled") \/ UNCHANGED status
      BY <1>5, <2>1 DEF CancelTask
    <2>3. StatusKept(r)
      BY <1>1, <2>2, EndKeeps, StatusRests DEF EndStatuses
    <2>4. status' \in [Requests -> Statuses] /\ \A q \in Requests : status[q] = "none" => status'[q] = "none"
      BY <1>1, <2>2, <2>3 DEF StatusKept, End, Active, LiveStatuses, TaskTypeOK
    <2>5. cancel' = NoJob /\ cancelMarker' = cancelMarker
      BY <1>5 DEF CancelTask
    <2> QED BY <1>1, <1>3, <2>4, <2>5, HappensKeeps DEF Happens, TaskTypeOK, CancelKnown, NoJob
  <1> QED BY <1>4, <1>5

\* A claim that lapses under its creation ends sole.
LEMMA ExpiryKeeps ==
    ASSUME TasksSound, ClaimExpires
    PROVE  TasksSound'
  <1>1. TaskTypeOK /\ CancelKnown /\ ClaimKnown
    BY DEF TasksSound
  <1>2. faults' \in 0..MaxFaults /\ taskClaim' = NoRequest
        /\ UNCHANGED <<status, cancelMarker, produced, slots, quota, job, cancel>>
    BY <1>1, FaultsBounded DEF ClaimExpires
  <1>3. sole' \in BOOLEAN /\ (sole' => sole /\ Creators = {})
    <2>1. CASE sole' = sole /\ ~(taskClaim = Creating /\ Creators # {})
      <3>1. sole \in BOOLEAN
        BY <1>1 DEF TaskTypeOK
      <3>2. sole => Creators = {}
        BY <1>1, <2>1, Zenon DEF ClaimKnown
      <3> QED BY <2>1, <3>1, <3>2
    <2>2. CASE sole' = FALSE
      BY <2>2
    <2> QED BY <2>1, <2>2 DEF ClaimExpires
  <1> QED BY <1>1, <1>2, <1>3, HappensKeeps DEF Happens, TaskTypeOK, CancelKnown

-----------------------------------------------------------------------------
(* The inductive invariant holds.                                          *)

\* The invariant holds at the start.
LEMMA InitSound == TaskInit => TasksSound
  <1> SUFFICES ASSUME TaskInit
               PROVE  TasksSound
    OBVIOUS
  <1>1. TaskTypeOK
    BY TaskAssumption DEF TaskInit, TaskTypeOK, NoJob, JobSteps, Statuses, Scopes
  <1>2. \A r \in Requests : JobKnown(r)
    BY DEF TaskInit, JobKnown, Unasked, Asked, CreationSteps, RunSteps
  <1>3. CancelKnown
    BY DEF TaskInit, CancelKnown, NoJob
  <1>4. Creators = {} /\ Reserved = {}
    BY DEF TaskInit, Creators, CreationSteps, Reserved
  <1>5. IsFiniteSet({}) /\ Cardinality({}) = 0
    BY FS_EmptySet
  <1>6. ASSUME NEW k \in Scopes
        PROVE  ScopeFits(k)
    <2>1. Over[k] # "claim"
      BY ScopeSteps
    <2>2. Holders(k) = {} /\ Refused(k) = {} /\ slots[k] = 0
      BY <2>1 DEF TaskInit, Holders, Refused
    <2>3. SlotLimit[k] \in Nat
      BY TaskAssumption
    <2> QED BY <1>5, <2>2, <2>3 DEF ScopeFits
  <1> QED BY <1>1, <1>2, <1>3, <1>4, <1>5, <1>6 DEF TasksSound, SlotsKnown, ClaimKnown, OneCreator, TaskInit

\* Every step keeps it.
LEMMA NextSound == TasksSound /\ [TaskNext]_taskVars => TasksSound'
  <1> SUFFICES ASSUME TasksSound, [TaskNext]_taskVars
               PROVE  TasksSound'
    OBVIOUS
  <1>1. ASSUME NEW r \in Requests, Create(r)
        PROVE  TasksSound'
    BY <1>1, ClaimKeeps, QuestionKeeps, MakeKeeps, SaveKeeps, ReleaseKeeps, AdmitKeeps, StepBackKeeps DEF Create
  <1>2. ASSUME NEW r \in Requests, Run(r)
        PROVE  TasksSound'
    <2>1. CASE RefundIfUnproduced(r)
      BY <2>1, QuestionKeeps
    <2>2. CASE ClearMarker(r) \/ EndJob(r)
      BY <2>2, LeaveKeeps
    <2>3. CASE \E k \in Scopes : FreeSlot(r, k)
      BY <2>3, FreeKeeps
    <2> QED BY <1>2, <2>1, <2>2, <2>3, RunIsShaped, RunKeeps DEF Run
  <1>3. ASSUME NEW r \in Requests, TaskCrash(r)
        PROVE  TasksSound'
    BY <1>3, LeaveKeeps
  <1>4. CASE UNCHANGED taskVars
    <2>1. Happens
      BY <1>4 DEF TasksSound, Happens, TaskTypeOK, CancelKnown, taskVars, redis
    <2> QED BY <2>1, HappensKeeps
  <1> QED BY <1>1, <1>2, <1>3, <1>4, TimeOutKeeps, CancelKeeps, ExpiryKeeps DEF TaskNext

\* So it holds always.
LEMMA AlwaysTasksSound == TaskSpec => []TasksSound
  BY InitSound, NextSound, PTL DEF TaskSpec

-----------------------------------------------------------------------------
(* The properties.                                                         *)

\* create_agent_task under concurrency and failures: as long as every creation
\* holds the claim, equal requests create one at a time, and the counters of
\* task_manager.py cover the slots that are held, within their limits.
THEOREM AlwaysAdmitted == TaskSpec => []AdmissionHolds
  <1>1. TasksSound => AdmissionHolds
    <2> SUFFICES ASSUME TasksSound
                 PROVE  OneCreator /\ SlotsCoverHolders
      BY DEF AdmissionHolds
    <2>1. OneCreator
      BY DEF TasksSound, ClaimKnown, OneCreator
    <2>2. ASSUME NEW k \in Scopes
          PROVE  Cardinality(Holders(k)) <= slots[k] /\ Cardinality(Holders(k)) <= SlotLimit[k]
      <3>1. /\ Cardinality(Holders(k)) \in Nat /\ Cardinality(Refused(k)) \in Nat
            /\ slots[k] \in Nat /\ SlotLimit[k] \in Nat
            /\ Cardinality(Holders(k)) + Cardinality(Refused(k)) <= slots[k]
            /\ Cardinality(Holders(k)) <= SlotLimit[k]
        BY ScopeCounts
      <3> QED BY <3>1
    <2> QED BY <2>1, <2>2 DEF SlotsCoverHolders
  <1> QED BY <1>1, AlwaysTasksSound, PTL

\* reserve_used_questions, rollback_used_questions and _refund_quota_if_unproduced:
\* the user's count is that of the questions reserved and not given back, never below
\* zero or above the limit, and an answer that was produced has been paid for.
THEOREM QuestionsAlwaysFair == TaskSpec => []QuestionsAreFair
  <1>1. TasksSound => QuestionsAreFair
    <2> SUFFICES ASSUME TasksSound
                 PROVE  TaskTypeOK /\ QuotaBalances /\ AnsweredIsPaid
      BY DEF QuestionsAreFair
    <2>1. TaskTypeOK /\ QuotaBalances
      BY DEF TasksSound, QuotaBalances, Reserved
    <2>2. ASSUME NEW r \in Requests, produced[r]
          PROVE  question[r] \in {"reserved", "returned unread"}
      <3>1. question[r] \in {"none", "reserved", "returned", "returned unread"} /\ JobKnown(r)
        BY DEF TasksSound, TaskTypeOK
      <3> QED BY <2>2, <3>1 DEF JobKnown
    <2> QED BY <2>1, <2>2 DEF AnsweredIsPaid
  <1> QED BY <1>1, AlwaysTasksSound, PTL

\* No step of a run changes a task that has ended.
LEMMA RunEnds ==
    ASSUME TasksSound, NEW q \in Requests, Run(q)
    PROVE  \A r \in Requests : status[r] \in EndStatuses => status'[r] = status[r]
  <1>1. CASE RefundIfUnproduced(q) \/ ClearMarker(q) \/ EndJob(q) \/ \E k \in Scopes : FreeSlot(q, k)
    BY <1>1 DEF RefundIfUnproduced, ClearMarker, EndJob, FreeSlot, redis
  <1>2. CASE RunShape(q)
    BY <1>2 DEF RunShape, StatusKept
  <1> QED BY <1>1, <1>2, RunIsShaped DEF Run

\* No step of a creation does.
LEMMA CreateEnds ==
    ASSUME TasksSound, NEW q \in Requests, Create(q)
    PROVE  \A r \in Requests : status[r] \in EndStatuses => status'[r] = status[r]
  <1>1. CASE CreateTask(q)
    <2>1. status \in [Requests -> Statuses] /\ JobKnown(q) /\ job[q].pc = "make"
      BY <1>1 DEF TasksSound, TaskTypeOK, CreateTask
    <2>2. status[q] \notin EndStatuses
      BY <2>1 DEF JobKnown, CreationSteps, EndStatuses
    <2> QED BY <1>1, <2>1, <2>2 DEF CreateTask
  <1>2. CASE UNCHANGED status
    BY <1>2
  <1>3. CreateTask(q) \/ UNCHANGED status
    BY DEF Create, ClaimTaskKey, ReserveQuestion, SaveAndLaunch, ReleaseClaim, RollBackCreation, ReserveSlot,
           StepBack, redis
  <1> QED BY <1>1, <1>2, <1>3

\* finish_task, fail_task, cancel_task_if_active and mark_task_timeout: a task that
\* has ended keeps its outcome, whoever comes late.
THEOREM OutcomesAreFinal == TaskSpec => EndedStaysEnded
  <1>1. ASSUME TasksSound, [TaskNext]_taskVars
        PROVE  \A r \in Requests : status[r] \in EndStatuses => status'[r] = status[r]
    <2>1. TaskTypeOK /\ CancelKnown
      BY <1>1 DEF TasksSound
    <2>2. ASSUME NEW q \in Requests, TimeOut(q)
          PROVE  \A r \in Requests : status[r] \in EndStatuses => status'[r] = status[r]
      BY <2>1, <2>2 DEF TimeOut, Active, LiveStatuses, EndStatuses, TaskTypeOK
    <2>3. ASSUME CancelTask
          PROVE  \A r \in Requests : status[r] \in EndStatuses => status'[r] = status[r]
      <3>1. PICK q \in Requests : q = cancel.task
        BY <2>1, <2>3 DEF CancelTask, CancelKnown
      <3>2. End(q, "cancelled") \/ UNCHANGED status
        BY <2>3, <3>1 DEF CancelTask
      <3> QED BY <2>1, <3>2, EndKeeps DEF StatusKept, EndStatuses
    <2>4. ASSUME NEW q \in Requests, TaskCrash(q) \/ ReadTask(q)
          PROVE  UNCHANGED status
      BY <2>4 DEF TaskCrash, ReadTask, redis
    <2>5. RequestCancel \/ ClaimExpires \/ UNCHANGED taskVars => UNCHANGED status
      BY DEF RequestCancel, ClaimExpires, taskVars, redis
    <2> QED BY <1>1, <2>2, <2>3, <2>4, <2>5, RunEnds, CreateEnds DEF TaskNext
  <1> QED BY <1>1, AlwaysTasksSound, PTL DEF TaskSpec, EndedStaysEnded

-----------------------------------------------------------------------------
(* The run of one task (AgentRun), for any number of rounds, any prompts    *)
(* and any scenes.                                                          *)

Pieces ==
    {"cached", "busy", "simple", "view", "failure", "mapping", "grounded", "refusal", "safe", "main", "flash",
     "sorry", "other"}
Text == Seq(Pieces)
RunFields == {"pc", "intent", "round", "token", "renews", "result", "scene"}
CallRows == [text : Text, tools : Nat, usage : BOOLEAN, blocked : BOOLEAN, pieces : Nat]

RunTypes ==
    /\ DOMAIN run = RunFields /\ run.token \in BOOLEAN /\ run.renews \in BOOLEAN
    /\ DOMAIN task = {"status", "result"} /\ {buf, entry, memory, task.result} \subseteq Text
    /\ marker \in BOOLEAN /\ stopped \in BOOLEAN
    /\ call \in CallRows /\ unbilled \in Nat /\ mishaps \in Nat

\* Where nothing of a fallback has been written yet.
BeforeFallback ==
    {"start", "look", "wait", "lock", "again", "route", "simple", "format", "save", "prepare", "round",
     "stream", "bill", "cancelled", "tools", "finish", "fallback"}
AfterFallback == {"flash", "last", "resolve", "fail", "release", "done"}

\* A text of the fallback or one of the model, or neither.
Apart(text) == "flash" \in Sources(text) => "main" \notin Sources(text)
TextsKnown ==
    /\ run.pc \in BeforeFallback \cup AfterFallback
    /\ \A text \in {buf, entry, memory, task.result} : Apart(text)
    /\ run.pc \in BeforeFallback => "flash" \notin Sources(buf) \cup Sources(call.text)
    /\ run.pc = "flash" => "main" \notin Sources(buf)
    /\ run.pc = "format" => run.result \in {"data", "error", "mapping"}

\* The calls that are over are billed, and the one to be billed has told its usage.
BillsKnown ==
    /\ mishaps = 0 /\ ~stopped => unbilled = 0
    /\ marker => stopped
    /\ run.pc \in {"bill", "cancelled"} => call.usage

\* Who is asked for the entry of the cache still has a task that is live, or one that was
\* stopped and whose marker says so.
Gates == {"start", "look", "wait", "lock", "again"}
MemoryKnown ==
    /\ mishaps = 0 /\ memory # <<>> => task.status = "completed" /\ memory = task.result
    /\ mishaps = 0 /\ run.pc \in Gates \ {"start"} => Live \/ stopped
    /\ run.pc \in Gates => (stopped => marker)
    /\ mishaps = 0 /\ run.pc = "save" => task.status = "completed"

RenewalKnown == run.renews => run.token /\ run.pc # "done"

RunSound == RunTypes /\ TextsKnown /\ BillsKnown /\ MemoryKnown /\ RenewalKnown

\* What the steps add to a text.
LEMMA TextAppended ==
    ASSUME NEW t \in Text, NEW p \in Pieces
    PROVE  Append(t, p) \in Text /\ Sources(Append(t, p)) = Sources(t) \cup {p}
  <1> DEFINE u == Append(t, p)
             n == Len(t)
  <1>1. /\ u \in Seq(Pieces) /\ Len(u) = n + 1
        /\ \A i \in 1 .. n : u[i] = t[i]
        /\ u[n + 1] = p
    BY AppendProperties DEF Text
  <1>2. n \in Nat /\ DOMAIN t = 1 .. n
    BY LenProperties DEF Text
  <1>3. DOMAIN u = 1 .. (n + 1)
    BY <1>1, LenProperties
  <1> HIDE DEF u, n
  <1>4. \A i : i \in 1 .. (n + 1) <=> i \in 1 .. n \/ i = n + 1
    BY <1>2
  <1>5. Sources(u) = Sources(t) \cup {p}
    BY <1>1, <1>2, <1>3, <1>4 DEF Sources
  <1> QED BY <1>1, <1>5 DEF Text, u

LEMMA TextJoined ==
    ASSUME NEW t \in Text, NEW u \in Text
    PROVE  t \o u \in Text /\ Sources(t \o u) \subseteq Sources(t) \cup Sources(u)
  <1>1. /\ t \o u \in Seq(Pieces) /\ Len(t \o u) = Len(t) + Len(u)
        /\ \A i \in 1 .. Len(t) + Len(u) : (t \o u)[i] = IF i <= Len(t) THEN t[i] ELSE u[i - Len(t)]
    BY ConcatProperties DEF Text
  <1>2. Len(t) \in Nat /\ Len(u) \in Nat /\ DOMAIN t = 1 .. Len(t) /\ DOMAIN u = 1 .. Len(u)
        /\ DOMAIN (t \o u) = 1 .. Len(t) + Len(u)
    BY <1>1, LenProperties DEF Text
  <1>3. ASSUME NEW i \in DOMAIN (t \o u)
        PROVE  (t \o u)[i] \in Sources(t) \cup Sources(u)
    <2>1. CASE i <= Len(t)
      BY <1>1, <1>2, <2>1 DEF Sources
    <2>2. CASE ~(i <= Len(t))
      <3>1. i - Len(t) \in DOMAIN u /\ (t \o u)[i] = u[i - Len(t)]
        BY <1>1, <1>2, <2>2
      <3> QED BY <3>1 DEF Sources
    <2> QED BY <2>1, <2>2
  <1> QED BY <1>1, <1>3 DEF Text, Sources

LEMMA TextOfOne ==
    ASSUME NEW p \in Pieces
    PROVE  <<p>> \in Text /\ Sources(<<p>>) = {p} /\ <<p>> # <<>>
  <1>1. <<p>> \in Seq(Pieces) /\ <<p>> # <<>>
    OBVIOUS
  <1>2. DOMAIN <<p>> = {1} /\ <<p>>[1] = p
    OBVIOUS
  <1>3. Sources(<<p>>) = {p}
    BY <1>2 DEF Sources
  <1> QED BY <1>1, <1>3 DEF Text

LEMMA NoText == <<>> \in Text /\ Sources(<<>>) = {} /\ NoCall \in CallRows /\ NoCall.text = <<>>
  BY DEF Text, Sources, NoCall, CallRows

\* A task that is live ends with the text it is given, another one stays as it is.
LEMMA Finishes ==
    ASSUME RunTypes, NEW s, NEW text \in Text, Finish(s, text)
    PROVE  /\ DOMAIN task' = {"status", "result"} /\ task'.result \in Text
           /\ task'.result \in {task.result, text}
           /\ Live => task'.status = s /\ task'.result = text
           /\ ~Live => task' = task
           /\ task.status = "completed" => task' = task
  BY DEF Finish, RunTypes, Live

\* The run is at p, with the lock and the renewal it has.
Place(p) ==
    /\ p \in BeforeFallback \cup AfterFallback /\ run'.pc = p /\ DOMAIN run' = RunFields
    /\ run'.token = run.token /\ run'.renews = run.renews

LEMMA GoesTo ==
    ASSUME RunTypes, NEW p \in BeforeFallback \cup AfterFallback, GoTo(p)
    PROVE  Place(p)
  BY DEF GoTo, RunTypes, RunFields, Place

\* A step that loses no call, or loses it to a fault or to who stops the task.
Bills(n) == n \in Nat /\ mishaps' \in Nat /\ (mishaps' = 0 => mishaps = 0 /\ (stopped \/ n = 0))

\* The run goes on; what it writes is of a fallback only after it.
LEMMA Onward ==
    ASSUME RunSound, NEW p, Place(p), p \notin {"done", "save", "format"}, NEW n, Bills(n), unbilled' = unbilled + n,
           UNCHANGED <<task, marker, entry, memory, stopped>>, buf' \in Text, call' \in CallRows,
           Apart(buf'), p = "flash" => "main" \notin Sources(buf'),
           p \in BeforeFallback => "flash" \notin Sources(buf') \cup Sources(call'.text),
           p \in {"bill", "cancelled"} => call'.usage,
           p \in Gates => run.pc \in Gates \ {"start"}
    PROVE  RunSound'
  <1>1. RunTypes'
    BY DEF RunSound, RunTypes, Place, Bills
  <1>2. TextsKnown'
    BY DEF RunSound, TextsKnown, Place, Apart
  <1>3. BillsKnown'
    BY DEF RunSound, RunTypes, BillsKnown, Place, Bills
  <1>4. MemoryKnown'
    BY DEF RunSound, MemoryKnown, Place, Bills, Live
  <1>5. RenewalKnown'
    BY DEF RunSound, RenewalKnown, Place
  <1> QED BY <1>1, <1>2, <1>3, <1>4, <1>5 DEF RunSound

\* The task ends, if it has not yet, and with it the run; what is remembered is what the
\* task has been completed with.
LEMMA Ending ==
    ASSUME RunSound, NEW p \in {"resolve", "release"}, Place(p), NEW n, Bills(n), unbilled' = unbilled + n,
           NEW s, NEW text \in Text, Finish(s, text), Apart(text),
           \/ memory' = memory
           \/ memory' = text /\ s = "completed" /\ (mishaps = 0 => Live),
           marker' \in {marker, FALSE}, stopped' = stopped,
           {buf', entry'} \subseteq Text, Apart(buf'), Apart(entry'), call' \in CallRows
    PROVE  RunSound'
  <1>1. /\ DOMAIN task' = {"status", "result"} /\ task'.result \in {task.result, text}
        /\ Live => task'.status = s /\ task'.result = text
        /\ task.status = "completed" => task' = task
    BY Finishes DEF RunSound
  <1>2. RunTypes'
    <2>1. {buf', entry', memory', task'.result} \subseteq Text
      BY <1>1 DEF RunSound, RunTypes
    <2>2. unbilled' \in Nat /\ mishaps' \in Nat
      BY DEF RunSound, RunTypes, Bills
    <2> QED BY <1>1, <2>1, <2>2 DEF RunSound, RunTypes, Place
  <1>3. TextsKnown'
    BY <1>1 DEF RunSound, TextsKnown, Place, Apart, BeforeFallback
  <1>4. BillsKnown'
    <2>1. mishaps' = 0 /\ ~stopped => unbilled' = 0
      BY DEF RunSound, RunTypes, BillsKnown, Bills
    <2>2. marker' => stopped'
      BY DEF RunSound, RunTypes, BillsKnown
    <2>3. run'.pc \notin {"bill", "cancelled"}
      BY DEF Place
    <2> QED BY <2>1, <2>2, <2>3 DEF BillsKnown
  <1>5. MemoryKnown'
    BY <1>1 DEF RunSound, MemoryKnown, Place, Bills, Gates
  <1>6. RenewalKnown'
    BY DEF RunSound, RenewalKnown, Place
  <1> QED BY <1>2, <1>3, <1>4, <1>5, <1>6 DEF RunSound

\* The pieces of texts have names of their own.
LEMMA NamesOfPieces ==
    /\ {"cached", "busy", "simple", "view", "failure", "mapping", "grounded", "refusal", "safe", "main", "flash",
        "sorry", "other"} \subseteq Pieces
    /\ \A p \in Pieces : <<p>> \in Text /\ Apart(<<p>>) /\ (p # "flash" => "flash" \notin Sources(<<p>>))
    /\ Apart(<<>>) /\ <<>> \in Text
  <1>1. \A p \in Pieces : <<p>> \in Text /\ Sources(<<p>>) = {p}
    BY TextOfOne
  <1> QED BY <1>1, NoText DEF Pieces, Apart

\* A step that is billed, or has nothing to bill.
LEMMA NoBill ==
    ASSUME RunSound, Fine \/ Mishap
    PROVE  Bills(0)
  BY DEF RunSound, RunTypes, Fine, Mishap, Bills

LEMMA LostBill ==
    ASSUME RunSound, \/ Mishap
                     \/ Fine /\ stopped,
           NEW n \in Nat
    PROVE  Bills(n)
  BY DEF RunSound, RunTypes, Fine, Mishap, Bills

\* A step that leaves the bills alone.
LEMMA Steady ==
    ASSUME RunSound, Fine \/ Mishap, UNCHANGED unbilled
    PROVE  Bills(0) /\ unbilled' = unbilled + 0
  <1>1. unbilled \in Nat
    BY DEF RunSound, RunTypes
  <1> QED BY <1>1, NoBill

\* What is known of the texts there are.
LEMMA Known ==
    ASSUME RunSound
    PROVE  /\ buf \in Text /\ entry \in Text /\ memory \in Text /\ task.result \in Text /\ call.text \in Text
           /\ Apart(buf) /\ Apart(entry) /\ Apart(memory) /\ Apart(task.result)
           /\ call \in CallRows
           /\ run.pc \in BeforeFallback =>
                Apart(call.text) /\ "flash" \notin Sources(buf) \cup Sources(call.text)
           /\ run.pc = "flash" => "main" \notin Sources(buf)
           /\ run.pc \in {"bill", "cancelled"} => call.usage
           /\ marker => stopped
  BY DEF RunSound, RunTypes, TextsKnown, CallRows, Apart, BillsKnown

\* What is added to the text of a run.
LEMMA Adds ==
    ASSUME NEW t \in Text, NEW p \in Pieces
    PROVE  /\ Append(t, p) \in Text
           /\ p # "flash" /\ "flash" \notin Sources(t) =>
                Apart(Append(t, p)) /\ "flash" \notin Sources(Append(t, p))
           /\ p = "flash" /\ "main" \notin Sources(t) =>
                Apart(Append(t, p)) /\ "main" \notin Sources(Append(t, p))
           /\ p \notin {"flash", "main"} /\ Apart(t) => Apart(Append(t, p))
  BY TextAppended DEF Apart

\* Steps that only lead on.
LEMMA PassesOn ==
    ASSUME RunSound, MissCache \/ RouteTask \/ ResolveOutcome \/ RunRaises
    PROVE  RunSound'
  <1>1. UNCHANGED <<task, marker, buf, entry, memory, call, unbilled, stopped>> /\ (Fine \/ Mishap)
    BY DEF MissCache, RouteTask, ResolveOutcome, RunRaises, shared, context
  <1>2. PICK p \in {"lock", "simple", "prepare", "release", "fail"} :
          Place(p) /\ (p = "lock" => run.pc = "look") /\ (p \in {"simple", "prepare"} => run.pc = "route")
    <2>1. CASE MissCache
      BY <2>1, GoesTo DEF MissCache, At, RunSound, BeforeFallback
    <2>2. CASE RouteTask
      BY <2>2 DEF RouteTask, At, RunSound, RunTypes, RunFields, Place, BeforeFallback
    <2>3. CASE ResolveOutcome \/ RunRaises
      BY <2>3, GoesTo DEF ResolveOutcome, RunRaises, RunSound, AfterFallback
    <2> QED BY <2>1, <2>2, <2>3
  <1>3. /\ buf' \in Text /\ call' \in CallRows /\ Apart(buf')
        /\ p \in BeforeFallback => "flash" \notin Sources(buf') \cup Sources(call'.text)
        /\ p \in Gates => run.pc \in Gates \ {"start"}
    BY <1>1, <1>2, Known DEF BeforeFallback, Gates
  <1>4. Bills(0) /\ unbilled' = unbilled + 0
    BY <1>1, Steady
  <1> QED BY <1>1, <1>2, <1>3, <1>4, Onward

\* The task is told to generate, unless it is over.
Generates == task' = IF Live THEN [task EXCEPT !.status = "generating"] ELSE task

LEMMA BeginsKeep ==
    ASSUME RunSound, Generates, NEW p, Place(p), p \in {"look", "route", "resolve", "format"}, Fine,
           UNCHANGED <<marker, buf, entry, memory, call, unbilled, stopped>>,
           p = "look" => run.pc = "start" /\ Live, p = "format" => run'.result \in {"data", "error", "mapping"}, p \in BeforeFallback => run.pc \in BeforeFallback
    PROVE  RunSound'
  <1>1. /\ DOMAIN task' = {"status", "result"} /\ task'.result = task.result
        /\ Live => task'.status = "generating"
        /\ ~Live => task' = task
    BY DEF Generates, RunSound, RunTypes
  <1>2. RunTypes'
    BY <1>1 DEF RunSound, RunTypes, Place, Fine
  <1>3. TextsKnown'
    BY <1>1 DEF RunSound, TextsKnown, Place, Apart
  <1>4. BillsKnown'
    BY DEF RunSound, BillsKnown, Place, Fine
  <1>5. MemoryKnown'
    BY <1>1 DEF RunSound, MemoryKnown, Place, Fine, Gates, Live
  <1>6. RenewalKnown'
    BY DEF RunSound, RenewalKnown, Place
  <1> QED BY <1>2, <1>3, <1>4, <1>5, <1>6 DEF RunSound

LEMMA StartKeeps ==
    ASSUME RunSound, StartGeneration
    PROVE  RunSound'
  <1>1. /\ Generates /\ Fine /\ UNCHANGED <<marker, buf, entry, memory, call, unbilled, stopped>>
        /\ run.pc = "start"
    BY DEF StartGeneration, Generates, shared, context, At
  <1>2. PICK p \in {"look", "route", "resolve"} : GoTo(p) /\ (p = "look" => Live)
    BY DEF StartGeneration
  <1>3. Place(p)
    BY <1>2, GoesTo DEF RunSound, BeforeFallback, AfterFallback
  <1> QED BY <1>1, <1>2, <1>3, BeginsKeep DEF BeforeFallback

\* The cache has the entry.
LEMMA HitKeeps ==
    ASSUME RunSound, TryCacheHit
    PROVE  RunSound'
  <1> DEFINE text == Append(buf, "cached")
  <1>1. /\ UNCHANGED <<entry, call, unbilled, stopped>> /\ run.pc \in {"look", "wait"} /\ (Fine \/ Mishap)
    BY DEF TryCacheHit, shared, context, At
  <1>2. Bills(0) /\ unbilled' = unbilled + 0
    BY <1>1, Steady
  <1>3. /\ text \in Text /\ Apart(text) /\ "flash" \notin Sources(text)
        /\ run.pc \in BeforeFallback
    BY <1>1, Known, Adds, NamesOfPieces DEF BeforeFallback
  <1> HIDE DEF text
  <1>4. CASE marker /\ buf' = text /\ StopRun(buf') /\ UNCHANGED memory
    <2>1. Place("resolve")
      BY <1>4, GoesTo DEF RunSound, AfterFallback, StopRun
    <2> QED BY <1>1, <1>2, <1>3, <1>4, <2>1, Known, Ending DEF StopRun
  <1>5. CASE ~marker /\ buf' = text /\ memory' = entry /\ Finish("completed", entry) /\ GoTo("release")
             /\ UNCHANGED marker
    <2>1. Place("release")
      BY <1>5, GoesTo DEF RunSound, AfterFallback
    <2>2. mishaps = 0 => Live
      BY <1>1, <1>5 DEF RunSound, MemoryKnown, Gates
    <2> QED BY <1>1, <1>2, <1>3, <1>5, <2>1, <2>2, Known, Ending
  <1>6. CASE /\ buf' \in {buf, text} /\ GoTo("lock") /\ (Finish("completed", entry) \/ UNCHANGED task)
             /\ UNCHANGED <<marker, memory>> /\ Mishap
    <2>1. Place("lock")
      BY <1>6, GoesTo DEF RunSound, BeforeFallback
    <2>2. DOMAIN task' = {"status", "result"} /\ task'.result \in {task.result, entry}
      BY <1>6, Known, Finishes DEF RunSound, RunTypes
    <2>3. buf' \in Text /\ Apart(buf') /\ "flash" \notin Sources(buf')
      BY <1>3, <1>6, Known
    <2>4. mishaps' \in Nat /\ mishaps' # 0
      BY <1>6 DEF Mishap, RunSound, RunTypes
    <2>5. RunTypes'
      BY <1>1, <1>6, <2>1, <2>2, <2>3, <2>4, Known DEF RunSound, RunTypes, Place
    <2>6. TextsKnown'
      BY <1>1, <1>3, <1>6, <2>1, <2>2, <2>3, Known DEF TextsKnown, Place, Apart
    <2>7. BillsKnown'
      BY <1>1, <1>6, <2>1, <2>4 DEF RunSound, BillsKnown, Place
    <2>8. MemoryKnown'
      BY <1>1, <1>6, <2>1, <2>4 DEF RunSound, MemoryKnown, Place, Gates
    <2>9. RenewalKnown'
      BY <2>1 DEF RunSound, RenewalKnown, Place
    <2> QED BY <2>5, <2>6, <2>7, <2>8, <2>9 DEF RunSound
  <1> QED BY <1>4, <1>5, <1>6 DEF TryCacheHit, text

\* The rebuild lock.
LEMMA LocksKeep ==
    ASSUME RunSound, AcquireLock
    PROVE  RunSound'
  <1>1. /\ UNCHANGED <<marker, buf, entry, memory, call, unbilled, stopped>> /\ run.pc \in {"lock", "again"}
        /\ (Fine \/ Mishap)
    BY DEF AcquireLock, context, At
  <1>2. Bills(0) /\ unbilled' = unbilled + 0
    BY <1>1, Steady
  <1>3. run.pc \in BeforeFallback /\ run.pc \in Gates \ {"start"}
    BY <1>1 DEF BeforeFallback, Gates
  <1>4. CASE run' = [run EXCEPT !.pc = "route", !.token = TRUE, !.renews = TRUE] /\ UNCHANGED task /\ Fine
    <2>1. /\ DOMAIN run' = RunFields /\ run'.pc = "route" /\ run'.token = TRUE /\ run'.renews = TRUE
      BY <1>4 DEF RunSound, RunTypes, RunFields
    <2>2. RunTypes'
      BY <1>1, <1>4, <2>1 DEF RunSound, RunTypes, Fine
    <2>3. TextsKnown'
      BY <1>1, <1>3, <1>4, <2>1 DEF RunSound, TextsKnown, Apart, BeforeFallback
    <2>4. BillsKnown'
      BY <1>1, <1>4, <2>1 DEF RunSound, BillsKnown, Fine
    <2>5. MemoryKnown'
      BY <1>1, <1>4, <2>1 DEF RunSound, MemoryKnown, Fine, Gates
    <2>6. RenewalKnown'
      BY <2>1 DEF RenewalKnown
    <2> QED BY <2>2, <2>3, <2>4, <2>5, <2>6 DEF RunSound
  <1>5. CASE (GoTo("wait") \/ GoTo("fail")) /\ UNCHANGED task
    <2>1. PICK p \in {"wait", "fail"} : Place(p)
      BY <1>5, GoesTo DEF RunSound, BeforeFallback, AfterFallback
    <2> QED BY <1>1, <1>2, <1>3, <1>5, <2>1, Known, Onward
  <1>6. CASE GoTo("release") /\ Finish("completed", <<"busy">>)
    <2>1. Place("release")
      BY <1>6, GoesTo DEF RunSound, AfterFallback
    <2>2. <<"busy">> \in Text /\ Apart(<<"busy">>)
      BY NamesOfPieces
    <2> QED BY <1>1, <1>2, <1>6, <2>1, <2>2, Known, Ending
  <1> QED BY <1>4, <1>5, <1>6 DEF AcquireLock

LEMMA WaitsKeep ==
    ASSUME RunSound, WaitForEntry
    PROVE  RunSound'
  <1>1. /\ UNCHANGED <<buf, entry, memory, call, unbilled, stopped>> /\ run.pc = "wait" /\ Fine
    BY DEF WaitForEntry, context, shared, At
  <1>2. Bills(0) /\ unbilled' = unbilled + 0
    BY <1>1, Steady
  <1>3. run.pc \in BeforeFallback /\ run.pc \in Gates \ {"start"}
    BY <1>1 DEF BeforeFallback, Gates
  <1>4. CASE StopRun(buf)
    <2>1. Place("resolve")
      BY <1>4, GoesTo DEF RunSound, AfterFallback, StopRun
    <2> QED BY <1>1, <1>2, <1>4, <2>1, Known, Ending DEF StopRun
  <1>5. CASE GoTo("again") /\ UNCHANGED <<task, marker>>
    <2>1. Place("again")
      BY <1>5, GoesTo DEF RunSound, BeforeFallback
    <2> QED BY <1>1, <1>2, <1>3, <1>5, <2>1, Known, Onward
  <1> QED BY <1>4, <1>5 DEF WaitForEntry

\* A round of the model.
LEMMA RoundsKeep ==
    ASSUME RunSound, BeginRound
    PROVE  RunSound'
  <1>1. /\ UNCHANGED <<buf, entry, memory, unbilled, stopped>> /\ Bills(0) /\ unbilled' = unbilled + 0
        /\ run.pc = "round"
    BY NoBill DEF BeginRound, shared, RunSound, RunTypes, At
  <1>2. /\ buf \in Text /\ Apart(buf) /\ entry \in Text /\ Apart(entry) /\ call \in CallRows
        /\ "flash" \notin Sources(buf) \cup Sources(call.text) \cup Sources(NoCall.text)
    BY <1>1, NoText DEF RunSound, RunTypes, TextsKnown, BeforeFallback
  <1>3. CASE GoTo("last") /\ UNCHANGED <<task, marker, call>>
    <2>1. Place("last")
      BY <1>3, GoesTo DEF RunSound, AfterFallback
    <2> QED BY <1>1, <1>2, <1>3, <2>1, Onward DEF BeforeFallback, Gates
  <1>4. CASE StopRun(buf) /\ UNCHANGED call
    <2>1. Place("resolve")
      BY <1>4, GoesTo DEF RunSound, AfterFallback, StopRun
    <2> QED BY <1>1, <1>2, <1>4, <2>1, Ending DEF StopRun
  <1>5. CASE call' = NoCall /\ GoTo("stream") /\ UNCHANGED <<task, marker>>
    <2>1. Place("stream")
      BY <1>5, GoesTo DEF RunSound, BeforeFallback
    <2> QED BY <1>1, <1>2, <1>5, <2>1, Onward, NoText DEF Gates
  <1> QED BY <1>1, <1>3, <1>4, <1>5 DEF BeginRound, context

-----------------------------------------------------------------------------
\* A text of one piece that is neither of the model nor of the fallback.
LEMMA SimplePieces ==
    ASSUME run.result \in {"data", "error", "mapping"}, NEW a \in SimpleAnswers \cup {<<"safe">>}
    PROVE  /\ a \in Text /\ Apart(a) /\ "flash" \notin Sources(a)
  <1>1. PICK p \in Pieces \ {"flash"} : a = <<p>>
    <2>1. a \in {<<"mapping">>, <<"failure">>, <<"grounded">>, <<"refusal">>, <<"simple">>, <<"view">>, <<"safe">>}
      BY DEF SimpleAnswers, ToolView
    <2> QED BY <2>1 DEF Pieces
  <1> QED BY <1>1, NamesOfPieces

\* What answered is billed, whether it can be read or not.
LEMMA NothingLost ==
    ASSUME NEW replies, \A i \in DOMAIN replies : replies[i] \in {"good", "garbled", "down"}
    PROVE  UnbilledReplies(replies) = 0
  <1>1. {i \in DOMAIN replies : replies[i] # "down" /\ ~Billed(replies[i])} = {}
    BY DEF Billed
  <1> QED BY <1>1, FS_EmptySet DEF UnbilledReplies

LEMMA ExpertsAreBilled ==
    ASSUME NEW replies \in {<<>>} \cup (IF Civil THEN {} ELSE SubAgent)
    PROVE  UnbilledReplies(replies) = 0
  <1>1. CASE replies = <<>>
    BY <1>1, NothingLost
  <1>2. CASE replies = <<"good">>
    BY <1>2, NothingLost
  <1>3. CASE replies \in {"garbled", "down"} \X {"good", "garbled", "down"}
    <2>1. PICK x \in {"garbled", "down"}, y \in {"good", "garbled", "down"} : replies = <<x, y>>
      BY <1>3
    <2>2. DOMAIN replies = {1, 2} /\ replies[1] = x /\ replies[2] = y
      BY <2>1
    <2> QED BY <2>2, NothingLost
  <1> QED BY <1>1, <1>2, <1>3 DEF SubAgent

LEMMA ToolKeeps ==
    ASSUME RunSound, SimpleTool
    PROVE  RunSound'
  <1>1. /\ Generates /\ Fine /\ UNCHANGED <<marker, buf, entry, memory, call, stopped>>
        /\ run.pc = "simple"
    BY DEF SimpleTool, Generates, shared, context, At
  <1>2. PICK p \in {"resolve", "format"} :
          Place(p) /\ (p = "format" => run'.result \in {"data", "error", "mapping"})
    <2>1. CASE GoTo("resolve")
      BY <2>1, GoesTo DEF RunSound, AfterFallback
    <2>2. CASE \E r \in {"data", "error"} \cup (IF Civil THEN {"mapping"} ELSE {}) :
                 run' = [run EXCEPT !.pc = "format", !.result = r]
      BY <2>2 DEF RunSound, RunTypes, RunFields, Place, BeforeFallback
    <2> QED BY <2>1, <2>2 DEF SimpleTool
  <1>3. unbilled' = unbilled
    <2>1. CASE UNCHANGED unbilled
      BY <2>1
    <2>2. CASE \E replies \in {<<>>} \cup (IF Civil THEN {} ELSE SubAgent) :
                 unbilled' = unbilled + UnbilledReplies(replies)
      <3>1. unbilled' = unbilled + 0 /\ unbilled \in Nat
        BY <2>2, ExpertsAreBilled DEF RunSound, RunTypes
      <3> QED BY <3>1
    <2> QED BY <2>1, <2>2 DEF SimpleTool
  <1> QED BY <1>1, <1>2, <1>3, BeginsKeep DEF BeforeFallback

LEMMA EmitsKeep ==
    ASSUME RunSound, EmitSimple
    PROVE  RunSound'
  <1>1. /\ UNCHANGED <<marker, entry, memory, call, unbilled, stopped>> /\ run.pc = "format" /\ Fine
    BY DEF EmitSimple, context, shared, At
  <1>2. Bills(0) /\ unbilled' = unbilled + 0
    BY <1>1, Steady
  <1>3. /\ run.pc \in BeforeFallback /\ run.pc \notin Gates
        /\ run.result \in {"data", "error", "mapping"}
    BY <1>1 DEF BeforeFallback, Gates, RunSound, TextsKnown
  <1>4. CASE GoTo("resolve") /\ UNCHANGED <<task, buf>>
    <2>1. Place("resolve")
      BY <1>4, GoesTo DEF RunSound, AfterFallback
    <2> QED BY <1>1, <1>2, <1>4, <2>1, Known, Onward DEF BeforeFallback, Gates
  <1>5. ASSUME NEW a \in SimpleAnswers \cup {<<"safe">>}, buf' = buf \o a, Finish("completed", a),
               IF Live THEN run' = [run EXCEPT !.pc = "save", !.result = a[1]] ELSE GoTo("resolve")
        PROVE  RunSound'
    <2>1. buf' \in Text /\ Apart(buf') /\ "flash" \notin Sources(buf')
      BY <1>3, <1>5, SimplePieces, Known, TextJoined DEF Apart
    <2>2. /\ DOMAIN task' = {"status", "result"} /\ task'.result \in {task.result, a}
          /\ Live => task'.status = "completed"
          /\ task.status = "completed" => task' = task
      BY <1>3, <1>5, SimplePieces, Finishes DEF RunSound
    <2>3. PICK p \in {"save", "resolve"} : Place(p) /\ (p = "save" => Live)
      BY <1>5, GoesTo DEF RunSound, RunTypes, RunFields, Place, BeforeFallback, AfterFallback
    <2>4. RunTypes'
      BY <1>1, <1>3, <1>5, <2>1, <2>2, <2>3, SimplePieces DEF RunSound, RunTypes, Place, Fine
    <2>5. TextsKnown'
      BY <1>1, <1>3, <1>5, <2>1, <2>2, <2>3, SimplePieces, Known DEF TextsKnown, Place
    <2>6. BillsKnown'
      BY <1>1, <2>3 DEF RunSound, BillsKnown, Place, Fine
    <2>7. MemoryKnown'
      BY <1>1, <2>2, <2>3 DEF RunSound, MemoryKnown, Place, Fine, Gates
    <2>8. RenewalKnown'
      BY <2>3 DEF RunSound, RenewalKnown, Place
    <2> QED BY <2>4, <2>5, <2>6, <2>7, <2>8 DEF RunSound
  <1> QED BY <1>4, <1>5 DEF EmitSimple

LEMMA SavesKeep ==
    ASSUME RunSound, SaveSimple
    PROVE  RunSound'
  <1>1. /\ UNCHANGED <<task, marker, buf, call, unbilled, stopped>> /\ run.pc = "save" /\ Fine
        /\ memory' = task.result /\ entry' \in {entry, task.result}
    BY DEF SaveSimple, Caches, context, At
  <1>2. Place("resolve")
    BY GoesTo DEF SaveSimple, RunSound, AfterFallback
  <1>3. RunTypes'
    BY <1>1, <1>2, Known DEF RunSound, RunTypes, Place, Fine
  <1>4. TextsKnown'
    BY <1>1, <1>2, Known DEF TextsKnown, Place, BeforeFallback
  <1>5. BillsKnown'
    BY <1>1, <1>2 DEF RunSound, BillsKnown, Place, Fine
  <1>6. MemoryKnown'
    BY <1>1, <1>2 DEF RunSound, MemoryKnown, Place, Fine, Gates
  <1>7. RenewalKnown'
    BY <1>2 DEF RunSound, RenewalKnown, Place
  <1> QED BY <1>3, <1>4, <1>5, <1>6, <1>7 DEF RunSound

\* Runs that end without a text, and the way back from the simple path.
LEMMA FailuresKeep ==
    ASSUME RunSound, NoKey \/ SimpleFails \/ FailRun
    PROVE  RunSound'
  <1>1. /\ UNCHANGED <<marker, entry, memory, call, unbilled, stopped>>
    BY DEF NoKey, SimpleFails, FailRun, context, shared
  <1>2. CASE (GoTo("resolve") \/ GoTo("release")) /\ Finish("error", <<>>) /\ UNCHANGED buf /\ (Fine \/ Mishap)
    <2>1. PICK p \in {"resolve", "release"} : Place(p)
      BY <1>2, GoesTo DEF RunSound, AfterFallback
    <2>2. Bills(0) /\ unbilled' = unbilled + 0
      BY <1>1, <1>2, Steady
    <2> QED BY <1>1, <1>2, <2>1, <2>2, Known, NamesOfPieces, Ending
  <1>3. CASE /\ run.pc \in {"simple", "format", "save"} /\ mishaps' = mishaps + 2
             /\ run' = [run EXCEPT !.pc = "prepare", !.intent = IF Civil THEN "law" ELSE "none"]
             /\ buf' \in {buf, Append(buf, "simple")} /\ UNCHANGED task
    <2>1. Place("prepare")
      BY <1>3 DEF RunSound, RunTypes, RunFields, Place, BeforeFallback
    <2>2. mishaps \in Nat /\ unbilled \in Nat
      BY DEF RunSound, RunTypes
    <2>3. Bills(0) /\ unbilled' = unbilled + 0
      BY <1>1, <1>3, <2>2 DEF Bills
    <2>4. buf' \in Text /\ Apart(buf') /\ "flash" \notin Sources(buf') \cup Sources(call.text)
      BY <1>3, Known, Adds, NamesOfPieces DEF BeforeFallback
    <2> QED BY <1>1, <1>3, <2>1, <2>3, <2>4, Known, Onward DEF Gates
  <1> QED BY <1>2, <1>3 DEF NoKey, SimpleFails, FailRun

LEMMA PreparesKeep ==
    ASSUME RunSound, PrepareRun
    PROVE  RunSound'
  <1>1. /\ UNCHANGED <<marker, buf, entry, memory, call, unbilled, stopped>> /\ Fine
        /\ run.pc = "prepare"
    BY DEF PrepareRun, context, shared, At
  <1>2. Bills(0) /\ unbilled' = unbilled + 0
    BY <1>1, Steady
  <1>3. CASE Finish("error", <<>>) /\ GoTo("release")
    <2>1. Place("release")
      BY <1>3, GoesTo DEF RunSound, AfterFallback
    <2> QED BY <1>1, <1>2, <1>3, <2>1, Known, NamesOfPieces, Ending
  <1>4. CASE GoTo("round") /\ UNCHANGED task
    <2>1. Place("round")
      BY <1>4, GoesTo DEF RunSound, BeforeFallback
    <2> QED BY <1>1, <1>2, <1>4, <2>1, Known, Onward DEF Gates, BeforeFallback
  <1> QED BY <1>3, <1>4 DEF PrepareRun

-----------------------------------------------------------------------------
\* What a stream adds to what it has said.
LEMMA CallGrows ==
    ASSUME NEW c \in CallRows, NEW p \in Pieces
    PROVE  /\ [c EXCEPT !.text = Append(@, p), !.pieces = @ + 1] \in CallRows
           /\ [c EXCEPT !.text = Append(@, p), !.blocked = TRUE] \in CallRows
           /\ \A b \in BOOLEAN : [c EXCEPT !.usage = TRUE, !.text = Append(@, p), !.blocked = b] \in CallRows
           /\ [c EXCEPT !.usage = TRUE] \in CallRows
           /\ \A n \in Nat : [c EXCEPT !.tools = n] \in CallRows
  <1>1. Append(c.text, p) \in Text /\ c.pieces + 1 \in Nat
    BY TextAppended DEF CallRows
  <1> QED BY <1>1 DEF CallRows

\* A text of the model grows together with the buffer.
LEMMA StreamsKeep ==
    ASSUME RunSound, StreamPiece \/ StreamTools \/ BlockStream
    PROVE  RunSound'
  <1>1. /\ UNCHANGED <<task, marker, entry, memory, run, unbilled, stopped>> /\ run.pc = "stream" /\ Fine
    BY DEF StreamPiece, StreamTools, BlockStream, shared, At
  <1>2. Bills(0) /\ unbilled' = unbilled + 0
    BY <1>1, Steady
  <1>3. Place("stream")
    BY <1>1 DEF Place, RunSound, RunTypes, BeforeFallback
  <1>4. /\ buf' \in Text /\ Apart(buf') /\ "flash" \notin Sources(buf')
        /\ call' \in CallRows /\ "flash" \notin Sources(call'.text)
    <2>1. /\ buf \in Text /\ Apart(buf) /\ "flash" \notin Sources(buf)
          /\ call \in CallRows /\ call.text \in Text /\ "flash" \notin Sources(call.text)
      BY <1>1, Known DEF BeforeFallback
    <2>2. CASE StreamPiece
      <3>1. call'.text = Append(call.text, "main") /\ call' \in CallRows /\ buf' = Append(buf, "main")
        BY <2>1, <2>2, CallGrows, NamesOfPieces DEF StreamPiece, CallRows
      <3> QED BY <2>1, <3>1, Adds, NamesOfPieces
    <2>3. CASE StreamTools
      <3>1. call'.text = call.text /\ call' \in CallRows /\ buf' = buf
        BY <2>1, <2>3 DEF StreamTools, CallRows
      <3> QED BY <2>1, <3>1
    <2>4. CASE BlockStream
      <3>1. call'.text = Append(call.text, "safe") /\ call' \in CallRows /\ buf' = Append(buf, "safe")
        BY <2>1, <2>4, CallGrows, NamesOfPieces DEF BlockStream, CallRows
      <3> QED BY <2>1, <3>1, Adds, NamesOfPieces
    <2> QED BY <2>2, <2>3, <2>4
  <1> QED BY <1>1, <1>2, <1>3, <1>4, Onward DEF Gates

LEMMA UsagesKeep ==
    ASSUME RunSound, StreamUsage
    PROVE  RunSound'
  <1>1. /\ UNCHANGED <<task, marker, entry, memory, unbilled, stopped>> /\ run.pc = "stream" /\ Fine
    BY DEF StreamUsage, shared, At
  <1>2. Bills(0) /\ unbilled' = unbilled + 0
    BY <1>1, Steady
  <1>3. PICK q \in {"cancelled", "bill"} : Place(q)
    BY GoesTo DEF StreamUsage, RunSound, BeforeFallback
  <1>4. /\ buf \in Text /\ Apart(buf) /\ "flash" \notin Sources(buf)
        /\ call \in CallRows /\ call.text \in Text /\ "flash" \notin Sources(call.text)
    BY <1>1, Known DEF BeforeFallback
  <1>5. /\ buf' \in Text /\ Apart(buf') /\ "flash" \notin Sources(buf')
        /\ call' \in CallRows /\ "flash" \notin Sources(call'.text) /\ call'.usage
    <2>1. CASE call' = [call EXCEPT !.usage = TRUE] /\ UNCHANGED buf
      <3>1. call'.text = call.text /\ call' \in CallRows /\ call'.usage
        BY <1>4, <2>1 DEF CallRows
      <3> QED BY <1>4, <2>1, <3>1
    <2>2. ASSUME NEW p \in {"main", "safe"},
                 call' = [call EXCEPT !.usage = TRUE, !.text = Append(@, p), !.blocked = (p = "safe")],
                 buf' = Append(buf, p)
          PROVE  /\ buf' \in Text /\ Apart(buf') /\ "flash" \notin Sources(buf')
                 /\ call' \in CallRows /\ "flash" \notin Sources(call'.text) /\ call'.usage
      <3>1. p \in Pieces /\ p # "flash"
        BY NamesOfPieces
      <3>2. call' \in CallRows
        BY <1>4, <2>2, <3>1, CallGrows
      <3>3. call'.text = Append(call.text, p) /\ call'.usage
        BY <1>4, <2>2 DEF CallRows
      <3> QED BY <1>4, <2>2, <3>1, <3>2, <3>3, Adds
    <2> QED BY <2>1, <2>2 DEF StreamUsage
  <1> QED BY <1>1, <1>2, <1>3, <1>5, Onward DEF Gates

\* What a stream leaves unbilled.
Left(c) == IF Gave(c) THEN 1 ELSE 0

\* Steps out of a stream that is cut short, and out of the tools.
LEMMA BreaksKeep ==
    ASSUME RunSound, StreamFails \/ ToolsTimeOut
    PROVE  RunSound'
  <1>1. /\ UNCHANGED <<task, marker, buf, entry, memory, stopped>> /\ run.pc \in {"stream", "tools"}
    BY DEF StreamFails, ToolsTimeOut, shared, At
  <1>2. Place("fallback")
    BY GoesTo DEF StreamFails, ToolsTimeOut, RunSound, BeforeFallback
  <1>3. /\ buf \in Text /\ Apart(buf) /\ "flash" \notin Sources(buf) \cup Sources(NoCall.text)
        /\ call \in CallRows /\ NoCall \in CallRows /\ "flash" \notin Sources(call.text)
    BY <1>1, Known, NoText DEF BeforeFallback
  <1>4. CASE Mishap /\ Unsettled(call) /\ UNCHANGED call
    <2>1. Bills(Left(call)) /\ unbilled' = unbilled + Left(call)
      BY <1>4, LostBill DEF Left, Unsettled
    <2> QED BY <1>1, <1>2, <1>3, <1>4, <2>1, Onward DEF Gates
  <1>5. CASE Fine /\ UNCHANGED unbilled /\ call' = NoCall
    <2>1. Bills(0) /\ unbilled' = unbilled + 0
      BY <1>5, Steady
    <2> QED BY <1>1, <1>2, <1>3, <1>5, <2>1, Onward DEF Gates
  <1> QED BY <1>4, <1>5 DEF StreamFails, ToolsTimeOut, context

LEMMA BilledKeep ==
    ASSUME RunSound, BillRound
    PROVE  RunSound'
  <1>1. /\ UNCHANGED <<buf, entry, memory, call, stopped>> /\ run.pc \in {"bill", "cancelled"} /\ Fine
    BY DEF BillRound, shared, context, At
  <1>2. UNCHANGED unbilled
    <2>1. unbilled' = unbilled + 0 /\ unbilled \in Nat
      BY <1>1, Known DEF BillRound, RunSound, RunTypes
    <2> QED BY <2>1
  <1>3. Bills(0) /\ unbilled' = unbilled + 0
    BY <1>1, <1>2, Steady
  <1>4. CASE StopRun(buf)
    <2>1. Place("resolve")
      BY <1>4, GoesTo DEF RunSound, AfterFallback, StopRun
    <2> QED BY <1>1, <1>3, <1>4, <2>1, Known, Ending DEF StopRun
  <1>5. CASE (GoTo("tools") \/ GoTo("finish")) /\ UNCHANGED <<task, marker>>
    <2>1. PICK p \in {"tools", "finish"} : Place(p)
      BY <1>5, GoesTo DEF RunSound, BeforeFallback
    <2> QED BY <1>1, <1>3, <1>5, <2>1, Known, Onward DEF Gates, BeforeFallback
  <1> QED BY <1>4, <1>5 DEF BillRound

LEMMA ToolsKeep ==
    ASSUME RunSound, ToolStep
    PROVE  RunSound'
  <1>1. /\ UNCHANGED <<task, marker, buf, entry, memory, stopped>> /\ run.pc = "tools" /\ Fine /\ call' = NoCall
        /\ run' = [run EXCEPT !.pc = "round", !.round = @ + 1]
    BY DEF ToolStep, shared, At
  <1>2. Place("round")
    BY <1>1 DEF RunSound, RunTypes, RunFields, Place, BeforeFallback
  <1>3. UNCHANGED unbilled
    <2>1. PICK talk \in Discussion :
            \E n \in {UnbilledReplies(o) : o \in IF talk = <<>> THEN {<<>>} ELSE Opinions},
               m \in {UnbilledReplies(a) : a \in {<<>>} \cup (IF Civil THEN {} ELSE SubAgent)} :
              unbilled' = unbilled + n + m
      BY DEF ToolStep
    <2>2. \A o \in (IF talk = <<>> THEN {<<>>} ELSE Opinions) : UnbilledReplies(o) = 0
      <3>1. UnbilledReplies(<<>>) = 0
        BY NothingLost
      <3>2. \A o \in Opinions : UnbilledReplies(o) = 0
        BY NothingLost DEF Opinions
      <3> QED BY <3>1, <3>2
    <2>3. \A a \in {<<>>} \cup (IF Civil THEN {} ELSE SubAgent) : UnbilledReplies(a) = 0
      BY ExpertsAreBilled
    <2>4. PICK n, m : n = 0 /\ m = 0 /\ unbilled' = unbilled + n + m
      BY <2>1, <2>2, <2>3
    <2>5. unbilled \in Nat
      BY DEF RunSound, RunTypes
    <2> QED BY <2>4, <2>5
  <1>4. Bills(0) /\ unbilled' = unbilled + 0
    BY <1>1, <1>3, Steady
  <1> QED BY <1>1, <1>2, <1>4, Known, NoText, Onward DEF Gates, BeforeFallback

\* The fallback begins with an empty buffer.
LEMMA FallsBack ==
    ASSUME RunSound, FallBack
    PROVE  RunSound'
  <1>1. /\ UNCHANGED <<task, marker, entry, memory, unbilled, stopped>> /\ Fine /\ call' = NoCall
    BY DEF FallBack, shared
  <1>2. Bills(0) /\ unbilled' = unbilled + 0
    BY <1>1, Steady
  <1>3. PICK p \in {"last", "flash"} : Place(p) /\ (p = "flash" => buf' = <<>>) /\ buf' \in {<<"failure">>, <<>>}
    BY GoesTo DEF FallBack, RunSound, AfterFallback
  <1>4. buf' \in Text /\ Apart(buf') /\ (p = "flash" => "main" \notin Sources(buf'))
    BY <1>3, NamesOfPieces, NoText
  <1> QED BY <1>1, <1>2, <1>3, <1>4, NoText, Onward DEF Gates, BeforeFallback

LEMMA FlashesKeep ==
    ASSUME RunSound, FlashPiece \/ FlashTail
    PROVE  RunSound'
  <1>1. /\ UNCHANGED <<entry, memory, stopped>> /\ run.pc = "flash" /\ Fine
    BY DEF FlashPiece, FlashTail, shared, At
  <1>2. /\ buf \in Text /\ Apart(buf) /\ "main" \notin Sources(buf) /\ call \in CallRows
        /\ Append(buf, "flash") \in Text /\ Apart(Append(buf, "flash"))
        /\ "main" \notin Sources(Append(buf, "flash"))
    BY <1>1, Known, Adds, NamesOfPieces
  <1>3. call' \in CallRows
    BY <1>2, CallGrows, NamesOfPieces DEF FlashPiece, FlashTail
  <1>4. CASE marker /\ StopRun(buf) /\ UNCHANGED buf /\ (Unsettled(call') \/ UNCHANGED unbilled)
    <2>1. Place("resolve")
      BY <1>4, GoesTo DEF RunSound, AfterFallback, StopRun
    <2>2. PICK n : Bills(n) /\ unbilled' = unbilled + n
      <3>1. CASE UNCHANGED unbilled
        BY <1>1, <3>1, Steady
      <3>2. CASE Unsettled(call')
        <4>1. unbilled' = unbilled + Left(call') /\ Left(call') \in Nat
          BY <3>2 DEF Unsettled, Left
        <4>2. Bills(Left(call'))
          BY <1>1, <1>4, <4>1, Known, LostBill
        <4> QED BY <4>1, <4>2
      <3> QED BY <1>4, <3>1, <3>2
    <2> QED BY <1>1, <1>2, <1>3, <1>4, <2>1, <2>2, Known, Ending DEF StopRun
  <1>5. CASE buf' = Append(buf, "flash") /\ UNCHANGED <<task, marker, unbilled>> /\ (UNCHANGED run \/ GoTo("last"))
    <2>1. PICK p \in {"flash", "last"} : Place(p)
      BY <1>1, <1>5, GoesTo DEF Place, RunSound, RunTypes, AfterFallback
    <2>2. Bills(0) /\ unbilled' = unbilled + 0
      BY <1>1, <1>5, Steady
    <2> QED BY <1>1, <1>2, <1>3, <1>5, <2>1, <2>2, Onward DEF Gates, BeforeFallback
  <1> QED BY <1>4, <1>5 DEF FlashPiece, FlashTail

LEMMA FlashFailsKeeps ==
    ASSUME RunSound, FlashFails
    PROVE  RunSound'
  <1>1. /\ UNCHANGED <<entry, memory, call, stopped>> /\ run.pc = "flash" /\ Mishap
    BY DEF FlashFails, shared, context, At
  <1>2. Bills(Left(call)) /\ unbilled' = unbilled + Left(call)
    BY <1>1, LostBill DEF FlashFails, Left, Unsettled
  <1>3. CASE StopRun(buf) /\ UNCHANGED buf
    <2>1. Place("resolve")
      BY <1>3, GoesTo DEF RunSound, AfterFallback, StopRun
    <2> QED BY <1>1, <1>2, <1>3, <2>1, Known, Ending DEF StopRun
  <1>4. CASE GoTo("last") /\ UNCHANGED <<task, marker>> /\ buf' \in {buf, <<"failure">>}
    <2>1. Place("last")
      BY <1>4, GoesTo DEF RunSound, AfterFallback
    <2>2. buf' \in Text /\ Apart(buf')
      BY <1>4, Known, NamesOfPieces
    <2> QED BY <1>1, <1>2, <1>4, <2>1, <2>2, Known, Onward DEF Gates, BeforeFallback
  <1> QED BY <1>3, <1>4 DEF FlashFails

-----------------------------------------------------------------------------
LEMMA AnswersKeep ==
    ASSUME RunSound, FinishAnswer \/ FinishMaxSteps
    PROVE  RunSound'
  <1>1. /\ UNCHANGED <<marker, call, unbilled, stopped>> /\ Fine /\ run.pc \in {"finish", "last"}
    BY DEF FinishAnswer, FinishMaxSteps, context, At
  <1>2. Place("resolve")
    BY GoesTo DEF FinishAnswer, FinishMaxSteps, RunSound, AfterFallback
  <1>3. Bills(0) /\ unbilled' = unbilled + 0
    BY <1>1, Steady
  <1>4. PICK text, allowed : text \in Text /\ Apart(text) /\ FinishText(text, allowed)
    BY Known DEF FinishAnswer, FinishMaxSteps, At, BeforeFallback
  <1>5. PICK final \in {<<"safe">>, <<"sorry">>, text} :
          /\ Finish("completed", final) /\ buf' \in {buf, Append(buf, "safe")}
          /\ IF Live THEN memory' = final /\ entry' \in {entry, final} ELSE UNCHANGED <<memory, entry>>
    BY <1>4 DEF FinishText, Caches
  <1>6. final \in Text /\ Apart(final) /\ buf' \in Text /\ Apart(buf') /\ entry' \in Text /\ Apart(entry')
    BY <1>4, <1>5, Known, Adds, NamesOfPieces
  <1>7. memory' = memory \/ (memory' = final /\ Live)
    BY <1>5
  <1> QED BY <1>1, <1>2, <1>3, <1>5, <1>6, <1>7, Known, Ending

LEMMA ShutDownKeeps ==
    ASSUME RunSound, ShutDownRun
    PROVE  RunSound'
  <1>1. /\ UNCHANGED <<buf, entry, memory, call, stopped>> /\ Mishap /\ marker' = FALSE
        /\ Finish("cancelled", buf)
    BY DEF ShutDownRun, shared, context
  <1>2. Place("release")
    BY GoesTo DEF ShutDownRun, RunSound, AfterFallback
  <1>3. PICK n : Bills(n) /\ unbilled' = unbilled + n
    <2>1. CASE UNCHANGED unbilled
      BY <1>1, <2>1, Steady
    <2>2. CASE Unsettled(call)
      BY <1>1, <2>2, LostBill DEF Unsettled
    <2> QED BY <2>1, <2>2 DEF ShutDownRun
  <1> QED BY <1>1, <1>2, <1>3, Known, Ending

LEMMA ReleasesKeep ==
    ASSUME RunSound, ReleaseRun
    PROVE  RunSound'
  <1>1. /\ UNCHANGED <<task, buf, entry, memory, call, unbilled, stopped>> /\ marker' = FALSE
        /\ (Fine \/ Mishap)
    BY DEF ReleaseRun, context
  <1>2. /\ DOMAIN run' = RunFields /\ run'.pc = "done" /\ run'.token = FALSE
        /\ run'.renews = (run.renews /\ ~run.token)
    BY DEF ReleaseRun, RunSound, RunTypes, RunFields
  <1>3. ~run'.renews
    BY <1>2 DEF RunSound, RenewalKnown
  <1>4. mishaps \in Nat /\ mishaps' \in Nat /\ (mishaps' = 0 => mishaps = 0)
    BY <1>1 DEF RunSound, RunTypes, Fine, Mishap
  <1>5. RunTypes'
    BY <1>1, <1>2, <1>3, <1>4 DEF RunSound, RunTypes
  <1>6. TextsKnown'
    BY <1>1, <1>2 DEF RunSound, TextsKnown, BeforeFallback, AfterFallback, Apart
  <1>7. BillsKnown'
    BY <1>1, <1>2, <1>4 DEF RunSound, BillsKnown
  <1>8. MemoryKnown'
    BY <1>1, <1>2, <1>4 DEF RunSound, MemoryKnown, Gates
  <1> QED BY <1>2, <1>3, <1>5, <1>6, <1>7, <1>8 DEF RunSound, RenewalKnown

\* What the others do to the task and to the cache.
LEMMA OthersKeep ==
    ASSUME RunSound, Others
    PROVE  RunSound'
  <1>1. /\ UNCHANGED <<buf, memory, run, call, unbilled>> /\ (Fine \/ Mishap)
    BY DEF Others, CancelRun, CancelEnds, OtherLocks, OtherEnds, LockLapses, shared, context
  <1>2. mishaps \in Nat /\ mishaps' \in Nat /\ (mishaps' = 0 => mishaps = 0)
    BY <1>1 DEF RunSound, RunTypes, Fine, Mishap
  <1>3. /\ DOMAIN task' = {"status", "result"} /\ task'.result \in {task.result, buf}
        /\ task' = task \/ (Live /\ stopped')
    <2>1. CASE CancelRun
      BY <2>1 DEF CancelRun, RunSound, RunTypes
    <2>2. CASE CancelEnds
      BY <2>2, Known, Finishes DEF CancelEnds, RunSound
    <2>3. CASE OtherLocks \/ OtherEnds \/ LockLapses
      BY <2>3 DEF OtherLocks, OtherEnds, LockLapses, RunSound, RunTypes
    <2> QED BY <2>1, <2>2, <2>3 DEF Others
  <1>4. \/ UNCHANGED <<marker, stopped>>
        \/ ~stopped /\ stopped' = TRUE /\ marker' = TRUE
    BY DEF Others, CancelRun, CancelEnds, OtherLocks, OtherEnds, LockLapses
  <1>5. entry' \in {entry, <<"other">>}
    BY DEF Others, CancelRun, CancelEnds, OtherLocks, OtherEnds, LockLapses, shared
  <1>6. <<"other">> \in Text /\ Apart(<<"other">>)
    BY NamesOfPieces
  <1>7. RunTypes'
    BY <1>1, <1>2, <1>3, <1>4, <1>5, <1>6 DEF RunSound, RunTypes
  <1>8. TextsKnown'
    BY <1>1, <1>3, <1>5, <1>6 DEF RunSound, TextsKnown, Apart
  <1>9. BillsKnown'
    BY <1>1, <1>2, <1>4 DEF RunSound, BillsKnown
  <1>10. MemoryKnown'
    BY <1>1, <1>2, <1>3, <1>4 DEF RunSound, MemoryKnown, Live
  <1>11. RenewalKnown'
    BY <1>1 DEF RunSound, RenewalKnown
  <1> QED BY <1>7, <1>8, <1>9, <1>10, <1>11 DEF RunSound

LEMMA RunStarts == RunInit => RunSound
  <1> SUFFICES ASSUME RunInit PROVE RunSound
    OBVIOUS
  <1>1. RunTypes
    <2>1. DOMAIN run = RunFields /\ run.token \in BOOLEAN /\ run.renews \in BOOLEAN
      BY DEF RunInit, RunFields
    <2>2. DOMAIN task = {"status", "result"} /\ task.result = <<>>
      BY DEF RunInit
    <2>3. {buf, entry, memory, task.result} \subseteq Text /\ call \in CallRows
      BY <2>2, NoText DEF RunInit
    <2> QED BY <2>1, <2>2, <2>3 DEF RunInit, RunTypes
  <1>2. TextsKnown
    BY <1>1, NoText DEF RunInit, TextsKnown, Apart, BeforeFallback, NoCall
  <1>3. BillsKnown /\ MemoryKnown /\ RenewalKnown
    BY DEF RunInit, BillsKnown, MemoryKnown, RenewalKnown, Gates
  <1> QED BY <1>1, <1>2, <1>3 DEF RunSound

LEMMA RunStep == RunSound /\ [RunNext]_runVars => RunSound'
  <1> SUFFICES ASSUME RunSound, [RunNext]_runVars PROVE RunSound'
    OBVIOUS
  <1>1. CASE UNCHANGED runVars
    BY <1>1 DEF runVars, shared, context, RunSound, RunTypes, TextsKnown, BillsKnown, MemoryKnown, RenewalKnown, Live
  <1>2. CASE RunNext
    BY <1>2, StartKeeps, HitKeeps, LocksKeep, WaitsKeep, PassesOn, ToolKeeps, EmitsKeep, SavesKeep, FailuresKeep,
       PreparesKeep, RoundsKeep, StreamsKeep, UsagesKeep, BreaksKeep, BilledKeep, ToolsKeep, FallsBack, FlashesKeep,
       FlashFailsKeeps, AnswersKeep, ShutDownKeeps, ReleasesKeep, OthersKeep DEF RunNext
  <1> QED BY <1>1, <1>2

\* run_agent_task and what it calls: however a run ends, the rebuild lock is left, its
\* calls of a model are billed, a fallback stands alone, and only what the task was
\* completed with is remembered.
THEOREM AlwaysEndsWhole == RunSpec => []RunEndsWhole
  <1>1. RunSound => RunEndsWhole
    <2> SUFFICES ASSUME RunSound PROVE RunEndsWhole
      OBVIOUS
    <2>1. LockIsLeft
      BY DEF LockIsLeft, At, RunSound, RenewalKnown
    <2>2. CallsAreBilled
      BY DEF CallsAreBilled, RunSound, BillsKnown
    <2>3. FallbackStandsAlone
      BY Known DEF FallbackStandsAlone, Apart
    <2>4. RememberedIsCompleted
      BY DEF RememberedIsCompleted, RunSound, MemoryKnown
    <2> QED BY <2>1, <2>2, <2>3, <2>4 DEF RunEndsWhole
  <1> QED BY <1>1, RunStarts, RunStep, PTL DEF RunSpec

-----------------------------------------------------------------------------
(* What the model is told in the rounds of a run.                           *)

Messages == [role : {"system", "old", "user", "asst", "tool", "talk"}, tools : Nat]

\* Calls and answers go together: this holds of every piece a context is made of, while
\* ToolsFollowCalls says it of the whole.
Follow(ms) ==
    /\ ms \in Seq(Messages)
    /\ \A i \in 1..Len(ms) :
         /\ ms[i].tools > 0 => ms[i].role = "asst"
         /\ i + ms[i].tools <= Len(ms)
         /\ \A j \in (i + 1)..(i + ms[i].tools) : ms[j].role = "tool"
         /\ ms[i].role = "tool" => \E j \in 1..(i - 1) : i <= j + ms[j].tools

\* Where there is a context.
InRounds == {"round", "stream", "bill", "tools"}

\* The first message is kept when the history is compressed, so it has no answers behind it.
MessagesKnown ==
    /\ Follow(messages)
    /\ messages # <<>> => messages[1].tools = 0
    /\ run.pc \in InRounds => messages # <<>>

\* Messages without tools, on either side of a call.
LEMMA PlainFollow ==
    ASSUME NEW ms \in Seq(Messages), \A i \in 1..Len(ms) : ms[i].tools = 0 /\ ms[i].role # "tool"
    PROVE  Follow(ms)
  <1>1. Len(ms) \in Nat
    BY LenProperties
  <1> QED BY <1>1 DEF Follow

\* Two contexts one after the other.
LEMMA JoinedFollow ==
    ASSUME NEW a, NEW b, Follow(a), Follow(b)
    PROVE  Follow(a \o b)
  <1> DEFINE c == a \o b
             n == Len(a)
             m == Len(b)
  <1>1. /\ n \in Nat /\ m \in Nat /\ a \in Seq(Messages) /\ b \in Seq(Messages)
        /\ \A i \in 1..n : a[i] \in Messages
        /\ \A i \in 1..m : b[i] \in Messages
    BY LenProperties DEF Follow
  <1>2. /\ c \in Seq(Messages) /\ Len(c) = n + m
        /\ \A i \in 1..(n + m) : c[i] = IF i <= n THEN a[i] ELSE b[i - n]
    BY <1>1, ConcatProperties
  <1>3. /\ \A i \in 1..n : i \in 1..(n + m) /\ c[i] = a[i]
        /\ \A i \in 1..m : n + i \in 1..(n + m) /\ c[n + i] = b[i]
        /\ \A i \in 1..(n + m) : i \in 1..n \/ \E k \in 1..m : i = n + k
    <2>1. ASSUME NEW i \in 1..(n + m), i \notin 1..n
          PROVE  \E k \in 1..m : i = n + k
      <3>1. i - n \in 1..m /\ i = n + (i - n)
        BY <1>1, <2>1
      <3> QED BY <3>1
    <2>2. ASSUME NEW i \in 1..m
          PROVE  n + i \in 1..(n + m) /\ c[n + i] = b[i]
      <3>1. n + i \in 1..(n + m) /\ ~(n + i <= n) /\ (n + i) - n = i
        BY <1>1
      <3> QED BY <1>2, <3>1
    <2>3. ASSUME NEW i \in 1..n
          PROVE  i \in 1..(n + m) /\ c[i] = a[i]
      <3>1. i \in 1..(n + m) /\ i <= n
        BY <1>1
      <3> QED BY <1>2, <3>1
    <2> QED BY <2>1, <2>2, <2>3
  <1>a. /\ \A i \in 1..n : /\ a[i].tools > 0 => a[i].role = "asst"
                           /\ i + a[i].tools <= n
                           /\ \A j \in (i + 1)..(i + a[i].tools) : a[j].role = "tool"
                           /\ a[i].role = "tool" => \E j \in 1..(i - 1) : i <= j + a[j].tools
        /\ \A i \in 1..m : /\ b[i].tools > 0 => b[i].role = "asst"
                           /\ i + b[i].tools <= m
                           /\ \A j \in (i + 1)..(i + b[i].tools) : b[j].role = "tool"
                           /\ b[i].role = "tool" => \E j \in 1..(i - 1) : i <= j + b[j].tools
    BY DEF Follow
  <1> HIDE DEF c, n, m
  <1>4. ASSUME NEW i \in 1..n
        PROVE  /\ c[i].tools > 0 => c[i].role = "asst"
               /\ i + c[i].tools <= n + m
               /\ \A j \in (i + 1)..(i + c[i].tools) : c[j].role = "tool"
               /\ c[i].role = "tool" => \E j \in 1..(i - 1) : i <= j + c[j].tools
    <2>1. c[i] = a[i] /\ a[i].tools \in Nat
      BY <1>1, <1>3 DEF Messages
    <2>2. ASSUME NEW j \in (i + 1)..(i + c[i].tools)
          PROVE  c[j].role = "tool"
      <3>1. j \in 1..n
        BY <1>1, <1>a, <2>1
      <3> QED BY <1>3, <1>a, <2>1, <3>1
    <2>3. ASSUME c[i].role = "tool"
          PROVE  \E j \in 1..(i - 1) : i <= j + c[j].tools
      <3>1. PICK j \in 1..(i - 1) : i <= j + a[j].tools
        BY <1>a, <2>1, <2>3
      <3>2. j \in 1..n
        BY <1>1
      <3> QED BY <1>3, <3>1, <3>2
    <2> QED BY <1>1, <1>a, <2>1, <2>2, <2>3
  <1>5. ASSUME NEW k \in 1..m, NEW i, i = n + k
        PROVE  /\ c[i].tools > 0 => c[i].role = "asst"
               /\ i + c[i].tools <= n + m
               /\ \A j \in (i + 1)..(i + c[i].tools) : c[j].role = "tool"
               /\ c[i].role = "tool" => \E j \in 1..(i - 1) : i <= j + c[j].tools
    <2>1. c[i] = b[k] /\ b[k].tools \in Nat
      BY <1>1, <1>3, <1>5 DEF Messages
    <2>2. ASSUME NEW j \in (i + 1)..(i + c[i].tools)
          PROVE  c[j].role = "tool"
      <3> DEFINE t == b[k].tools
      <3>0. k + t <= m /\ j \in (i + 1)..(i + t) /\ t \in Nat /\ n \in Nat /\ m \in Nat
        BY <1>1, <1>a, <2>1
      <3> HIDE DEF t
      <3>1. j - n \in (k + 1)..(k + t) /\ j - n \in 1..m /\ j = n + (j - n)
        BY <1>5, <3>0
      <3> USE DEF t
      <3>2. c[j] = b[j - n]
        BY <1>3, <3>1
      <3> QED BY <1>a, <3>1, <3>2
    <2>3. ASSUME c[i].role = "tool"
          PROVE  \E j \in 1..(i - 1) : i <= j + c[j].tools
      <3>1. PICK j \in 1..(k - 1) : k <= j + b[j].tools
        BY <1>a, <2>1, <2>3
      <3>2. j \in 1..m /\ n + j \in 1..(i - 1)
        BY <1>1, <1>5
      <3>3. c[n + j] = b[j] /\ b[j].tools \in Nat
        BY <1>1, <1>3, <3>2 DEF Messages
      <3>4. i <= (n + j) + c[n + j].tools
        <4> DEFINE t == b[j].tools
        <4>1. t \in Nat /\ k <= j + t /\ n \in Nat /\ j \in Nat /\ k \in Nat /\ i = n + k
          BY <1>1, <1>5, <3>1, <3>2, <3>3
        <4> HIDE DEF t
        <4>2. i <= (n + j) + t
          BY <4>1
        <4> QED BY <3>3, <4>2 DEF t
      <3> QED BY <3>2, <3>4
    <2> QED BY <1>1, <1>5, <1>a, <2>1, <2>2, <2>3
  <1>6. \A i \in 1..(n + m) :
          /\ c[i].tools > 0 => c[i].role = "asst"
          /\ i + c[i].tools <= n + m
          /\ \A j \in (i + 1)..(i + c[i].tools) : c[j].role = "tool"
          /\ c[i].role = "tool" => \E j \in 1..(i - 1) : i <= j + c[j].tools
    BY <1>3, <1>4, <1>5
  <1>7. Follow(c)
    BY <1>2, <1>6 DEF Follow
  <1> QED BY <1>7 DEF c

\* The last messages, from one that is no answer of a tool.
LEMMA LastFollow ==
    ASSUME NEW ms, Follow(ms), NEW from \in 1..Len(ms), ms[from].role # "tool"
    PROVE  Follow(SubSeq(ms, from, Len(ms)))
  <1> DEFINE c == SubSeq(ms, from, Len(ms))
             n == Len(ms)
             o == from - 1
  <1>1. /\ n \in Nat /\ from \in Int /\ o \in Nat /\ o < n
        /\ \A i \in 1..n : ms[i] \in Messages
    BY LenProperties DEF Follow
  <1>2. /\ c \in Seq(Messages) /\ Len(c) = n - o
        /\ \A i \in 1..(n - o) : c[i] = ms[o + i]
    <2>1. \A i \in from..n : ms[i] \in Messages
      BY <1>1
    <2>2. /\ c \in Seq(Messages) /\ Len(c) = IF from <= n THEN n - from + 1 ELSE 0
          /\ \A i \in 1..(n - from + 1) : c[i] = ms[from + i - 1]
      BY <1>1, <2>1, SubSeqProperties
    <2>3. n - from + 1 = n - o /\ from <= n /\ \A i \in Int : from + i - 1 = o + i
      BY <1>1
    <2> HIDE DEF c, n, o
    <2>4. Len(c) = n - o
      BY <2>2, <2>3
    <2>5. ASSUME NEW i \in 1..(n - o)
          PROVE  c[i] = ms[o + i]
      <3>1. i \in 1..(n - from + 1) /\ i \in Int
        BY <2>3
      <3> QED BY <2>2, <2>3, <3>1
    <2> QED BY <2>2, <2>4, <2>5
  <1>a. \A i \in 1..n : /\ ms[i].tools > 0 => ms[i].role = "asst"
                        /\ i + ms[i].tools <= n
                        /\ \A j \in (i + 1)..(i + ms[i].tools) : ms[j].role = "tool"
                        /\ ms[i].role = "tool" => \E j \in 1..(i - 1) : i <= j + ms[j].tools
    BY DEF Follow
  <1> HIDE DEF c, n
  <1>3. ASSUME NEW i \in 1..(n - o)
        PROVE  /\ c[i].tools > 0 => c[i].role = "asst"
               /\ i + c[i].tools <= n - o
               /\ \A j \in (i + 1)..(i + c[i].tools) : c[j].role = "tool"
               /\ c[i].role = "tool" => \E j \in 1..(i - 1) : i <= j + c[j].tools
    <2>1. o + i \in 1..n /\ c[i] = ms[o + i] /\ ms[o + i].tools \in Nat
      <3>1. o + i \in 1..n
        BY <1>1
      <3> QED BY <1>1, <1>2, <3>1 DEF Messages
    <2>2. ASSUME NEW j \in (i + 1)..(i + c[i].tools)
          PROVE  c[j].role = "tool"
      <3>1. o + j \in ((o + i) + 1)..((o + i) + ms[o + i].tools) /\ j \in 1..(n - o)
        BY <1>1, <1>a, <2>1
      <3>2. c[j] = ms[o + j]
        BY <1>2, <3>1
      <3> QED BY <1>a, <2>1, <3>1, <3>2
    <2>3. ASSUME c[i].role = "tool"
          PROVE  \E j \in 1..(i - 1) : i <= j + c[j].tools
      <3>1. PICK j \in 1..((o + i) - 1) : o + i <= j + ms[j].tools
        BY <1>a, <2>1, <2>3
      <3>2. j \in 1..n /\ ms[j].tools \in Nat
        <4>1. j \in 1..n
          BY <1>1, <2>1
        <4> QED BY <1>1, <4>1 DEF Messages
      <3>3. j >= from
        <4> SUFFICES ASSUME j < from
                     PROVE  FALSE
          BY <1>1, <3>2
        <4> DEFINE t == ms[j].tools
        <4>0. from <= o + i /\ o + i <= j + t /\ j \in Nat /\ t \in Nat /\ from \in Nat
          BY <1>1, <2>1, <3>1, <3>2
        <4> HIDE DEF t
        <4>1. from \in (j + 1)..(j + t)
          <5> HIDE DEF o
          <5>1. from <= j + t
            <6>1. o + i \in Int
              BY <1>1
            <6> QED BY <4>0, <6>1
          <5> QED BY <4>0, <5>1
        <4> QED BY <1>a, <3>2, <4>1 DEF t
      <3>4. j - o \in 1..(i - 1) /\ j - o \in 1..(n - o) /\ o + (j - o) = j
        <4>1. j \in Int /\ o \in Int /\ i \in Int /\ n \in Int /\ o < j /\ j < o + i /\ j <= n
          BY <1>1, <3>2, <3>3
        <4> HIDE DEF o
        <4> QED BY <4>1
      <3>5. c[j - o] = ms[j]
        BY <1>2, <3>4
      <3>6. i <= (j - o) + c[j - o].tools
        BY <1>1, <3>1, <3>2, <3>4, <3>5
      <3> QED BY <3>4, <3>6
    <2>4. i + c[i].tools <= n - o
      <3> DEFINE t == c[i].tools
      <3>1. (o + i) + t <= n /\ t \in Nat
        BY <1>a, <2>1
      <3> HIDE DEF t
      <3>2. i + t <= n - o
        BY <1>1, <3>1
      <3> QED BY <3>2 DEF t
    <2>5. c[i].tools > 0 => c[i].role = "asst"
      BY <1>a, <2>1
    <2> QED BY <2>2, <2>3, <2>4, <2>5
  <1>4. Follow(c)
    BY <1>2, <1>3 DEF Follow
  <1> QED BY <1>4 DEF c, n

\* What is picked of messages are messages.
LEMMA PickedMessages ==
    ASSUME NEW ms \in Seq(Messages), NEW I \in SUBSET (1..Len(ms))
    PROVE  Picked(ms, I) \in Seq(Messages) /\ Len(Picked(ms, I)) = Cardinality(I)
  <1> DEFINE p == Picked(ms, I)
             n == Cardinality(I)
  <1>1. Len(ms) \in Nat /\ \A i \in 1..Len(ms) : ms[i] \in Messages
    BY LenProperties
  <1>2. n \in Nat /\ DOMAIN p = 1..n /\ \A k \in 1..n : \E i \in I : p[k] = ms[i]
    <2> DEFINE l == Len(ms)
    <2>1. l \in Nat /\ I \in SUBSET (1..l)
      BY <1>1
    <2> HIDE DEF l
    <2>2. Picks(ms, I)
      BY <2>1, PickedIs
    <2> QED BY <2>2 DEF Picks
  <1>3. \A k \in 1..n : p[k] \in Messages
    BY <1>1, <1>2
  <1>4. p = [k \in 1..n |-> p[k]]
    BY DEF Picked
  <1> HIDE DEF p, n
  <1>5. p \in [1..n -> Messages]
    BY <1>3, <1>4
  <1>6. p \in Seq(Messages) /\ Len(p) = n
    BY <1>2, <1>5, IsASeq
  <1> QED BY <1>6 DEF p, n

\* Between a call and its answers there is no summary, so what is left has them together.
LEMMA RestFollows ==
    ASSUME NEW ms, Follow(ms), ms # <<>>, ms[1].tools = 0
    PROVE  Follow(Rest(ms))
  <1> DEFINE n == Len(ms)
             I == {i \in 2..n : ms[i] # Says("old")}
             c == Rest(ms)
             m == Cardinality(I)
             At0(i) == RankIn(I, i)
  <1>1. n \in Nat /\ ms \in Seq(Messages) /\ \A i \in 1..n : ms[i] \in Messages
    BY LenProperties DEF Follow
  <1>2. I \in SUBSET (1..n) /\ \A i \in I : i \in 2..n /\ ms[i] # Says("old")
    BY <1>1
  <1>3. c = Picked(ms, I) /\ c \in Seq(Messages) /\ Len(c) = m /\ m \in Nat
    BY <1>1, <1>2, PickedMessages, LenProperties DEF Rest
  <1>4. /\ \A i \in I : RankIn(I, i) \in 1..m /\ c[RankIn(I, i)] = ms[i]
        /\ \A k \in 1..m : \E i \in I : RankIn(I, i) = k
        /\ \A i, j \in I : i < j => RankIn(I, i) < RankIn(I, j)
    <2> HIDE DEF I, n, c
    <2>1. Picks(ms, I)
      BY <1>1, <1>2, PickedIs
    <2> QED BY <1>3, <2>1 DEF Picks, m
  <1>a. \A i \in 1..n : /\ ms[i].tools > 0 => ms[i].role = "asst"
                        /\ i + ms[i].tools <= n
                        /\ \A j \in (i + 1)..(i + ms[i].tools) : ms[j].role = "tool"
                        /\ ms[i].role = "tool" => \E j \in 1..(i - 1) : i <= j + ms[j].tools
    BY DEF Follow
  <1>5. \A i \in 2..n : ms[i].role # "old" => i \in I
    BY DEF Says
  <1> HIDE DEF n, I, c, m
  \* A message and its answers are picked together.
  <1>6. ASSUME NEW i \in I, NEW d \in 0..ms[i].tools
        PROVE  /\ i + d \in I /\ RankIn(I, i + d) = RankIn(I, i) + d
               /\ i \in Nat /\ ms[i].tools \in Nat /\ RankIn(I, i) \in Nat
    <2>1. i \in 2..n /\ i \in 1..n /\ i \in Nat /\ ms[i].tools \in Nat
      BY <1>1, <1>2 DEF Messages
    <2>2. ASSUME NEW j \in (i + 1)..(i + d)
          PROVE  j \in I
      <3>1. j \in (i + 1)..(i + ms[i].tools) /\ i + ms[i].tools <= n
        BY <1>a, <2>1
      <3>2. ms[j].role = "tool" /\ j \in 2..n
        BY <1>1, <1>a, <2>1, <3>1
      <3> QED BY <1>5, <3>2
    <2>3. i + d \in I
      <3>1. CASE d = 0
        BY <2>1, <3>1
      <3>2. CASE d # 0
        <4>1. i + d \in (i + 1)..(i + d)
          BY <2>1, <3>2
        <4> QED BY <2>2, <4>1
      <3> QED BY <3>1, <3>2
    <2>4. d \in Nat /\ (i + 1)..(i + d) \subseteq I
      BY <2>1, <2>2
    <2>5. RankIn(I, i + d) = RankIn(I, i) + d
      BY <1>1, <1>2, <2>1, <2>4, RankRises
    <2> QED BY <1>4, <2>1, <2>3, <2>5
  <1>7. ASSUME NEW k \in 1..m
        PROVE  /\ c[k].tools > 0 => c[k].role = "asst"
               /\ k + c[k].tools <= m
               /\ \A j \in (k + 1)..(k + c[k].tools) : c[j].role = "tool"
               /\ c[k].role = "tool" => \E j \in 1..(k - 1) : k <= j + c[j].tools
    <2>1. PICK i \in I : RankIn(I, i) = k
      BY <1>4
    <2>2. c[k] = ms[i] /\ i \in 1..n /\ i \in 2..n /\ ms[i].tools \in Nat
      BY <1>1, <1>2, <1>4, <2>1 DEF Messages
    <2>3. k + c[k].tools <= m
      <3>1. ms[i].tools \in 0..ms[i].tools
        BY <2>2
      <3>2. i + ms[i].tools \in I /\ RankIn(I, i + ms[i].tools) = RankIn(I, i) + ms[i].tools
        BY <1>6, <3>1
      <3>3. RankIn(I, i + ms[i].tools) \in 1..m
        BY <1>4, <3>2
      <3> QED BY <2>1, <2>2, <3>2, <3>3
    <2>4. ASSUME NEW j \in (k + 1)..(k + c[k].tools)
          PROVE  c[j].role = "tool"
      <3> DEFINE d == j - k
      <3>1. d \in 1..ms[i].tools /\ d \in 0..ms[i].tools /\ k + d = j
        BY <2>2
      <3>2. i + d \in I /\ RankIn(I, i + d) = k + d
        BY <1>6, <2>1, <3>1
      <3>3. c[j] = ms[i + d]
        BY <1>4, <3>1, <3>2
      <3>4. i + d \in (i + 1)..(i + ms[i].tools)
        BY <2>2, <3>1
      <3>5. ms[i + d].role = "tool"
        BY <1>a, <2>2, <3>4
      <3> QED BY <3>3, <3>5
    <2>5. ASSUME c[k].role = "tool"
          PROVE  \E j \in 1..(k - 1) : k <= j + c[j].tools
      <3>1. PICK j \in 1..(i - 1) : i <= j + ms[j].tools
        BY <1>a, <2>2, <2>5
      <3>2. j \in 1..n /\ j < i /\ ms[j].tools \in Nat
        <4>1. j \in 1..n /\ j < i
          BY <1>1, <2>2
        <4> QED BY <1>1, <4>1 DEF Messages
      <3>3. j # 1 /\ ms[j].tools > 0
        BY <2>2, <3>1, <3>2
      <3>4. j \in I
        <4>1. ms[j].role = "asst" /\ j \in 2..n
          BY <1>1, <1>a, <3>2, <3>3
        <4> QED BY <1>5, <4>1
      <3>5. i - j \in 0..ms[j].tools /\ j + (i - j) = i
        BY <2>2, <3>1, <3>2
      <3>6. RankIn(I, i) = RankIn(I, j) + (i - j)
        BY <1>6, <3>4, <3>5
      <3>7. /\ RankIn(I, j) \in 1..m /\ c[RankIn(I, j)] = ms[j]
            /\ RankIn(I, j) < RankIn(I, i)
        BY <1>4, <3>2, <3>4
      <3>8. RankIn(I, j) \in 1..(k - 1) /\ k <= RankIn(I, j) + c[RankIn(I, j)].tools
        BY <2>1, <2>2, <3>2, <3>5, <3>6, <3>7
      <3> QED BY <3>8
    <2>6. c[k].tools > 0 => c[k].role = "asst"
      BY <1>a, <2>2
    <2> QED BY <2>3, <2>4, <2>5, <2>6
  <1>8. Follow(c)
    BY <1>3, <1>7 DEF Follow
  <1> QED BY <1>8 DEF c

\* The pieces that have no tools.
LEMMA PiecesFollow ==
    ASSUME NEW ms, Follow(ms), ms # <<>>, ms[1].tools = 0
    PROVE  /\ Follow(<<Head(ms)>>) /\ Follow(Summaries(ms)) /\ Follow(<<Says("old")>>)
           /\ Head(ms) = ms[1]
  <1>1. ms \in Seq(Messages) /\ Len(ms) \in Nat /\ Len(ms) # 0
    BY EmptySeq, LenProperties DEF Follow
  <1>2. ms[1] \in Messages /\ Head(ms) = ms[1] /\ ms[1].role # "tool"
    <2>1. 1 \in 1..Len(ms) /\ 1..(1 - 1) = {}
      BY <1>1
    <2>2. ms[1] \in Messages
      BY <1>1, <2>1, ElementOfSeq
    <2>3. ms[1].role # "tool"
      BY <2>1 DEF Follow
    <2> QED BY <1>1, <2>2, <2>3
  <1>3. ASSUME NEW x \in Messages, x.tools = 0, x.role # "tool"
        PROVE  Follow(<<x>>)
    <2>1. <<x>> \in Seq(Messages) /\ Len(<<x>>) = 1 /\ <<x>>[1] = x
      OBVIOUS
    <2>2. \A i \in 1..Len(<<x>>) : i = 1
      BY <2>1
    <2> QED BY <1>3, <2>1, <2>2, PlainFollow
  <1>4. Says("old") \in Messages /\ Says("old").tools = 0 /\ Says("old").role # "tool"
    BY DEF Says, Messages
  <1>5. Follow(Summaries(ms))
    <2> DEFINE I == {i \in DOMAIN ms : ms[i] = Says("old")}
    <2>1. I \in SUBSET (1..Len(ms))
      BY <1>1, LenProperties
    <2>2. Picked(ms, I) \in Seq(Messages) /\ Len(Picked(ms, I)) = Cardinality(I)
      BY <1>1, <2>1, PickedMessages
    <2>3. Picks(ms, I)
      BY <1>1, <2>1, PickedIs
    <2>4. \A k \in 1..Cardinality(I) : Picked(ms, I)[k] = Says("old")
      BY <2>3 DEF Picks
    <2> QED BY <1>4, <2>2, <2>4, PlainFollow DEF Summaries
  <1> QED BY <1>2, <1>3, <1>4, <1>5

\* compress_message_history never parts a call from its answers.
LEMMA CompressedFollows ==
    ASSUME NEW ms, Follow(ms), ms # <<>>, ms[1].tools = 0
    PROVE  Follow(Compressed(ms)) /\ Compressed(ms) # <<>> /\ Compressed(ms)[1].tools = 0
  <1> DEFINE rest == Rest(ms)
             F == {0} \cup {i \in 1..Len(rest) - MaxMessages + 1 : rest[i] # Says("tool")}
             from == Max(F)
             cut == <<Head(ms)>> \o Summaries(ms) \o <<Says("old")>> \o SubSeq(rest, from, Len(rest))
             same == Len(ms) <= MaxMessages \/ Len(rest) <= MaxMessages \/ from <= 1
  <1>1. Compressed(ms) = IF same THEN ms ELSE cut
    BY DEF Compressed
  <1>2. Follow(rest) /\ Len(rest) \in Nat
    BY RestFollows, LenProperties DEF Follow
  <1> HIDE DEF rest
  <1>3. CASE same
    BY <1>1, <1>3
  <1>4. CASE ~same
    <2>1. from \in F
      <3>1. F \subseteq Nat /\ F # {}
        OBVIOUS
      <3> DEFINE b == Len(rest) + 1
      <3>2. IsFiniteSet(F)
        <4>1. IsFiniteSet(0..b)
          BY <1>2, FS_Interval
        <4>2. F \subseteq 0..b
          BY <1>2, RunAssumption
        <4> QED BY <4>1, <4>2, FS_Subset
      <3>3. \E x \in F : \A y \in F : x >= y
        <4>1. F \in SUBSET Nat /\ \A x \in F : x <= b /\ x \in Nat
          BY <1>2, RunAssumption
        <4> DEFINE T == {b - x : x \in F}
        <4>2. T \in SUBSET Nat /\ T # {}
          BY <1>2, <3>1, <4>1
        <4> HIDE DEF F
        <4>3. PICK t \in T : \A u \in T : t <= u
          <5> HIDE DEF T
          <5> QED BY <4>2, LeastNat
        <4>4. PICK x \in F : t = b - x
          OBVIOUS
        <4>5. ASSUME NEW y \in F
              PROVE  x >= y
          <5>1. b - y \in T
            OBVIOUS
          <5>2. b - x <= b - y
            BY <4>3, <4>4, <5>1
          <5> QED BY <1>2, <4>1, <5>2
        <4> QED BY <4>5
      <3> QED BY <3>3 DEF Max
    <2>2. from \in 1..Len(rest) /\ rest[from] # Says("tool")
      <3>1. from \in 1..Len(rest) - MaxMessages + 1 /\ rest[from] # Says("tool")
        BY <1>4, <2>1
      <3> HIDE DEF from
      <3> QED BY <1>2, <3>1, RunAssumption
    <2> HIDE DEF from
    <2>3. rest[from].role # "tool"
      <3>1. rest[from] \in Messages
        BY <1>2, <2>2, ElementOfSeq DEF Follow
      <3>2. rest[from].role = "tool" => ~(rest[from].tools > 0)
        BY <1>2, <2>2 DEF Follow
      <3>3. rest[from].tools \in Nat /\ rest[from] = [role |-> rest[from].role, tools |-> rest[from].tools]
        BY <3>1 DEF Messages
      <3>4. rest[from].role = "tool" => rest[from].tools = 0
        BY <3>2, <3>3
      <3> QED BY <2>2, <3>3, <3>4 DEF Says
    <2>4. Follow(SubSeq(rest, from, Len(rest)))
      BY <1>2, <2>2, <2>3, LastFollow
    <2>5. Follow(cut)
      BY <2>4, PiecesFollow, JoinedFollow
    <2>6. cut # <<>> /\ cut[1] = ms[1]
      <3> DEFINE a == <<Head(ms)>> \o Summaries(ms)
                 b == a \o <<Says("old")>>
                 d == SubSeq(rest, from, Len(rest))
      <3>1. /\ <<Head(ms)>> \in Seq(Messages) /\ Summaries(ms) \in Seq(Messages)
            /\ <<Says("old")>> \in Seq(Messages) /\ d \in Seq(Messages)
            /\ Len(<<Head(ms)>>) = 1 /\ <<Head(ms)>>[1] = ms[1]
        BY <2>4, PiecesFollow DEF Follow
      <3>2. ASSUME NEW s \in Seq(Messages), NEW t \in Seq(Messages), Len(s) > 0
            PROVE  s \o t \in Seq(Messages) /\ Len(s \o t) > 0 /\ (s \o t)[1] = s[1]
        BY <3>2, ConcatProperties, LenProperties
      <3>3. a \in Seq(Messages) /\ Len(a) > 0 /\ a[1] = ms[1]
        BY <3>1, <3>2
      <3> HIDE DEF a
      <3>4. b \in Seq(Messages) /\ Len(b) > 0 /\ b[1] = ms[1]
        BY <3>1, <3>2, <3>3
      <3> HIDE DEF b, d
      <3>5. cut = b \o d
        BY DEF a, b, d
      <3>6. b \o d \in Seq(Messages) /\ Len(b \o d) > 0 /\ (b \o d)[1] = ms[1]
        BY <3>1, <3>2, <3>4
      <3> QED BY <3>5, <3>6, EmptySeq
    <2> QED BY <1>1, <1>4, <2>5, <2>6
  <1> QED BY <1>3, <1>4

-----------------------------------------------------------------------------
\* A round of tools: the message of the model, an answer for each of its calls, and what the
\* experts make of them.
LEMMA AnswersFollow ==
    ASSUME NEW n \in Nat, NEW talk \in Discussion
    PROVE  /\ Follow(<<[role |-> "asst", tools |-> n]>> \o [i \in 1..n |-> Says("tool")])
           /\ Follow(talk)
  <1> DEFINE a == <<[role |-> "asst", tools |-> n]>>
             b == [i \in 1..n |-> Says("tool")]
             c == a \o b
  <1>1. a \in Seq(Messages) /\ Len(a) = 1 /\ a[1] = [role |-> "asst", tools |-> n]
    <2>1. [role |-> "asst", tools |-> n] \in Messages
      BY DEF Messages
    <2> QED BY <2>1
  <1>2. b \in Seq(Messages) /\ Len(b) = n /\ \A i \in 1..n : b[i] = Says("tool")
    <2>1. Says("tool") \in Messages
      BY DEF Messages, Says
    <2>2. b \in [1..n -> Messages]
      BY <2>1
    <2> QED BY <2>2
  <1>3. Says("tool").role = "tool" /\ Says("tool").tools = 0
    BY DEF Says
  <1> HIDE DEF a, b
  <1>4. /\ c \in Seq(Messages) /\ Len(c) = 1 + n
        /\ \A i \in 1..(1 + n) : c[i] = IF i <= 1 THEN a[i] ELSE b[i - 1]
    <2>1. /\ c \in Seq(Messages) /\ Len(c) = Len(a) + Len(b)
          /\ \A i \in 1..(Len(a) + Len(b)) : c[i] = IF i <= Len(a) THEN a[i] ELSE b[i - Len(a)]
      BY <1>1, <1>2, ConcatProperties
    <2> HIDE DEF c
    <2> QED BY <1>1, <1>2, <2>1
  <1>5. c[1].role = "asst" /\ c[1].tools = n
    BY <1>1, <1>4
  <1>6. ASSUME NEW i \in 2..(1 + n)
        PROVE  c[i].role = "tool" /\ c[i].tools = 0
    <2>1. i \in 1..(1 + n) /\ ~(i <= 1) /\ i - 1 \in 1..n
      OBVIOUS
    <2> QED BY <1>2, <1>3, <1>4, <2>1
  <1> HIDE DEF c
  <1>7. ASSUME NEW i \in 1..(1 + n)
        PROVE  /\ c[i].tools > 0 => c[i].role = "asst"
               /\ i + c[i].tools <= 1 + n
               /\ \A j \in (i + 1)..(i + c[i].tools) : c[j].role = "tool"
               /\ c[i].role = "tool" => \E j \in 1..(i - 1) : i <= j + c[j].tools
    <2>1. CASE i = 1
      <3>1. (i + 1)..(i + c[i].tools) = 2..(1 + n)
        BY <1>5, <2>1
      <3> QED BY <1>5, <1>6, <2>1, <3>1
    <2>2. CASE i # 1
      <3>1. i \in 2..(1 + n)
        BY <2>2
      <3>2. (i + 1)..(i + 0) = {} /\ i + 0 <= 1 + n /\ 1 \in 1..(i - 1) /\ i <= 1 + n
        BY <3>1
      <3> QED BY <1>5, <1>6, <3>1, <3>2
    <2> QED BY <2>1, <2>2
  <1>8. Follow(c)
    <2>1. c \in Seq(Messages) /\ Len(c) = 1 + n
      BY <1>4
    <2> QED BY <1>7, <2>1 DEF Follow
  <1>9. Follow(talk)
    <2>1. CASE talk = <<>>
      <3>1. <<>> \in Seq(Messages) /\ Len(<<>>) = 0
        OBVIOUS
      <3> QED BY <2>1, <3>1 DEF Follow
    <2>2. CASE talk = <<Says("talk")>>
      <3>1. Says("talk") \in Messages /\ Says("talk").tools = 0 /\ Says("talk").role # "tool"
        BY DEF Messages, Says
      <3>2. /\ <<Says("talk")>> \in Seq(Messages) /\ Len(<<Says("talk")>>) = 1
            /\ <<Says("talk")>>[1] = Says("talk")
        BY <3>1
      <3>3. \A i \in 1..Len(<<Says("talk")>>) : i = 1
        BY <3>2
      <3> QED BY <2>2, <3>1, <3>2, <3>3, PlainFollow
    <2> QED BY <2>1, <2>2 DEF Discussion
  <1> QED BY <1>8, <1>9 DEF a, b, c

\* The context of each round, with what the last one added.
LEMMA MessagesStart == RunInit => MessagesKnown
  <1>1. Follow(<<>>)
    <2>1. <<>> \in Seq(Messages) /\ Len(<<>>) = 0
      OBVIOUS
    <2> QED BY <2>1 DEF Follow
  <1> QED BY <1>1 DEF RunInit, MessagesKnown, InRounds

\* Every prompt is a context.
LEMMA PromptsFollow ==
    ASSUME NEW p \in Prompts
    PROVE  Follow(p) /\ p # <<>> /\ p[1].tools = 0
  <1> DEFINE Plain == [role : {"system", "old", "user", "asst"}, tools : {0}]
  <1>1. p # <<>> /\ p \in Seq(Plain)
    BY RunAssumption
  <1>2. Len(p) \in Nat \ {0} /\ \A i \in 1..Len(p) : p[i] \in Plain
    BY <1>1, EmptySeq, LenProperties
  <1>3. Plain \subseteq Messages
    BY DEF Messages
  <1>4. p \in Seq(Messages)
    BY <1>1, <1>3, SeqMonotonic
  <1>5. \A i \in 1..Len(p) : p[i].tools = 0 /\ p[i].role # "tool"
    BY <1>2
  <1>6. 1 \in 1..Len(p)
    BY <1>2
  <1> QED BY <1>1, <1>4, <1>5, <1>6, PlainFollow

LEMMA ToolStepFollows ==
    ASSUME MessagesKnown, ToolStep, call.tools \in Nat
    PROVE  Follow(messages') /\ messages' # <<>> /\ messages'[1].tools = 0
  <1>1. PICK talk \in Discussion :
          messages' = messages \o <<[role |-> "asst", tools |-> call.tools]>>
                               \o [i \in 1..call.tools |-> Says("tool")] \o talk
    BY DEF ToolStep
  <1> DEFINE a == <<[role |-> "asst", tools |-> call.tools]>>
             b == [i \in 1..call.tools |-> Says("tool")]
             c == a \o b
             d == messages \o c
  <1>2. Follow(c) /\ Follow(talk)
    BY AnswersFollow
  <1>3. Follow(messages) /\ messages # <<>> /\ messages[1].tools = 0
    BY DEF MessagesKnown, ToolStep, At, InRounds
  <1>4. a \in Seq(Messages) /\ b \in Seq(Messages) /\ messages \in Seq(Messages) /\ talk \in Seq(Messages)
    <2>1. [role |-> "asst", tools |-> call.tools] \in Messages /\ Says("tool") \in Messages
      BY DEF Messages, Says
    <2>2. b \in [1..call.tools -> Messages]
      BY <2>1
    <2> QED BY <1>2, <1>3, <2>1, <2>2 DEF Follow
  <1>5. messages' = d \o talk
    <2> HIDE DEF a, b
    <2>1. (messages \o a) \o b = messages \o (a \o b)
      <3>1. \A x, y, z \in Seq(Messages) : (x \o y) \o z = x \o (y \o z)
        BY ConcatAssociative
      <3> QED BY <1>4, <3>1, Zenon
    <2>2. messages' = ((messages \o a) \o b) \o talk
      BY <1>1 DEF a, b
    <2> QED BY <2>1, <2>2
  <1> HIDE DEF c
  <1>6. Follow(d)
    BY <1>2, <1>3, JoinedFollow
  <1> HIDE DEF d
  <1>7. Follow(messages')
    BY <1>2, <1>5, <1>6, JoinedFollow
  <1>8. ASSUME NEW s \in Seq(Messages), NEW t \in Seq(Messages), Len(s) > 0
        PROVE  s \o t \in Seq(Messages) /\ Len(s \o t) > 0 /\ (s \o t)[1] = s[1]
    BY <1>8, ConcatProperties, LenProperties
  <1>9. Len(messages) > 0
    BY <1>3, <1>4, EmptySeq
  <1>10. Len(d) > 0 /\ d[1] = messages[1]
    BY <1>2, <1>4, <1>8, <1>9 DEF d, Follow
  <1>11. Len(messages') > 0 /\ messages'[1] = messages[1]
    BY <1>4, <1>5, <1>6, <1>8, <1>10 DEF Follow
  <1> QED BY <1>3, <1>7, <1>11, EmptySeq

\* The steps that leave the context alone.
LEMMA ContextRests ==
    ASSUME RunSound, MessagesKnown, UNCHANGED messages, run'.pc \in InRounds => run.pc \in InRounds
    PROVE  MessagesKnown'
  BY DEF MessagesKnown, Follow

LEMMA MessagesStep == RunSound /\ MessagesKnown /\ [RunNext]_runVars => MessagesKnown'
  <1> SUFFICES ASSUME RunSound, MessagesKnown, [RunNext]_runVars PROVE MessagesKnown'
    OBVIOUS
  <1>1. DOMAIN run = RunFields /\ call.tools \in Nat
    BY DEF RunSound, RunTypes, CallRows
  <1>2. ASSUME NEW p, GoTo(p)
        PROVE  run'.pc = p
    BY <1>1, <1>2 DEF GoTo, RunFields
  <1>3. ASSUME NEW p, NEW text, StopRun(text)
        PROVE  run'.pc = "resolve"
    BY <1>2, <1>3 DEF StopRun
  <1>4. CASE UNCHANGED runVars
    BY <1>4, ContextRests DEF runVars, context
  <1>5. CASE PrepareRun
    <2>1. CASE UNCHANGED messages /\ GoTo("release")
      BY <1>2, <2>1, ContextRests DEF InRounds
    <2>2. CASE messages' \in Prompts
      BY <2>2, PromptsFollow DEF MessagesKnown, Follow
    <2> QED BY <1>5, <2>1, <2>2 DEF PrepareRun
  <1>6. CASE BeginRound
    <2>1. CASE UNCHANGED messages
      BY <1>6, <2>1, ContextRests DEF BeginRound, At, InRounds
    <2>2. CASE messages' = Compressed(messages)
      <3>1. Follow(messages) /\ messages # <<>> /\ messages[1].tools = 0
        BY <1>6 DEF BeginRound, At, MessagesKnown, InRounds
      <3>2. Follow(messages') /\ messages' # <<>> /\ messages'[1].tools = 0
        BY <2>2, <3>1, CompressedFollows
      <3> QED BY <3>2 DEF MessagesKnown, Follow
    <2> QED BY <1>6, <2>1, <2>2 DEF BeginRound, context
  <1>7. CASE ToolStep
    <2>1. Follow(messages') /\ messages' # <<>> /\ messages'[1].tools = 0
      BY <1>1, <1>7, ToolStepFollows
    <2> QED BY <2>1 DEF MessagesKnown, Follow
  <1>8. CASE StartGeneration \/ TryCacheHit \/ MissCache \/ AcquireLock \/ WaitForEntry
    <2>1. UNCHANGED messages /\ run'.pc \notin InRounds
      BY <1>1, <1>2, <1>3, <1>8 DEF StartGeneration, TryCacheHit, MissCache, AcquireLock, WaitForEntry, context, InRounds, RunFields
    <2> QED BY <2>1, ContextRests
  <1>9. CASE RouteTask \/ SimpleTool \/ EmitSimple \/ SaveSimple \/ NoKey \/ SimpleFails
    <2>1. UNCHANGED messages /\ run'.pc \notin InRounds
      BY <1>1, <1>2, <1>9 DEF RouteTask, SimpleTool, EmitSimple, SaveSimple, NoKey, SimpleFails, context, InRounds, RunFields
    <2> QED BY <2>1, ContextRests
  <1>10. CASE StreamPiece \/ StreamTools \/ BlockStream \/ StreamUsage \/ StreamFails \/ BillRound \/ ToolsTimeOut
    <2>1. UNCHANGED messages /\ run.pc \in InRounds \cup {"cancelled"}
      BY <1>10 DEF StreamPiece, StreamTools, BlockStream, StreamUsage, StreamFails, BillRound, ToolsTimeOut,
                   context, At, InRounds
    <2>2. run.pc = "cancelled" => run'.pc = "resolve"
      BY <1>3, <1>10 DEF StreamPiece, StreamTools, BlockStream, StreamUsage, StreamFails, BillRound, ToolsTimeOut, At
    <2> QED BY <2>1, <2>2, ContextRests DEF InRounds
  <1>11. CASE FallBack \/ FlashPiece \/ FlashTail \/ FlashFails \/ FinishAnswer \/ FinishMaxSteps
    <2>1. UNCHANGED messages /\ run'.pc \notin InRounds
      BY <1>2, <1>3, <1>11 DEF FallBack, FlashPiece, FlashTail, FlashFails, FinishAnswer, FinishMaxSteps, context, InRounds, At
    <2> QED BY <2>1, ContextRests
  <1>12. CASE ResolveOutcome \/ RunRaises \/ FailRun \/ ShutDownRun \/ ReleaseRun
    <2>1. UNCHANGED messages /\ run'.pc \in {"release", "fail", "done"}
      <3>1. CASE ReleaseRun
        BY <1>1, <3>1 DEF ReleaseRun, context, RunFields
      <3>2. CASE ResolveOutcome \/ RunRaises \/ FailRun \/ ShutDownRun
        BY <1>2, <3>2 DEF ResolveOutcome, RunRaises, FailRun, ShutDownRun, context
      <3> QED BY <1>12, <3>1, <3>2
    <2> QED BY <2>1, ContextRests DEF InRounds
  <1>13. CASE Others
    <2>1. UNCHANGED <<messages, run>>
      BY <1>13 DEF Others, CancelRun, CancelEnds, OtherLocks, OtherEnds, LockLapses, context
    <2> QED BY <2>1, ContextRests
  <1> QED BY <1>4, <1>5, <1>6, <1>7, <1>8, <1>9, <1>10, <1>11, <1>12, <1>13 DEF RunNext

\* _run_react_loop, _handle_tool_step and compress_message_history: what the model is given
\* is well formed in every round, for any prompts, any number of rounds and of tools, and
\* any limit at which the history is compressed.
THEOREM AlwaysFollow == RunSpec => []ToolsFollowCalls
  <1>1. MessagesKnown => ToolsFollowCalls
    <2> SUFFICES ASSUME MessagesKnown PROVE ToolsFollowCalls
      OBVIOUS
    <2>1. Follow(messages)
      BY DEF MessagesKnown
    <2>2. DOMAIN messages = 1..Len(messages)
      BY <2>1, LenProperties DEF Follow
    <2> QED BY <2>1, <2>2 DEF ToolsFollowCalls, Follow
  <1> QED BY <1>1, RunStarts, RunStep, MessagesStart, MessagesStep, PTL DEF RunSpec

-----------------------------------------------------------------------------
(* What the reader of a stream gets.                                       *)

\* A part of a text, which begins behind its first s characters.
LEMMA PartOfText ==
    ASSUME NEW t \in Seq(STRING), NEW s \in 0..Len(t), NEW r \in s..Len(t)
    PROVE  /\ SubSeq(t, s + 1, r) \in Seq(STRING) /\ Len(SubSeq(t, s + 1, r)) = r - s
           /\ \A i \in 1..(r - s) : SubSeq(t, s + 1, r)[i] = t[s + i]
  <1> DEFINE u == SubSeq(t, s + 1, r)
  <1>1. Len(t) \in Nat /\ \A i \in 1..Len(t) : t[i] \in STRING
    BY LenProperties
  <1>2. s \in Nat /\ r \in Nat /\ s <= r /\ r <= Len(t)
    BY <1>1
  <1>3. \A i \in (s + 1)..r : t[i] \in STRING
    BY <1>1, <1>2
  <1>4. /\ u \in Seq(STRING)
        /\ Len(u) = IF s + 1 <= r THEN r - (s + 1) + 1 ELSE 0
        /\ \A i \in 1..(r - (s + 1) + 1) : u[i] = t[(s + 1) + i - 1]
    <2>1. s + 1 \in Int /\ r \in Int
      BY <1>2
    <2> QED BY <1>3, <2>1, SubSeqProperties
  <1> HIDE DEF u
  <1>5. Len(u) = r - s
    BY <1>2, <1>4
  <1>6. ASSUME NEW i \in 1..(r - s)
        PROVE  u[i] = t[s + i]
    <2>1. i \in 1..(r - (s + 1) + 1) /\ (s + 1) + i - 1 = s + i
      BY <1>2
    <2> QED BY <1>4, <2>1
  <1> QED BY <1>4, <1>5, <1>6 DEF u

\* Parts that correspond, of two texts.
LEMMA SamePart ==
    ASSUME NEW t \in Seq(STRING), NEW u \in Seq(STRING), NEW a \in Nat, a + Len(u) <= Len(t),
           \A k \in 1..Len(u) : u[k] = t[a + k],
           NEW i \in 1..Len(u), NEW j \in 1..Len(u)
    PROVE  SubSeq(u, i, j) = SubSeq(t, a + i, a + j)
  <1>1. Len(t) \in Nat /\ Len(u) \in Nat
    BY LenProperties
  <1>2. CASE i <= j
    <2>1. /\ i - 1 \in 0..Len(u) /\ j \in (i - 1)..Len(u) /\ (i - 1) + 1 = i
          /\ a + i - 1 \in 0..Len(t) /\ a + j \in (a + i - 1)..Len(t) /\ (a + i - 1) + 1 = a + i
      BY <1>1, <1>2
    <2>2. /\ SubSeq(u, i, j) \in Seq(STRING) /\ Len(SubSeq(u, i, j)) = j - (i - 1)
          /\ \A k \in 1..(j - (i - 1)) : SubSeq(u, i, j)[k] = u[(i - 1) + k]
      <3> DEFINE s == i - 1
      <3>1. s \in 0..Len(u) /\ j \in s..Len(u) /\ s + 1 = i
        BY <2>1
      <3> HIDE DEF s
      <3>2. /\ SubSeq(u, s + 1, j) \in Seq(STRING) /\ Len(SubSeq(u, s + 1, j)) = j - s
            /\ \A k \in 1..(j - s) : SubSeq(u, s + 1, j)[k] = u[s + k]
        BY <3>1, PartOfText
      <3> QED BY <3>1, <3>2 DEF s
    <2>3. /\ SubSeq(t, a + i, a + j) \in Seq(STRING) /\ Len(SubSeq(t, a + i, a + j)) = (a + j) - (a + i - 1)
          /\ \A k \in 1..((a + j) - (a + i - 1)) : SubSeq(t, a + i, a + j)[k] = t[(a + i - 1) + k]
      <3> DEFINE s == a + i - 1
      <3>1. s \in 0..Len(t) /\ a + j \in s..Len(t) /\ s + 1 = a + i
        BY <2>1
      <3> HIDE DEF s
      <3>2. /\ SubSeq(t, s + 1, a + j) \in Seq(STRING) /\ Len(SubSeq(t, s + 1, a + j)) = (a + j) - s
            /\ \A k \in 1..((a + j) - s) : SubSeq(t, s + 1, a + j)[k] = t[s + k]
        BY <3>1, PartOfText
      <3> QED BY <3>1, <3>2 DEF s
    <2>4. Len(SubSeq(u, i, j)) = Len(SubSeq(t, a + i, a + j))
      BY <2>2, <2>3
    <2>5. ASSUME NEW k \in 1..Len(SubSeq(u, i, j))
          PROVE  SubSeq(u, i, j)[k] = SubSeq(t, a + i, a + j)[k]
      <3>1. /\ k \in 1..(j - (i - 1)) /\ k \in 1..((a + j) - (a + i - 1)) /\ (i - 1) + k \in 1..Len(u)
            /\ a + ((i - 1) + k) = (a + i - 1) + k
        BY <1>1, <2>2
      <3> QED BY <2>2, <2>3, <3>1
    <2> QED BY <2>2, <2>3, <2>4, <2>5, SeqEqual
  <1>3. CASE ~(i <= j)
    <2>1. j < i /\ a + j < a + i /\ a + i \in Int /\ a + j \in Int /\ i \in Int /\ j \in Int
      BY <1>1, <1>3
    <2> QED BY <2>1, SubSeqEmpty
  <1> QED BY <1>2, <1>3

-----------------------------------------------------------------------------
(* The answer: words and the characters that count. *)

LEMMA NormIs ==
    ASSUME NEW t \in Seq(STRING)
    PROVE  /\ Counted(t) \in SUBSET (1..Len(t)) /\ InOrder(Counted(t))
           /\ Norm(t) \in Seq(STRING) /\ Len(Norm(t)) = Cardinality(Counted(t)) /\ Len(Norm(t)) \in Nat
           /\ \A k \in 1..Len(Norm(t)) :
                /\ Norm(t)[k] = t[Origins(t)[k]] /\ Norm(t)[k] \in STRING
                /\ Origins(t)[k] = Nth(Counted(t), k) /\ Origins(t)[k] \in Counted(t)
  <1> DEFINE I == Counted(t)
             n == Cardinality(I)
  <1>1. Len(t) \in Nat /\ DOMAIN t = 1..Len(t) /\ \A i \in 1..Len(t) : t[i] \in STRING
    BY LenProperties
  <1>2. I \in SUBSET (1..Len(t))
    BY <1>1 DEF Counted
  <1>3. InOrder(I)
    BY <1>1, <1>2, NthIs
  <1>4. n \in Nat /\ \A k \in 1..n : Nth(I, k) \in I
    BY <1>3 DEF InOrder
  <1>5. Norm(t) = [k \in 1..n |-> t[Nth(I, k)]]
    BY DEF Norm, Picked
  <1>6. \A k \in 1..n : Origins(t)[k] = Nth(I, k)
    BY <1>1, <1>2, <1>4 DEF Origins, Picked
  <1>7. \A k \in 1..n : t[Nth(I, k)] \in STRING
    BY <1>1, <1>2, <1>4
  <1> HIDE DEF I, n
  <1>8. Norm(t) \in [1..n -> STRING] /\ \A k \in 1..n : Norm(t)[k] = t[Nth(I, k)]
    BY <1>5, <1>7
  <1>9. Norm(t) \in Seq(STRING) /\ Len(Norm(t)) = n
    BY <1>4, <1>8
  <1> QED BY <1>2, <1>3, <1>4, <1>6, <1>7, <1>8, <1>9 DEF I, n

\* How many of the characters that count are up to a position.
LEMMA CountedUpTo ==
    ASSUME NEW t \in Seq(STRING), NEW s \in 0..Len(t), NEW k \in 1..Len(Norm(t))
    PROVE  k <= RankIn(Counted(t), s) <=> Origins(t)[k] <= s
  <1> DEFINE I == Counted(t)
             n == Len(t)
  <1>1. n \in Nat /\ s \in 0..n
    BY LenProperties
  <1>2. I \in SUBSET (1..n) /\ k \in 1..Cardinality(I) /\ Origins(t)[k] = Nth(I, k)
    BY NormIs
  <1> HIDE DEF I, n
  <1>3. k <= RankIn(I, s) <=> Nth(I, k) <= s
    BY <1>1, <1>2, NthUpTo
  <1> QED BY <1>2, <1>3 DEF I

LEMMA OriginsRise ==
    ASSUME NEW t \in Seq(STRING), NEW k \in 1..Len(Norm(t)), NEW l \in 1..Len(Norm(t))
    PROVE  /\ Origins(t)[k] \in 1..Len(t)
           /\ k < l <=> Origins(t)[k] < Origins(t)[l]
  <1>1. Len(t) \in Nat
    BY LenProperties
  <1>2. /\ Origins(t)[k] = Nth(Counted(t), k) /\ Origins(t)[l] = Nth(Counted(t), l)
        /\ Origins(t)[k] \in 1..Len(t) /\ Origins(t)[l] \in 1..Len(t)
        /\ Len(Norm(t)) = Cardinality(Counted(t)) /\ Len(Norm(t)) \in Nat
    BY NormIs
  <1>3. \A i, j \in 1..Len(Norm(t)) : i < j => Nth(Counted(t), i) < Nth(Counted(t), j)
    BY <1>2, NormIs DEF InOrder
  <1>4. k \in Int /\ l \in Int /\ Origins(t)[k] \in Int /\ Origins(t)[l] \in Int
    BY <1>1, <1>2
  <1>5. k < l => Origins(t)[k] < Origins(t)[l]
    BY <1>2, <1>3
  <1>6. l < k => Origins(t)[l] < Origins(t)[k]
    BY <1>2, <1>3
  <1> QED BY <1>2, <1>4, <1>5, <1>6

\* Of a part of the text, the characters that count are a part of those of the text.
Normed(t, s, r, u, a, b) ==
    /\ u \in Seq(STRING) /\ Len(u) = r - s
    /\ a \in Nat /\ b \in a..Len(Norm(t)) /\ Len(Norm(u)) = b - a
    /\ \A k \in 1..(b - a) : Norm(u)[k] = Norm(t)[a + k] /\ Origins(u)[k] = Origins(t)[a + k] - s

LEMMA NormOfPart ==
    ASSUME NEW t \in Seq(STRING), NEW s \in 0..Len(t), NEW r \in s..Len(t)
    PROVE  Normed(t, s, r, SubSeq(t, s + 1, r), RankIn(Counted(t), s), RankIn(Counted(t), r))
  <1> DEFINE u == SubSeq(t, s + 1, r)
             a == RankIn(Counted(t), s)
             b == RankIn(Counted(t), r)
  <1>1. u \in Seq(STRING) /\ Len(u) = r - s /\ \A i \in 1..(r - s) : u[i] = t[s + i]
    BY PartOfText
  <1>2. Len(t) \in Nat /\ DOMAIN t = 1..Len(t) /\ DOMAIN u = 1..(r - s) /\ r - s \in Nat
    <2>1. Len(t) \in Nat /\ DOMAIN t = 1..Len(t) /\ DOMAIN u = 1..Len(u) /\ Len(u) \in Nat
      BY <1>1, LenProperties
    <2> QED BY <1>1, <2>1
  <1>3. Counted(u) = PartOf(Counted(t), s, r)
    <2>1. \A i \in 1..(r - s) : s + i \in 1..Len(t)
      BY <1>2
    <2> QED BY <1>1, <1>2, <2>1 DEF Counted, PartOf
  <1>4. Counted(t) \in SUBSET (1..Len(t)) /\ Len(Norm(t)) = Cardinality(Counted(t))
    BY NormIs
  <1>5. /\ a \in Nat /\ b \in a..Cardinality(Counted(t))
        /\ Cardinality(Counted(u)) = b - a
        /\ \A k \in 1..(b - a) : Nth(Counted(u), k) = Nth(Counted(t), a + k) - s
    <2> HIDE DEF PartOf
    <2> QED BY <1>2, <1>3, <1>4, PartIs
  <1>6. Len(Norm(u)) = b - a
    BY <1>1, <1>5, NormIs
  <1>7. ASSUME NEW k \in 1..(b - a)
        PROVE  Norm(u)[k] = Norm(t)[a + k] /\ Origins(u)[k] = Origins(t)[a + k] - s
    <2>1. a + k \in 1..Len(Norm(t)) /\ k \in 1..Len(Norm(u))
      BY <1>4, <1>5, <1>6
    <2>2. Origins(u)[k] = Nth(Counted(u), k) /\ Origins(t)[a + k] = Nth(Counted(t), a + k)
      BY <1>1, <2>1, NormIs
    <2>3. Norm(u)[k] = u[Origins(u)[k]] /\ Norm(t)[a + k] = t[Origins(t)[a + k]]
      BY <1>1, <2>1, NormIs
    <2>4. Origins(u)[k] \in 1..(r - s) /\ Origins(t)[a + k] \in 1..Len(t)
      BY <1>1, <2>1, OriginsRise
    <2>5. Origins(u)[k] = Origins(t)[a + k] - s
      BY <1>5, <2>2
    <2>6. s + Origins(u)[k] = Origins(t)[a + k]
      <3>1. s \in Int /\ Origins(t)[a + k] \in Int
        BY <1>2, <2>4
      <3> QED BY <2>5, <3>1
    <2> QED BY <1>1, <2>3, <2>4, <2>5, <2>6
  <1> QED BY <1>1, <1>4, <1>5, <1>6, <1>7 DEF Normed

\* The longest word.
LEMMA LongestWord ==
    /\ Window \in Nat /\ MaxWordLen \in 1..(Window - 1)
    /\ \A w \in Words : w \in Seq(STRING) /\ Len(w) \in 1..MaxWordLen
  <1> DEFINE T == {Len(w) : w \in Words}
  <1>1. Window \in Nat /\ Words # {} /\ \A w \in Words : w \in Seq(STRING) /\ Len(w) \in 1..(Window - 1)
    BY GuardAssumption
  <1>2. T # {} /\ T \in SUBSET (0..Window) /\ \A m \in T : m \in 1..(Window - 1)
    <2>1. T # {}
      BY <1>1
    <2>2. \A m \in T : m \in 1..(Window - 1)
      BY <1>1
    <2>3. 1..(Window - 1) \subseteq 0..Window
      BY <1>1
    <2> HIDE DEF T
    <2> QED BY <2>1, <2>2, <2>3
  <1> HIDE DEF T
  <1>3. \E m \in T : \A k \in T : k <= m
    BY <1>1, <1>2, GreatestNat
  <1>4. \E n \in {Len(w) : w \in Words} : \A w \in Words : Len(w) <= n
    BY <1>3 DEF T
  <1>5. MaxWordLen \in T /\ \A w \in Words : Len(w) <= MaxWordLen
    BY <1>4 DEF MaxWordLen, T
  <1> QED BY <1>1, <1>2, <1>5

\* Where a word is.
LEMMA HitIs ==
    ASSUME NEW norm \in Seq(STRING), NEW h \in Hits(norm)
    PROVE  /\ h = <<h[1], h[2]>> /\ h[1] \in 1..Len(norm) /\ h[2] \in h[1]..Len(norm)
           /\ h[2] < h[1] + MaxWordLen
  <1>1. Len(norm) \in Nat /\ DOMAIN norm = 1..Len(norm) /\ \A i \in 1..Len(norm) : norm[i] \in STRING
    BY LenProperties
  <1>2. h = <<h[1], h[2]>> /\ h[1] \in 1..Len(norm) /\ h[2] \in 1..Len(norm) /\ SubSeq(norm, h[1], h[2]) \in Words
    BY <1>1 DEF Hits
  <1>3. Len(SubSeq(norm, h[1], h[2])) = IF h[1] <= h[2] THEN h[2] - h[1] + 1 ELSE 0
    <2>1. \A i \in h[1]..h[2] : norm[i] \in STRING
      BY <1>1, <1>2
    <2>2. h[1] \in Int /\ h[2] \in Int
      BY <1>2
    <2> QED BY <2>1, <2>2, SubSeqProperties
  <1>4. Len(SubSeq(norm, h[1], h[2])) \in 1..MaxWordLen /\ MaxWordLen \in Nat
    <2>1. MaxWordLen \in Nat /\ \A w \in Words : Len(w) \in 1..MaxWordLen
      BY LongestWord
    <2> QED BY <1>2, <2>1
  <1> QED BY <1>1, <1>2, <1>3, <1>4

\* A word in a part is one in the whole, and the other way round.
LEMMA HitMoves ==
    ASSUME NEW t \in Seq(STRING), NEW u \in Seq(STRING), NEW a \in Nat, a + Len(u) <= Len(t),
           \A k \in 1..Len(u) : u[k] = t[a + k],
           NEW i \in 1..Len(u), NEW j \in 1..Len(u)
    PROVE  <<i, j>> \in Hits(u) <=> <<a + i, a + j>> \in Hits(t)
  <1>1. Len(t) \in Nat /\ DOMAIN t = 1..Len(t) /\ Len(u) \in Nat /\ DOMAIN u = 1..Len(u)
    BY LenProperties
  <1>2. SubSeq(u, i, j) = SubSeq(t, a + i, a + j)
    BY SamePart
  <1>3. a + i \in 1..Len(t) /\ a + j \in 1..Len(t)
    BY <1>1
  <1> QED BY <1>1, <1>2, <1>3 DEF Hits

\* The multiples of a step reach every number.
LEMMA StepsReach ==
    ASSUME NEW d \in Nat \ {0}, NEW n \in Nat
    PROVE  \E k \in 0..n : k * d <= n /\ n < k * d + d
  <1> DEFINE S == {m \in Nat : \E k \in 0..m : k * d <= m /\ m < k * d + d}
  <1>1. 0 \in S
    <2>1. 0 \in 0..0 /\ 0 * d = 0
      OBVIOUS
    <2> QED BY <2>1
  <1>2. ASSUME NEW m \in 0..(n - 1), m \in S
        PROVE  m + 1 \in S
    <2>1. PICK k \in 0..m : k * d <= m /\ m < k * d + d
      BY <1>2
    <2>2. CASE m + 1 < k * d + d
      <3>1. k \in 0..(m + 1) /\ k * d <= m + 1 /\ k * d \in Int
        BY <2>1
      <3> QED BY <2>2, <3>1
    <2>3. CASE ~(m + 1 < k * d + d)
      <3>1. (k + 1) * d = k * d + d /\ k * d \in Int /\ k + 1 \in 0..(m + 1)
        BY <2>1
      <3>2. (k + 1) * d <= m + 1 /\ m + 1 < (k + 1) * d + d
        BY <2>1, <2>3, <3>1
      <3>3. \E l \in 0..(m + 1) : l * d <= m + 1 /\ m + 1 < l * d + d
        BY <3>1, <3>2, Zenon
      <3> QED BY <3>3
    <2> QED BY <2>2, <2>3
  <1> HIDE DEF S
  <1>3. n \in S
    BY <1>1, <1>2, Reaches
  <1> QED BY <1>3 DEF S

\* Windows overlap by enough: no word falls between two of them.
LEMMA AllScanned ==
    ASSUME NEW norm \in Seq(STRING), NEW h \in Hits(norm)
    PROVE  \E k \in 0..Len(norm) : /\ k * (Window - (MaxWordLen - 1)) < h[1]
                                   /\ h[2] <= k * (Window - (MaxWordLen - 1)) + Window
                                   /\ k * (Window - (MaxWordLen - 1)) \in Nat
  <1> DEFINE d == Window - (MaxWordLen - 1)
  <1>1. d \in Nat \ {0} /\ Window \in Nat /\ MaxWordLen \in Nat /\ Window = d + (MaxWordLen - 1)
    BY LongestWord
  <1>2. h[1] \in 1..Len(norm) /\ h[2] \in h[1]..Len(norm) /\ h[2] < h[1] + MaxWordLen /\ Len(norm) \in Nat
    BY HitIs, LenProperties
  <1> HIDE DEF d
  <1>3. PICK k \in 0..(h[1] - 1) : k * d <= h[1] - 1 /\ h[1] - 1 < k * d + d
    <2>1. h[1] - 1 \in Nat
      BY <1>2
    <2> QED BY <1>1, <2>1, StepsReach
  <1>4. k * d \in Nat
    BY <1>1, <1>3
  <1>5. k \in 0..Len(norm)
    BY <1>2, <1>3
  <1>6. k * d < h[1] /\ h[2] <= k * d + Window
    <2> DEFINE e == k * d
    <2>1. e <= h[1] - 1 /\ h[1] - 1 < e + d /\ e \in Nat
      BY <1>3, <1>4
    <2> HIDE DEF e
    <2>2. e < h[1] /\ h[2] <= e + Window
      BY <1>1, <1>2, <2>1
    <2> QED BY <2>2 DEF e
  <1> QED BY <1>4, <1>5, <1>6 DEF d

\* What is allowed in a part is allowed in the whole, which shows more of the sentence.
LEMMA ExemptGrows ==
    ASSUME NEW t \in Seq(STRING), NEW s \in 0..Len(t), NEW r \in s..Len(t),
           NEW at \in 1..(r - s), Exempt(SubSeq(t, s + 1, r), at)
    PROVE  Exempt(t, s + at)
  <1> DEFINE u == SubSeq(t, s + 1, r)
  <1>1. u \in Seq(STRING) /\ Len(u) = r - s /\ \A i \in 1..(r - s) : u[i] = t[s + i]
    BY PartOfText
  <1>2. Len(t) \in Nat /\ DOMAIN t = 1..Len(t) /\ DOMAIN u = 1..(r - s)
    BY <1>1, LenProperties
  <1> HIDE DEF u
  <1>3. PICK i \in 1..(r - s) : /\ u[i] = "w"
                                /\ \A j \in 1..(r - s) : u[j] = "s" => ~(i <= j /\ j < at) /\ ~(at <= j /\ j < i)
    BY <1>2 DEF Exempt, u
  <1>4. s + i \in 1..Len(t) /\ t[s + i] = "w"
    BY <1>1, <1>2, <1>3
  <1>5. ASSUME NEW j \in 1..Len(t), t[j] = "s"
        PROVE  ~(s + i <= j /\ j < s + at) /\ ~(s + at <= j /\ j < s + i)
    <2> SUFFICES ASSUME (s + i <= j /\ j < s + at) \/ (s + at <= j /\ j < s + i)
                 PROVE  FALSE
      OBVIOUS
    <2>1. j - s \in 1..(r - s) /\ s + (j - s) = j
      BY <1>2
    <2>2. u[j - s] = "s"
      BY <1>1, <1>5, <2>1
    <2>3. ~(i <= j - s /\ j - s < at) /\ ~(at <= j - s /\ j - s < i)
      BY <1>3, <2>1, <2>2
    <2> QED BY <1>2, <2>3
  <1> QED BY <1>2, <1>4, <1>5 DEF Exempt

\* What is allowed among the characters that count is allowed in the text.
LEMMA ExemptInText ==
    ASSUME NEW t \in Seq(STRING), NEW at \in 1..Len(Norm(t)), Exempt(Norm(t), at)
    PROVE  Exempt(t, Origins(t)[at])
  <1> DEFINE n == Len(Norm(t))
             o(k) == Origins(t)[k]
  <1>1. Len(t) \in Nat /\ DOMAIN t = 1..Len(t)
    BY LenProperties
  <1>2. /\ Norm(t) \in Seq(STRING) /\ n \in Nat /\ DOMAIN Norm(t) = 1..n
        /\ \A k \in 1..n : Norm(t)[k] = t[o(k)] /\ o(k) \in Counted(t)
    BY NormIs, LenProperties
  <1>3. \A k, l \in 1..n : o(k) \in 1..Len(t) /\ (k < l <=> o(k) < o(l))
    BY OriginsRise
  <1>4. PICK i \in 1..n : /\ Norm(t)[i] = "w"
                          /\ \A j \in 1..n : Norm(t)[j] = "s" => ~(i <= j /\ j < at) /\ ~(at <= j /\ j < i)
    BY <1>2 DEF Exempt
  <1>5. o(i) \in 1..Len(t) /\ t[o(i)] = "w"
    BY <1>2, <1>3, <1>4
  <1>6. ASSUME NEW j \in 1..Len(t), t[j] = "s"
        PROVE  ~(o(i) <= j /\ j < o(at)) /\ ~(o(at) <= j /\ j < o(i))
    <2>1. j \in Counted(t)
      BY <1>1, <1>6 DEF Counted
    <2>2. PICK k \in 1..n : j = o(k)
      <3>1. Cardinality(Counted(t)) = n /\ InOrder(Counted(t)) /\ \A k \in 1..n : o(k) = Nth(Counted(t), k)
        BY NormIs
      <3>2. RankIn(Counted(t), j) \in 1..n /\ Nth(Counted(t), RankIn(Counted(t), j)) = j
        BY <2>1, <3>1 DEF InOrder
      <3> QED BY <3>1, <3>2
    <2>3. Norm(t)[k] = "s"
      BY <1>2, <1>6, <2>2
    <2>4. ~(i <= k /\ k < at) /\ ~(at <= k /\ k < i)
      BY <1>4, <2>3
    <2>5. (k < i <=> o(k) < o(i)) /\ (k < at <=> o(k) < o(at))
      BY <1>3
    <2>6. o(i) \in Int /\ o(k) \in Int /\ o(at) \in Int /\ i \in Int /\ k \in Int /\ at \in Int
      BY <1>2, <1>3
    <2> HIDE DEF o
    <2> QED BY <2>2, <2>4, <2>5, <2>6
  <1> QED BY <1>1, <1>5, <1>6 DEF Exempt

\* A part of a part.
LEMMA PartOfPart ==
    ASSUME NEW t \in Seq(STRING), NEW s \in 0..Len(t), NEW r \in s..Len(t),
           NEW p \in 0..(r - s), NEW q \in p..(r - s)
    PROVE  SubSeq(SubSeq(t, s + 1, r), p + 1, q) = SubSeq(t, s + p + 1, s + q)
  <1> DEFINE u == SubSeq(t, s + 1, r)
             v == SubSeq(u, p + 1, q)
             x == SubSeq(t, s + p + 1, s + q)
  <1>1. u \in Seq(STRING) /\ Len(u) = r - s /\ \A i \in 1..(r - s) : u[i] = t[s + i]
    BY PartOfText
  <1>2. Len(t) \in Nat /\ s \in Nat /\ p \in Nat /\ q \in Nat /\ r \in Nat /\ p <= q /\ q <= r - s
    BY LenProperties
  <1>3. v \in Seq(STRING) /\ Len(v) = q - p /\ \A i \in 1..(q - p) : v[i] = u[p + i]
    <2> HIDE DEF u
    <2>1. p \in 0..Len(u) /\ q \in p..Len(u)
      BY <1>1, <1>2
    <2> QED BY <1>1, <2>1, PartOfText
  <1>4. x \in Seq(STRING) /\ Len(x) = q - p /\ \A i \in 1..(q - p) : x[i] = t[s + p + i]
    <2> DEFINE a == s + p
               b == s + q
    <2>1. a \in 0..Len(t) /\ b \in a..Len(t) /\ b - a = q - p
      BY <1>2
    <2> HIDE DEF a, b
    <2>2. SubSeq(t, a + 1, b) \in Seq(STRING) /\ Len(SubSeq(t, a + 1, b)) = b - a /\ \A i \in 1..(b - a) : SubSeq(t, a + 1, b)[i] = t[a + i]
      BY <2>1, PartOfText
    <2> QED BY <2>1, <2>2 DEF a, b
  <1> HIDE DEF u, v, x
  <1>5. ASSUME NEW i \in 1..(q - p)
        PROVE  v[i] = x[i]
    <2>1. p + i \in 1..(r - s) /\ s + (p + i) = s + p + i
      BY <1>2
    <2> QED BY <1>1, <1>3, <1>4, <2>1
  <1>6. v = x
    BY <1>3, <1>4, <1>5, SeqEqual
  <1> QED BY <1>6 DEF u, v, x

\* The words that begin up to there are allowed.
AllowedUpTo(t, s) == \A h \in Hits(Norm(t)) : Origins(t)[h[1]] <= s => Exempt(t, Origins(t)[h[1]])

\* A look at a part clears the words that begin in its first c characters, if they end in it.
LEMMA LookClears ==
    ASSUME NEW t \in Seq(STRING), NEW s \in 0..Len(t), NEW r \in s..Len(t), NEW c \in 0..(r - s),
           AllowedUpTo(t, s), ~Unsafe(SubSeq(t, s + 1, r)),
           \A h \in Hits(Norm(t)) : s < Origins(t)[h[1]] /\ Origins(t)[h[1]] <= s + c => h[2] <= RankIn(Counted(t), r)
    PROVE  AllowedUpTo(t, s + c)
  <1> DEFINE u == SubSeq(t, s + 1, r)
             a == RankIn(Counted(t), s)
             b == RankIn(Counted(t), r)
  <1>0. u = SubSeq(t, s + 1, r) /\ a = RankIn(Counted(t), s) /\ b = RankIn(Counted(t), r)
    OBVIOUS
  <1> HIDE DEF u, a, b
  <1>1. /\ u \in Seq(STRING) /\ Len(u) = r - s
        /\ a \in Nat /\ b \in a..Len(Norm(t)) /\ Len(Norm(u)) = b - a
        /\ \A k \in 1..(b - a) : Norm(u)[k] = Norm(t)[a + k] /\ Origins(u)[k] = Origins(t)[a + k] - s
    <2>1. Normed(t, s, r, u, a, b)
      BY <1>0, NormOfPart
    <2> QED BY <2>1 DEF Normed
  <1>2. Norm(t) \in Seq(STRING) /\ Norm(u) \in Seq(STRING) /\ Len(Norm(t)) \in Nat
    BY <1>1, NormIs
  <1>3. Len(t) \in Nat /\ s \in Nat
    BY LenProperties
  <1> SUFFICES ASSUME NEW h \in Hits(Norm(t)), Origins(t)[h[1]] <= s + c
               PROVE  Exempt(t, Origins(t)[h[1]])
    BY DEF AllowedUpTo
  <1>4. h = <<h[1], h[2]>> /\ h[1] \in 1..Len(Norm(t)) /\ h[2] \in h[1]..Len(Norm(t))
    BY <1>2, HitIs
  <1>5. Origins(t)[h[1]] \in 1..Len(t)
    BY <1>4, OriginsRise
  <1>6. CASE Origins(t)[h[1]] <= s
    BY <1>6 DEF AllowedUpTo
  <1>7. CASE ~(Origins(t)[h[1]] <= s)
    <2>1. ~(h[1] <= a)
      BY <1>0, <1>4, <1>7, CountedUpTo
    <2>2. s < Origins(t)[h[1]]
      BY <1>3, <1>5, <1>7
    <2>3. h[2] <= b
      BY <1>0, <2>2
    <2> DEFINE i == h[1] - a
               j == h[2] - a
    <2>4. i \in 1..Len(Norm(u)) /\ j \in 1..Len(Norm(u)) /\ a + i = h[1] /\ a + j = h[2] /\ a + Len(Norm(u)) <= Len(Norm(t))
      <3> DEFINE x == h[1]
                 y == h[2]
                 n == Len(Norm(t))
                 m == Len(Norm(u))
      <3>1. x \in 1..n /\ y \in x..n /\ n \in Nat /\ ~(x <= a) /\ y <= b /\ a \in Nat /\ b \in a..n /\ m = b - a
        BY <1>1, <1>2, <1>4, <2>1, <2>3
      <3> HIDE DEF x, y, n, m
      <3>2. x - a \in 1..m /\ y - a \in 1..m /\ a + (x - a) = x /\ a + (y - a) = y /\ a + m <= n
        BY <3>1
      <3> QED BY <3>2 DEF x, y, n, m
    <2> HIDE DEF i, j
    <2>5. \A k \in 1..Len(Norm(u)) : Norm(u)[k] = Norm(t)[a + k]
      BY <1>1
    <2>6. <<i, j>> \in Hits(Norm(u))
      <3>1. <<i, j>> \in Hits(Norm(u)) <=> <<a + i, a + j>> \in Hits(Norm(t))
        BY <1>1, <1>2, <2>4, <2>5, HitMoves
      <3> QED BY <1>4, <2>4, <3>1
    <2>7. Scanned(Norm(u), <<i, j>>)
      <3>1. PICK k \in 0..Len(Norm(u)) : /\ k * (Window - (MaxWordLen - 1)) < <<i, j>>[1]
                                         /\ <<i, j>>[2] <= k * (Window - (MaxWordLen - 1)) + Window
        BY <1>2, <2>6, AllScanned
      <3> QED BY <3>1 DEF Scanned
    <2>8. Exempt(u, Origins(u)[i])
      <3>1. Exempt(u, Origins(u)[<<i, j>>[1]])
        BY <1>0, <2>6, <2>7 DEF Unsafe
      <3> QED BY <3>1
    <2>9. Origins(u)[i] = Origins(t)[h[1]] - s /\ Origins(u)[i] \in 1..(r - s)
      <3>1. Origins(u)[i] \in 1..Len(u)
        BY <1>1, <2>4, OriginsRise
      <3> QED BY <1>1, <2>4, <3>1
    <2>10. Exempt(t, s + Origins(u)[i])
      <3> DEFINE at == Origins(u)[i]
      <3>1. at \in 1..(r - s) /\ Exempt(SubSeq(t, s + 1, r), at)
        BY <1>0, <2>8, <2>9
      <3> HIDE DEF at
      <3>2. Exempt(t, s + at)
        BY <3>1, ExemptGrows
      <3> QED BY <3>2 DEF at
    <2>11. s + Origins(u)[i] = Origins(t)[h[1]]
      BY <1>3, <1>5, <2>9
    <2> QED BY <2>10, <2>11
  <1> QED BY <1>6, <1>7

\* Behind what may be shown is room for a word that begins in it.
LEMMA EmittableIs ==
    ASSUME NEW u \in Seq(STRING)
    PROVE  /\ Emittable(u) \in 0..Len(u)
           /\ \A k \in 1..Len(Norm(u)) : Origins(u)[k] <= Emittable(u) => k + MaxWordLen <= Len(Norm(u)) + 1
  <1> DEFINE m == Len(Norm(u))
             hold == MaxWordLen - 1
  <1>1. Len(u) \in Nat /\ m \in Nat /\ MaxWordLen \in Nat \ {0}
    BY LenProperties, NormIs, LongestWord
  <1>2. \A k, l \in 1..m : Origins(u)[k] \in 1..Len(u) /\ (k < l <=> Origins(u)[k] < Origins(u)[l])
    BY OriginsRise
  <1>3. CASE hold = 0
    <2>1. Emittable(u) = Len(u) /\ MaxWordLen = 1
      BY <1>1, <1>3 DEF Emittable
    <2> QED BY <1>1, <2>1
  <1>4. CASE hold # 0 /\ m <= hold
    <2>1. Emittable(u) = 0
      BY <1>4 DEF Emittable
    <2> QED BY <1>1, <1>2, <2>1
  <1>5. CASE hold # 0 /\ ~(m <= hold)
    <2> DEFINE l == m - hold + 1
    <2>1. Emittable(u) = Origins(u)[l] - 1
      BY <1>5 DEF Emittable
    <2>2. l \in 1..m
      BY <1>1, <1>5
    <2> HIDE DEF m
    <2>3. Origins(u)[l] \in 1..Len(u)
      BY <1>2, <2>2
    <2>4. ASSUME NEW k \in 1..m, Origins(u)[k] <= Emittable(u)
          PROVE  k + MaxWordLen <= m + 1
      <3>1. Origins(u)[k] < Origins(u)[l]
        BY <1>1, <1>2, <2>1, <2>3, <2>4
      <3>2. k < l
        BY <1>2, <2>2, <3>1
      <3> QED BY <1>1, <3>2
    <2> QED BY <1>1, <2>1, <2>3, <2>4 DEF m
  <1> QED BY <1>3, <1>4, <1>5

\* What check_stream finds in a text, contains_sensitive finds in one of its windows.
LEMMA UnsafeIsFound ==
    ASSUME NEW t \in Seq(STRING), Unsafe(t)
    PROVE  ContainsSensitive(t)
  <1> DEFINE norm == Norm(t)
             m == Len(norm)
             step == Window - (MaxWordLen - 1)
             part(k) == SubSeq(norm, k * step + 1, IF k * step + Window < m THEN k * step + Window ELSE m)
  <1>1. norm \in Seq(STRING) /\ m \in Nat /\ Window \in Nat
    BY NormIs, LongestWord
  <1>2. PICK h \in Hits(norm) : ~Exempt(t, Origins(t)[h[1]])
    BY DEF Unsafe
  <1>3. h = <<h[1], h[2]>> /\ h[1] \in 1..m /\ h[2] \in h[1]..m
    BY <1>1, HitIs
  <1>4. PICK k \in 0..m : k * step < h[1] /\ h[2] <= k * step + Window /\ k * step \in Nat
    BY <1>1, AllScanned
  <1> DEFINE base == k * step
             end == IF base + Window < m THEN base + Window ELSE m
             u == SubSeq(norm, base + 1, end)
             i == h[1] - base
             j == h[2] - base
  <1>5. base \in Nat /\ base < h[1] /\ h[2] <= base + Window /\ u = part(k)
    BY <1>4
  <1> HIDE DEF base, norm
  <1>6. /\ base \in 0..m /\ end \in base..m /\ base < m
        /\ i \in 1..(end - base) /\ j \in 1..(end - base) /\ base + i = h[1] /\ base + j = h[2]
    <2> DEFINE x == h[1]
               y == h[2]
    <2>1. x \in 1..m /\ y \in x..m /\ m \in Nat /\ base \in Nat /\ base < x /\ y <= base + Window /\ Window \in Nat
      BY <1>1, <1>3, <1>5
    <2> HIDE DEF x, y, m
    <2>2. /\ base \in 0..m /\ end \in base..m /\ base < m
          /\ x - base \in 1..(end - base) /\ y - base \in 1..(end - base) /\ base + (x - base) = x /\ base + (y - base) = y
      BY <2>1
    <2> QED BY <2>2 DEF x, y
  <1> HIDE DEF end, i, j
  <1>7. u \in Seq(STRING) /\ Len(u) = end - base /\ \A x \in 1..(end - base) : u[x] = norm[base + x]
    BY <1>1, <1>6, PartOfText
  <1>8. <<i, j>> \in Hits(u)
    <2> HIDE DEF u
    <2>1. base + Len(u) <= Len(norm) /\ i \in 1..Len(u) /\ j \in 1..Len(u) /\ base \in Nat
      BY <1>1, <1>6, <1>7
    <2>2. <<base + i, base + j>> \in Hits(norm)
      BY <1>3, <1>6
    <2>3. \A x \in 1..Len(u) : u[x] = norm[base + x]
      BY <1>7
    <2> QED BY <1>1, <1>7, <2>1, <2>2, <2>3, HitMoves
  <1>9. ~Exempt(u, i)
    <2> SUFFICES ASSUME Exempt(u, i) PROVE FALSE
      OBVIOUS
    <2>1. Exempt(norm, base + i)
      BY <1>1, <1>6, ExemptGrows
    <2>2. Exempt(t, Origins(t)[h[1]])
      BY <1>3, <1>6, <2>1, ExemptInText DEF norm
    <2> QED BY <1>2, <2>2
  <1>10. k * step < Len(norm) /\ u = part(k)
    BY <1>5, <1>6 DEF base
  <1>11. \E x \in 0..Len(norm) : x * step < Len(norm) /\ \E y \in Hits(part(x)) : ~Exempt(part(x), y[1])
    <2>1. <<i, j>>[1] = i
      OBVIOUS
    <2> HIDE DEF u, part, step
    <2> QED BY <1>8, <1>9, <1>10, <2>1
  <1> QED BY <1>11 DEF ContainsSensitive, norm

\* Two parts side by side.
LEMMA Adjacent ==
    ASSUME NEW t \in Seq(STRING), NEW s \in 0..Len(t), NEW m \in s..Len(t), NEW r \in m..Len(t)
    PROVE  SubSeq(t, s + 1, m) \o SubSeq(t, m + 1, r) = SubSeq(t, s + 1, r)
  <1>1. Len(t) \in Nat
    BY LenProperties
  <1>2. s + 1 \in 1..Len(t) + 1 /\ m \in (s + 1) - 1..Len(t) /\ r \in m..Len(t)
    BY <1>1
  <1> QED BY <1>2, ConcatAdjacentSubSeq

\* Where a stream is.
GuardTyped ==
    /\ stream.guard \in {"answer", "reasoning"} /\ stream.text \in Seq(STRING)
    /\ read \in 0..Len(stream.text) /\ verdict \in {"no", "caught", "passed"}

\* What is shown of an answer is how it begins, and the words that begin in it are
\* allowed, the last of them too, whose end may still be held back.
AnswerKnown ==
    \E s \in 0..read :
       /\ shown = SubSeq(stream.text, 1, s) /\ AllowedUpTo(stream.text, s)
       /\ verdict = "no" => pending = SubSeq(stream.text, s + 1, read)
       /\ verdict # "no" => pending = <<>>
       /\ verdict = "passed" => s = Len(stream.text)

LEMMA FeedsAnswer ==
    ASSUME GuardTyped, AnswerKnown, FeedContent
    PROVE  GuardTyped' /\ AnswerKnown'
  <1> DEFINE t == stream.text
  <1>1. /\ verdict = "no" /\ read < Len(t) /\ stream' = stream
        /\ t \in Seq(STRING) /\ Len(t) \in Nat /\ read \in 0..Len(t)
    BY LenProperties DEF FeedContent, More, GuardTyped
  <1>2. PICK s \in 0..read : /\ shown = SubSeq(t, 1, s) /\ AllowedUpTo(t, s)
                             /\ pending = SubSeq(t, s + 1, read)
    BY <1>1 DEF AnswerKnown
  <1>3. PICK n \in 1..Len(t) - read :
          /\ read' = read + n
          /\ \/ verdict' = "caught" /\ pending' = <<>> /\ UNCHANGED shown
             \/ /\ ~Unsafe(pending \o Piece(n))
                /\ shown' = shown \o SubSeq(pending \o Piece(n), 1, Emittable(pending \o Piece(n)))
                /\ pending' = SubSeq(pending \o Piece(n), Emittable(pending \o Piece(n)) + 1, Len(pending \o Piece(n)))
                /\ UNCHANGED verdict
    BY Zenon DEF FeedContent
  <1> DEFINE r == read + n
             u == SubSeq(t, s + 1, r)
             c == Emittable(u)
  <1>4. /\ s \in 0..Len(t) /\ read \in s..Len(t) /\ r \in read..Len(t) /\ r \in s..Len(t) /\ r \in 0..Len(t)
        /\ s \in 0..r
    BY <1>1
  <1>5. pending \o Piece(n) = u
    BY <1>1, <1>2, <1>4, Adjacent DEF Piece
  <1>6. GuardTyped'
    BY <1>1, <1>3, <1>4 DEF GuardTyped
  <1>7. CASE verdict' = "caught" /\ pending' = <<>> /\ UNCHANGED shown
    <2>1. s \in 0..read' /\ stream'.text = t /\ verdict' = "caught" /\ pending' = <<>> /\ shown' = SubSeq(t, 1, s) /\ AllowedUpTo(t, s)
      BY <1>1, <1>2, <1>3, <1>4, <1>7
    <2> HIDE DEF t
    <2> QED BY <1>6, <2>1 DEF AnswerKnown
  <1>8. CASE /\ ~Unsafe(u)
             /\ shown' = shown \o SubSeq(u, 1, c)
             /\ pending' = SubSeq(u, c + 1, Len(u))
             /\ UNCHANGED verdict
    <2>0. u = SubSeq(t, s + 1, r)
      OBVIOUS
    <2>1. u \in Seq(STRING) /\ Len(u) = r - s
      BY <1>1, <1>4, PartOfText
    <2> HIDE DEF u
    <2>2. /\ c \in 0..(r - s)
          /\ \A k \in 1..Len(Norm(u)) : Origins(u)[k] <= c => k + MaxWordLen <= Len(Norm(u)) + 1
      BY <2>1, EmittableIs
    <2> HIDE DEF c, t, r
    <2>3. s + c \in 0..r /\ s + c \in s..Len(t) /\ r - s \in c..(r - s)
      BY <1>1, <1>4, <2>2
    <2>4. SubSeq(u, 1, c) = SubSeq(t, s + 1, s + c)
      <3>1. 0 \in 0..(r - s) /\ c \in 0..(r - s) /\ s + 0 + 1 = s + 1 /\ 0 + 1 = 1
        BY <1>1, <1>4, <2>2
      <3>2. SubSeq(SubSeq(t, s + 1, r), 0 + 1, c) = SubSeq(t, s + 0 + 1, s + c)
        BY <1>1, <1>4, <3>1, PartOfPart
      <3> QED BY <2>0, <3>1, <3>2
    <2>5. shown' = SubSeq(t, 1, s + c)
      <3>1. 0 \in 0..Len(t) /\ s \in 0..Len(t) /\ 0 + 1 = 1
        BY <1>1, <1>4
      <3>2. SubSeq(t, 0 + 1, s) \o SubSeq(t, s + 1, s + c) = SubSeq(t, 0 + 1, s + c)
        BY <1>1, <2>3, <3>1, Adjacent
      <3> QED BY <1>2, <1>8, <2>4, <3>1, <3>2 DEF t
    <2>6. pending' = SubSeq(t, (s + c) + 1, r)
      <3>1. SubSeq(SubSeq(t, s + 1, r), c + 1, r - s) = SubSeq(t, s + c + 1, s + (r - s))
        BY <1>1, <1>4, <2>2, <2>3, PartOfPart
      <3>2. s + (r - s) = r
        BY <1>1, <1>4
      <3> QED BY <1>8, <2>0, <2>1, <3>1, <3>2
    <2>7. ASSUME NEW h \in Hits(Norm(t)), s < Origins(t)[h[1]], Origins(t)[h[1]] <= s + c
          PROVE  h[2] <= RankIn(Counted(t), r)
      <3> DEFINE a == RankIn(Counted(t), s)
                 b == RankIn(Counted(t), r)
                 x == h[1]
                 y == h[2]
                 N == Len(Norm(t))
      <3>1. Normed(t, s, r, u, a, b)
        BY <1>1, <1>4, <2>0, NormOfPart
      <3>2. x \in 1..N /\ y \in x..N /\ y < x + MaxWordLen /\ N \in Nat
        BY <1>1, NormIs, HitIs
      <3>3. Origins(t)[x] \in 1..Len(t)
        BY <1>1, <3>2, OriginsRise
      <3>4. x <= b /\ ~(x <= a)
        <4>1. Origins(t)[x] <= r /\ ~(Origins(t)[x] <= s)
          BY <1>1, <1>4, <2>3, <2>7, <3>3
        <4> QED BY <1>1, <1>4, <3>2, <4>1, CountedUpTo
      <3>5. a \in Nat /\ b \in a..N /\ Len(Norm(u)) = b - a
        BY <3>1 DEF Normed
      <3> HIDE DEF a, b, x, y, N
      <3>6. x - a \in 1..(b - a) /\ a + (x - a) = x
        BY <3>2, <3>4, <3>5
      <3>7. Origins(u)[x - a] = Origins(t)[x] - s
        BY <3>1, <3>6 DEF Normed
      <3>8. Origins(u)[x - a] <= c
        BY <1>1, <1>4, <2>2, <2>7, <3>3, <3>7 DEF x
      <3>9. (x - a) + MaxWordLen <= (b - a) + 1
        BY <2>2, <3>5, <3>6, <3>8
      <3>10. MaxWordLen \in Nat
        BY LongestWord
      <3>11. y <= b
        BY <3>2, <3>5, <3>6, <3>9, <3>10
      <3> QED BY <3>11 DEF y, b
    <2>8. AllowedUpTo(t, s + c)
      <3>1. AllowedUpTo(t, s) /\ ~Unsafe(SubSeq(t, s + 1, r))
        BY <1>2, <1>8, <2>0
      <3> QED BY <1>1, <1>4, <2>2, <2>7, <3>1, LookClears
    <2>9. stream'.text = t /\ read' = r /\ verdict' = "no"
      BY <1>1, <1>3, <1>8 DEF t, r
    <2> QED BY <1>6, <2>3, <2>5, <2>6, <2>8, <2>9 DEF AnswerKnown
  <1> QED BY <1>3, <1>5, <1>6, <1>7, <1>8

LEMMA FlushesAnswer ==
    ASSUME GuardTyped, AnswerKnown, FlushContent
    PROVE  GuardTyped' /\ AnswerKnown'
  <1> DEFINE t == stream.text
             n == Len(t)
  <1>1. /\ verdict = "no" /\ read = n /\ stream' = stream /\ read' = read /\ pending' = <<>>
        /\ t \in Seq(STRING) /\ n \in Nat
        /\ \/ Unsafe(pending) /\ verdict' = "caught" /\ UNCHANGED shown
           \/ ~Unsafe(pending) /\ verdict' = "passed" /\ shown' = shown \o pending
    BY LenProperties DEF FlushContent, GuardTyped
  <1>2. PICK s \in 0..n : /\ shown = SubSeq(t, 1, s) /\ AllowedUpTo(t, s)
                          /\ pending = SubSeq(t, s + 1, n)
    BY <1>1 DEF AnswerKnown
  <1>3. GuardTyped'
    BY <1>1 DEF GuardTyped
  <1>4. CASE Unsafe(pending) /\ verdict' = "caught" /\ UNCHANGED shown
    <2>1. s \in 0..read' /\ stream'.text = t /\ verdict' = "caught" /\ pending' = <<>> /\ shown' = SubSeq(t, 1, s) /\ AllowedUpTo(t, s)
      BY <1>1, <1>2, <1>4
    <2> HIDE DEF t
    <2> QED BY <1>3, <2>1 DEF AnswerKnown
  <1>5. CASE ~Unsafe(pending) /\ verdict' = "passed" /\ shown' = shown \o pending
    <2> HIDE DEF t
    <2>1. 0 \in 0..n /\ s \in 0..n /\ n \in s..n /\ n - s \in 0..(n - s) /\ s + (n - s) = n /\ 0 + 1 = 1
      BY <1>1
    <2>2. shown' = SubSeq(t, 1, n)
      <3>1. SubSeq(t, 0 + 1, s) \o SubSeq(t, s + 1, n) = SubSeq(t, 0 + 1, n)
        BY <1>1, <2>1, Adjacent
      <3> QED BY <1>2, <1>5, <2>1, <3>1
    <2>3. ASSUME NEW h \in Hits(Norm(t))
          PROVE  h[2] <= RankIn(Counted(t), n)
      <3>1. h[2] \in h[1]..Len(Norm(t))
        BY <1>1, NormIs, HitIs
      <3>2. Counted(t) \in SUBSET (1..n) /\ Len(Norm(t)) = Cardinality(Counted(t))
        BY <1>1, NormIs
      <3>3. RankIn(Counted(t), n) = Cardinality(Counted(t))
        BY <1>1, <3>2, RankStep
      <3> QED BY <3>1, <3>2, <3>3
    <2>4. AllowedUpTo(t, n)
      <3> DEFINE c == n - s
      <3>1. AllowedUpTo(t, s) /\ ~Unsafe(SubSeq(t, s + 1, n))
        BY <1>2, <1>5
      <3>2. s \in 0..Len(t) /\ n \in s..Len(t) /\ c \in 0..(n - s) /\ s + c = n
        BY <2>1
      <3> HIDE DEF n, c
      <3>3. \A h \in Hits(Norm(t)) : s < Origins(t)[h[1]] /\ Origins(t)[h[1]] <= s + c => h[2] <= RankIn(Counted(t), n)
        BY <2>3
      <3>4. AllowedUpTo(t, s + c)
        BY <1>1, <3>1, <3>2, <3>3, LookClears
      <3> QED BY <3>2, <3>4
    <2>5. stream'.text = t /\ n \in 0..read' /\ verdict' = "passed" /\ pending' = <<>>
      BY <1>1, <1>5 DEF t
    <2>6. n = Len(stream'.text) /\ shown' = SubSeq(stream'.text, 1, n) /\ AllowedUpTo(stream'.text, n)
      BY <2>2, <2>4, <2>5
    <2> HIDE DEF n
    <2>7. AnswerKnown'
      BY <2>5, <2>6 DEF AnswerKnown
    <2> QED BY <1>3, <2>7
  <1> QED BY <1>1, <1>3, <1>4, <1>5

-----------------------------------------------------------------------------
(* The reasoning: lines and fingerprints.                                 *)

\* A fingerprint that is found is on one line, and one that fits is no longer than the
\* overlap and a character.
LEMMA PrintIs ==
    ASSUME NEW t \in Seq(STRING), NEW i \in 1..Len(t), NEW j \in 1..Len(t),
           SubSeq(t, i, j) \in Strong \cup Weak
    PROVE  /\ i <= j /\ \A k \in i..j : t[k] # "n"
           /\ SubSeq(t, i, j) \in Fitting => j - i <= Overlap
  <1> DEFINE p == SubSeq(t, i, j)
  <1>1. /\ p \in Seq(STRING) /\ p # <<>> /\ \A k \in DOMAIN p : p[k] # "n"
        /\ p \in Fitting => Len(p) - 1 <= Overlap
        /\ Overlap \in Nat
    BY GuardAssumption DEF Fitting
  <1>2. Len(t) \in Nat /\ i \in Int /\ j \in Int
    BY LenProperties
  <1>3. i <= j
    <2> SUFFICES ASSUME ~(i <= j) PROVE FALSE
      OBVIOUS
    <2>1. j < i
      BY <1>2
    <2>2. p = <<>>
      BY <1>2, <2>1, SubSeqEmpty
    <2> QED BY <1>1, <2>2
  <1>4. Len(p) = j - (i - 1) /\ \A k \in 1..(j - (i - 1)) : p[k] = t[(i - 1) + k]
    <2> DEFINE s == i - 1
    <2>1. s \in 0..Len(t) /\ j \in s..Len(t) /\ s + 1 = i
      BY <1>2, <1>3
    <2> HIDE DEF s
    <2>2. Len(SubSeq(t, s + 1, j)) = j - s /\ \A k \in 1..(j - s) : SubSeq(t, s + 1, j)[k] = t[s + k]
      BY <2>1, PartOfText
    <2> QED BY <2>1, <2>2 DEF s
  <1>5. DOMAIN p = 1..Len(p)
    BY <1>1, LenProperties
  <1> HIDE DEF p
  <1>6. ASSUME NEW k \in i..j
        PROVE  t[k] # "n"
    <2>1. k - (i - 1) \in 1..(j - (i - 1)) /\ (i - 1) + (k - (i - 1)) = k
      BY <1>2
    <2> QED BY <1>1, <1>4, <1>5, <2>1
  <1>7. p \in Fitting => j - i <= Overlap
    BY <1>1, <1>2, <1>4
  <1> QED BY <1>3, <1>6, <1>7 DEF p

\* What a part of a text has, the text has there.
LEMMA HasIn ==
    ASSUME NEW t \in Seq(STRING), NEW s \in 0..Len(t), NEW r \in s..Len(t), NEW P
    PROVE  Has(SubSeq(t, s + 1, r), P) <=> \E i, j \in (s + 1)..r : SubSeq(t, i, j) \in P
  <1> DEFINE u == SubSeq(t, s + 1, r)
  <1>1. u \in Seq(STRING) /\ Len(u) = r - s /\ \A i \in 1..(r - s) : u[i] = t[s + i]
    BY PartOfText
  <1>2. Len(t) \in Nat /\ DOMAIN u = 1..Len(u)
    BY <1>1, LenProperties
  <1> HIDE DEF u
  <1>3. s \in Nat /\ r \in Nat /\ s + Len(u) <= Len(t)
    BY <1>1, <1>2
  <1>4. \A i, j \in 1..Len(u) : SubSeq(u, i, j) = SubSeq(t, s + i, s + j)
    BY <1>1, <1>3, SamePart
  <1>5. ASSUME Has(u, P)
        PROVE  \E i, j \in (s + 1)..r : SubSeq(t, i, j) \in P
    <2>1. PICK i \in 1..Len(u), j \in 1..Len(u) : SubSeq(u, i, j) \in P
      BY <1>2, <1>5 DEF Has
    <2>2. s + i \in (s + 1)..r /\ s + j \in (s + 1)..r
      BY <1>1, <1>3
    <2>3. SubSeq(t, s + i, s + j) \in P
      BY <1>4, <2>1
    <2> QED BY <2>2, <2>3
  <1>6. ASSUME NEW i \in (s + 1)..r, NEW j \in (s + 1)..r, SubSeq(t, i, j) \in P
        PROVE  Has(u, P)
    <2>1. i - s \in 1..Len(u) /\ j - s \in 1..Len(u) /\ s + (i - s) = i /\ s + (j - s) = j
      BY <1>1, <1>3
    <2>2. SubSeq(u, i - s, j - s) = SubSeq(t, s + (i - s), s + (j - s))
      BY <1>4, <2>1
    <2>3. SubSeq(u, i - s, j - s) \in P
      BY <1>6, <2>1, <2>2
    <2> QED BY <1>2, <2>1, <2>3 DEF Has
  <1> QED BY <1>5, <1>6 DEF u

EndsLine(s) == s # <<>> => s[Len(s)] = "n"

\* Whole lines and what comes behind them have no fingerprint that neither of the two has.
LEMMA Joined ==
    ASSUME NEW a \in Seq(STRING), NEW b \in Seq(STRING), EndsLine(a),
           ~Has(a, Strong \cup Weak), ~Has(b, Strong \cup Weak)
    PROVE  a \o b \in Seq(STRING) /\ ~Has(a \o b, Strong \cup Weak)
  <1> DEFINE t == a \o b
             l == Len(a)
             m == Len(b)
  <1>1. l \in Nat /\ m \in Nat /\ DOMAIN a = 1..l /\ DOMAIN b = 1..m
    BY LenProperties
  <1>2. t \in Seq(STRING) /\ Len(t) = l + m /\ \A i \in 1..(l + m) : t[i] = IF i <= l THEN a[i] ELSE b[i - l]
    BY ConcatProperties
  <1>3. DOMAIN t = 1..(l + m)
    BY <1>2, LenProperties
  <1> HIDE DEF t
  <1> SUFFICES ASSUME NEW i \in 1..(l + m), NEW j \in 1..(l + m), SubSeq(t, i, j) \in Strong \cup Weak
               PROVE  FALSE
    BY <1>2, <1>3 DEF Has, t
  <1>4. i <= j /\ \A k \in i..j : t[k] # "n"
    BY <1>2, PrintIs
  <1>5. CASE j <= l
    <2>1. 0 \in Nat /\ 0 + l <= l + m /\ i \in 1..l /\ j \in 1..l /\ 0 + i = i /\ 0 + j = j
      BY <1>1, <1>4, <1>5
    <2>2. \A k \in 1..l : a[k] = t[0 + k]
      BY <1>1, <1>2
    <2>3. SubSeq(a, i, j) = SubSeq(t, 0 + i, 0 + j)
      BY <1>2, <2>1, <2>2, SamePart
    <2>4. SubSeq(a, i, j) \in Strong \cup Weak
      BY <2>1, <2>3
    <2> QED BY <1>1, <2>1, <2>4 DEF Has
  <1>6. CASE l < i
    <2> DEFINE x == i - l
               y == j - l
    <2>1. x \in 1..m /\ y \in 1..m /\ l + x = i /\ l + y = j /\ l + m <= l + m
      BY <1>1, <1>4, <1>6
    <2>2. \A k \in 1..m : b[k] = t[l + k]
      <3> TAKE k \in 1..m
      <3>1. l + k \in 1..(l + m) /\ ~(l + k <= l) /\ (l + k) - l = k
        BY <1>1
      <3> QED BY <1>2, <3>1
    <2> HIDE DEF x, y
    <2>3. SubSeq(b, x, y) = SubSeq(t, l + x, l + y)
      BY <1>1, <1>2, <2>1, <2>2, SamePart
    <2>4. SubSeq(b, x, y) \in Strong \cup Weak
      BY <2>1, <2>3
    <2> QED BY <1>1, <2>1, <2>4 DEF Has
  <1>7. CASE i <= l /\ l < j
    <2>1. l \in i..j /\ l \in 1..(l + m) /\ l # 0
      BY <1>1, <1>7
    <2>2. a # <<>>
      BY <2>1, EmptySeq
    <2>3. t[l] = "n"
      BY <1>1, <1>2, <2>1, <2>2 DEF EndsLine
    <2> QED BY <1>4, <2>1, <2>3
  <1> QED BY <1>1, <1>5, <1>6, <1>7

\* Positions picked one behind the other have places one behind the other.
LEMMA NthRun ==
    ASSUME NEW n \in Nat, NEW I \in SUBSET (1..n), NEW i \in 1..Cardinality(I), NEW j \in i..Cardinality(I),
           \A k \in i..(j - 1) : Nth(I, k) + 1 \in I
    PROVE  \A d \in 0..(j - i) : Nth(I, i + d) = Nth(I, i) + d
  <1> DEFINE S == {d \in Nat : Nth(I, i + d) = Nth(I, i) + d}
             m == j - i
  <1>1. InOrder(I)
    BY NthIs
  <1>2. Cardinality(I) \in Nat /\ i \in Nat /\ j \in Nat /\ m \in Nat /\ i + m = j
    BY <1>1 DEF InOrder
  <1>3. \A k \in 1..Cardinality(I) : Nth(I, k) \in I /\ Nth(I, k) \in Nat /\ RankIn(I, Nth(I, k)) = k
    <2>1. \A x \in I : x \in Nat
      OBVIOUS
    <2>2. \A k \in 1..Cardinality(I) : Nth(I, k) \in I /\ RankIn(I, Nth(I, k)) = k
      BY <1>1 DEF InOrder
    <2> QED BY <2>1, <2>2
  <1>4. 0 \in S
    <2>1. Nth(I, i) \in Nat /\ i + 0 = i
      BY <1>2, <1>3
    <2> QED BY <2>1
  <1>5. ASSUME NEW d \in 0..(m - 1), d \in S
        PROVE  d + 1 \in S
    <2> DEFINE k == i + d
               x == Nth(I, k)
    <2>1. k \in i..(j - 1) /\ k \in 1..Cardinality(I) /\ k + 1 = i + (d + 1) /\ d \in Nat
      BY <1>2
    <2>2. x \in I /\ x \in Nat /\ RankIn(I, x) = k /\ x + 1 \in I /\ x = Nth(I, i) + d
      BY <1>3, <1>5, <2>1
    <2>3. Nth(I, i) \in Nat
      BY <1>2, <1>3
    <2> HIDE DEF x, k
    <2>4. RankIn(I, x + 1) = k + 1
      <3>1. RankIn(I, x + 1) = RankIn(I, x) + (IF x + 1 \in I THEN 1 ELSE 0)
        BY <2>2, RankStep
      <3> QED BY <2>2, <3>1
    <2>5. Nth(I, k + 1) = x + 1
      BY <1>1, <2>2, <2>4 DEF InOrder
    <2>6. x + 1 = Nth(I, i) + (d + 1)
      BY <2>1, <2>2, <2>3
    <2> QED BY <2>1, <2>5, <2>6
  <1> HIDE DEF S
  <1>6. \A d \in 0..m : d \in S
    BY <1>2, <1>4, <1>5, Reaches
  <1> QED BY <1>6 DEF S

\* Parts that correspond, of two texts, each at its place.
LEMMA SameRun ==
    ASSUME NEW t \in Seq(STRING), NEW v \in Seq(STRING), NEW i \in 1..Len(v), NEW j \in i..Len(v),
           NEW a \in 1..Len(t), NEW b \in a..Len(t), b - a = j - i,
           \A d \in 0..(j - i) : v[i + d] = t[a + d]
    PROVE  SubSeq(v, i, j) = SubSeq(t, a, b)
  <1> DEFINE x == i - 1
             y == a - 1
  <1>1. Len(t) \in Nat /\ Len(v) \in Nat
    BY LenProperties
  <1>2. /\ x \in 0..Len(v) /\ j \in x..Len(v) /\ x + 1 = i /\ y \in 0..Len(t) /\ b \in y..Len(t) /\ y + 1 = a
        /\ j - x = b - y
    BY <1>1
  <1>3. \A k \in 1..(j - x) : v[x + k] = t[y + k]
    <2> TAKE k \in 1..(j - x)
    <2>1. k - 1 \in 0..(j - i) /\ i + (k - 1) = x + k /\ a + (k - 1) = y + k
      BY <1>1
    <2> QED BY <2>1
  <1> HIDE DEF x, y
  <1>4. /\ SubSeq(v, x + 1, j) \in Seq(STRING) /\ Len(SubSeq(v, x + 1, j)) = j - x
        /\ \A k \in 1..(j - x) : SubSeq(v, x + 1, j)[k] = v[x + k]
    BY <1>2, PartOfText
  <1>5. /\ SubSeq(t, y + 1, b) \in Seq(STRING) /\ Len(SubSeq(t, y + 1, b)) = b - y
        /\ \A k \in 1..(b - y) : SubSeq(t, y + 1, b)[k] = t[y + k]
    BY <1>2, PartOfText
  <1>6. SubSeq(v, x + 1, j) = SubSeq(t, y + 1, b)
    <2> DEFINE p == SubSeq(v, x + 1, j)
               q == SubSeq(t, y + 1, b)
    <2>1. p \in Seq(STRING) /\ Len(p) = j - x /\ \A k \in 1..(j - x) : p[k] = v[x + k]
      BY <1>4
    <2>2. q \in Seq(STRING) /\ Len(q) = j - x /\ \A k \in 1..(j - x) : q[k] = t[y + k]
      BY <1>2, <1>5
    <2> HIDE DEF p, q
    <2>3. \A k \in 1..Len(p) : p[k] = q[k]
      BY <1>3, <2>1, <2>2
    <2>4. p = q
      BY <2>1, <2>2, <2>3, SeqEqual
    <2> QED BY <2>4 DEF p, q
  <1> QED BY <1>2, <1>6

\* The lines that are let through end with a line, and what is on one of them was on one
\* of them before.
LEMMA LinesAre ==
    ASSUME NEW t \in Seq(STRING), ~Has(t, Fitting)
    PROVE  Lines(t) \in Seq(STRING) /\ EndsLine(Lines(t)) /\ ~Has(Lines(t), Strong \cup Weak)
  <1> DEFINE I == Kept(t)
             n == Cardinality(I)
             v == Lines(t)
  <1>1. Len(t) \in Nat /\ DOMAIN t = 1..Len(t) /\ \A i \in 1..Len(t) : t[i] \in STRING
    BY LenProperties
  <1>2. I \in SUBSET (1..Len(t))
    BY <1>1 DEF Kept
  <1>3. InOrder(I)
    BY <1>1, <1>2, NthIs
  <1>4. ASSUME NEW i \in I
        PROVE  \E first \in 1..i, last \in i..Len(t) :
                  /\ IsLine(t, first, last) /\ ~Has(SubSeq(t, first, last), Weak)
                  /\ last \in I /\ \A x \in i..last : x \in I
    <2>1. PICK first \in 1..i, last \in i..Len(t) : IsLine(t, first, last) /\ ~Has(SubSeq(t, first, last), Weak)
      BY DEF Kept
    <2>2. ASSUME NEW x \in i..last
          PROVE  x \in I
      <3>1. x \in 1..Len(t) /\ first \in 1..x /\ last \in x..Len(t)
        BY <1>1, <1>2
      <3> QED BY <1>1, <2>1, <3>1 DEF Kept
    <2>3. last \in i..last
      BY <1>1, <1>2
    <2> HIDE DEF I
    <2> QED BY <2>1, <2>2, <2>3
  <1> HIDE DEF I
  <1>5. n \in Nat /\ \A k \in 1..n : Nth(I, k) \in I /\ Nth(I, k) \in 1..Len(t)
    BY <1>2, <1>3 DEF InOrder
  <1>6. v = [k \in 1..n |-> t[Nth(I, k)]]
    BY DEF Lines, Picked, I
  <1> HIDE DEF n
  <1>7. v \in Seq(STRING) /\ Len(v) = n /\ DOMAIN v = 1..n /\ \A k \in 1..n : v[k] = t[Nth(I, k)]
    <2>1. \A k \in 1..n : t[Nth(I, k)] \in STRING
      BY <1>1, <1>5
    <2> QED BY <1>5, <1>6, <2>1
  <1> HIDE DEF v
  <1>8. EndsLine(v)
    <2> SUFFICES ASSUME v # <<>> PROVE v[Len(v)] = "n"
      BY DEF EndsLine
    <2>1. n \in 1..n
      BY <1>5, <1>7, EmptySeq
    <2> DEFINE i == Nth(I, n)
    <2>2. i \in I /\ RankIn(I, i) = n
      BY <1>3, <2>1 DEF InOrder, n
    <2> HIDE DEF i
    <2>3. PICK first \in 1..i, last \in i..Len(t) : IsLine(t, first, last) /\ last \in I
      BY <1>4, <2>2
    <2>4. RankIn(I, last) \in 1..n
      BY <1>3, <2>3 DEF InOrder, n
    <2>5. ~(i < last)
      <3> SUFFICES ASSUME i < last PROVE FALSE
        OBVIOUS
      <3>1. RankIn(I, i) < RankIn(I, last)
        <4>1. Picks(t, I)
          BY <1>1, <1>2, PickedIs
        <4> QED BY <2>2, <2>3, <4>1 DEF Picks
      <3> QED BY <1>5, <2>2, <2>4, <3>1
    <2>6. last = i
      BY <1>1, <1>2, <2>2, <2>3, <2>5
    <2> QED BY <1>7, <2>1, <2>3, <2>6 DEF IsLine, i
  <1>9. ASSUME NEW i \in 1..n, NEW j \in 1..n, SubSeq(v, i, j) \in Strong \cup Weak
        PROVE  FALSE
    <2>1. i <= j /\ \A k \in i..j : v[k] # "n"
      BY <1>7, <1>9, PrintIs
    <2>2. j \in i..n /\ i \in 1..n /\ n \in Nat
      BY <1>5, <2>1
    <2>3. ASSUME NEW k \in i..(j - 1)
          PROVE  Nth(I, k) + 1 \in I
      <3>1. k \in i..j /\ k \in 1..n
        BY <2>2
      <3> DEFINE x == Nth(I, k)
      <3>2. x \in I /\ x \in 1..Len(t) /\ t[x] # "n"
        BY <1>5, <1>7, <2>1, <3>1
      <3> HIDE DEF x
      <3>3. PICK first \in 1..x, last \in x..Len(t) : IsLine(t, first, last) /\ \A y \in x..last : y \in I
        BY <1>4, <3>2
      <3>4. t[last] = "n"
        BY <3>3 DEF IsLine
      <3>5. x + 1 \in x..last
        BY <1>1, <3>2, <3>4
      <3> QED BY <3>3, <3>5 DEF x
    <2> DEFINE a == Nth(I, i)
               b == a + (j - i)
    <2>4. \A d \in 0..(j - i) : Nth(I, i + d) = a + d
      BY <1>1, <1>2, <2>2, <2>3, NthRun DEF n
    <2>5. \A d \in 0..(j - i) : v[i + d] = t[a + d] /\ v[i + d] # "n" /\ a + d \in 1..Len(t)
      <3> TAKE d \in 0..(j - i)
      <3>1. i + d \in 1..n /\ i + d \in i..j
        BY <2>2
      <3> QED BY <1>5, <1>7, <2>1, <2>4, <3>1
    <2>6. a \in I /\ a \in 1..Len(t)
      BY <1>5
    <2>7. b \in a..Len(t) /\ b - a = j - i
      <3> DEFINE d == j - i
      <3>1. d \in 0..(j - i) /\ d \in Nat
        BY <2>2
      <3>2. a + d \in 1..Len(t)
        BY <2>5, <3>1
      <3> HIDE DEF a
      <3> QED BY <1>1, <2>6, <3>1, <3>2
    <2> HIDE DEF a, b
    <2>8. SubSeq(v, i, j) = SubSeq(t, a, b)
      BY <1>7, <2>2, <2>5, <2>6, <2>7, SameRun
    <2>9. SubSeq(t, a, b) \notin Fitting
      <3>1. a \in DOMAIN t /\ b \in DOMAIN t
        BY <1>1, <2>6, <2>7
      <3> QED BY <3>1 DEF Has
    <2>10. SubSeq(t, a, b) \in Weak
      BY <1>9, <2>8, <2>9, GuardAssumption DEF Fitting
    <2>11. PICK first \in 1..a, last \in a..Len(t) : IsLine(t, first, last) /\ ~Has(SubSeq(t, first, last), Weak)
      BY <1>4, <2>6
    <2>12. b <= last
      <3> SUFFICES ASSUME last < b PROVE FALSE
        BY <1>1, <2>7, <2>11
      <3>1. last - a \in 0..(j - i) /\ a + (last - a) = last
        BY <1>1, <2>2, <2>6, <2>7
      <3>2. t[last] # "n"
        BY <2>5, <3>1
      <3> QED BY <2>11, <3>2 DEF IsLine
    <2> DEFINE s == first - 1
    <2>13. s \in 0..Len(t) /\ last \in s..Len(t) /\ s + 1 = first /\ a \in first..last /\ b \in first..last
      BY <1>1, <2>6, <2>7, <2>11, <2>12
    <2> HIDE DEF s
    <2>14. Has(SubSeq(t, s + 1, last), Weak)
      BY <2>10, <2>13, HasIn
    <2> QED BY <2>11, <2>13, <2>14
  <1>10. ~Has(v, Strong \cup Weak)
    BY <1>7, <1>9 DEF Has
  <1> QED BY <1>7, <1>8, <1>10 DEF v

\* Where the last line ends.
LEMMA LastEndIs ==
    ASSUME NEW t \in Seq(STRING)
    PROVE  LastEnd(t) \in 0..Len(t) /\ (LastEnd(t) = 0 \/ t[LastEnd(t)] = "n")
  <1> DEFINE ends == {0} \cup {i \in DOMAIN t : t[i] = "n"}
  <1>1. Len(t) \in Nat /\ DOMAIN t = 1..Len(t)
    BY LenProperties
  <1>2. ends \in SUBSET (0..Len(t)) /\ ends # {} /\ \A e \in ends : e = 0 \/ t[e] = "n"
    BY <1>1
  <1> HIDE DEF ends
  <1>3. \E e \in ends : \A r \in ends : r <= e
    BY <1>1, <1>2, GreatestNat
  <1>4. LastEnd(t) = CHOOSE e \in ends : \A r \in ends : r <= e
    BY DEF LastEnd, ends
  <1>5. LastEnd(t) \in ends
    BY <1>3, <1>4
  <1> QED BY <1>2, <1>5

\* The last characters of a text.
LEMMA LastOfIs ==
    ASSUME NEW t \in Seq(STRING)
    PROVE  \E p \in 0..Len(t) : LastOf(t, Overlap) = SubSeq(t, p + 1, Len(t)) /\ (p = 0 \/ p = Len(t) - Overlap)
  <1>1. Len(t) \in Nat /\ Overlap \in Nat
    BY LenProperties, GuardAssumption
  <1>2. CASE Len(t) > Overlap
    <2> DEFINE p == Len(t) - Overlap
    <2>1. p \in 0..Len(t) /\ p + 1 = Len(t) - Overlap + 1
      BY <1>1, <1>2
    <2>2. LastOf(t, Overlap) = SubSeq(t, p + 1, Len(t))
      BY <1>2, <2>1 DEF LastOf
    <2> QED BY <2>1, <2>2
  <1>3. CASE ~(Len(t) > Overlap)
    <2>1. 0 \in 0..Len(t) /\ 0 + 1 = 1
      BY <1>1
    <2>2. LastOf(t, Overlap) = SubSeq(t, 1, Len(t))
      BY <1>3 DEF LastOf
    <2> QED BY <2>1, <2>2
  <1> QED BY <1>2, <1>3

\* What the guard of the reasoning keeps: what came behind the last line, and what a strong
\* fingerprint that is not whole yet could have begun in.
Keeps(t, r) ==
    \E e, c \in 0..r :
       /\ pending = SubSeq(t, e + 1, r) /\ (e = 0 \/ t[e] = "n")
       /\ carry = SubSeq(t, c + 1, r) /\ (c <= e \/ c <= r - Overlap)

\* What is shown of a reasoning is whole lines until its end, none with a fingerprint, and
\* what was read has no strong one that fits, or it would have been caught.
ReasoningKnown ==
    /\ shown \in Seq(STRING) /\ ~Has(shown, Strong \cup Weak)
    /\ verdict # "caught" => ~Has(SubSeq(stream.text, 1, read), Fitting)
    /\ verdict = "no" => EndsLine(shown) /\ Keeps(stream.text, read)

\* A strong fingerprint that fits and was not there before is in what is looked at.
LEMMA StrongIsSeen ==
    ASSUME NEW t \in Seq(STRING), NEW q \in 0..Len(t), NEW r \in q..Len(t),
           NEW e \in 0..q, NEW c \in 0..q, e = 0 \/ t[e] = "n", c <= e \/ c <= q - Overlap,
           ~Has(SubSeq(t, 1, q), Fitting), ~Has(SubSeq(t, c + 1, r), Strong)
    PROVE  ~Has(SubSeq(t, 1, r), Fitting)
  <1>1. /\ Len(t) \in Nat /\ Overlap \in Nat /\ 0 \in 0..Len(t) /\ 0 + 1 = 1
        /\ q \in 0..Len(t) /\ r \in 0..Len(t) /\ c \in 0..Len(t) /\ r \in c..Len(t)
    BY LenProperties, GuardAssumption
  <1> SUFFICES ASSUME NEW i \in 1..r, NEW j \in 1..r, SubSeq(t, i, j) \in Fitting
               PROVE  FALSE
    <2>1. Has(SubSeq(t, 0 + 1, r), Fitting) <=> \E i, j \in (0 + 1)..r : SubSeq(t, i, j) \in Fitting
      BY <1>1, HasIn
    <2> QED BY <1>1, <2>1
  <1>2. i \in 1..Len(t) /\ j \in 1..Len(t) /\ SubSeq(t, i, j) \in Strong \cup Weak
    BY <1>1 DEF Fitting
  <1>3. i <= j /\ j - i <= Overlap /\ \A k \in i..j : t[k] # "n"
    BY <1>2, PrintIs
  <1>4. ~(j <= q)
    <2> SUFFICES ASSUME j <= q PROVE FALSE
      OBVIOUS
    <2>1. i \in (0 + 1)..q /\ j \in (0 + 1)..q
      BY <1>1, <1>3
    <2>2. Has(SubSeq(t, 0 + 1, q), Fitting)
      BY <1>1, <2>1, HasIn
    <2> QED BY <1>1, <2>2
  <1>5. e < i
    <2> SUFFICES ASSUME ~(e < i) PROVE FALSE
      OBVIOUS
    <2>1. e \in i..j /\ e # 0
      BY <1>1, <1>4
    <2> QED BY <1>3, <2>1
  <1>6. i \in (c + 1)..r /\ j \in (c + 1)..r
    BY <1>1, <1>3, <1>4, <1>5
  <1>7. SubSeq(t, i, j) \in Strong
    BY DEF Fitting
  <1>8. Has(SubSeq(t, c + 1, r), Strong)
    BY <1>1, <1>6, <1>7, HasIn
  <1> QED BY <1>8

LEMMA FeedsReasoning ==
    ASSUME GuardTyped, ReasoningKnown, FeedReasoning
    PROVE  GuardTyped' /\ ReasoningKnown'
  <1> DEFINE t == stream.text
  <1>1. /\ verdict = "no" /\ read < Len(t) /\ stream' = stream
        /\ t \in Seq(STRING) /\ Len(t) \in Nat /\ read \in 0..Len(t)
    BY LenProperties DEF FeedReasoning, More, GuardTyped
  <1>2. /\ shown \in Seq(STRING) /\ ~Has(shown, Strong \cup Weak) /\ EndsLine(shown)
        /\ ~Has(SubSeq(t, 1, read), Fitting)
        /\ Keeps(t, read)
    BY <1>1 DEF ReasoningKnown
  <1>3. PICK e \in 0..read, c \in 0..read :
          /\ pending = SubSeq(t, e + 1, read) /\ (e = 0 \/ t[e] = "n")
          /\ carry = SubSeq(t, c + 1, read) /\ (c <= e \/ c <= read - Overlap)
    BY <1>2 DEF Keeps
  <1>4. PICK n \in 1..Len(t) - read :
          /\ read' = read + n
          /\ IF Has(carry \o Piece(n), Strong)
             THEN verdict' = "caught" /\ UNCHANGED <<shown, pending, carry>>
             ELSE /\ carry' = LastOf(pending \o Piece(n), Overlap)
                  /\ shown' = shown \o Lines(pending \o Piece(n))
                  /\ pending' = SubSeq(pending \o Piece(n), LastEnd(pending \o Piece(n)) + 1, Len(pending \o Piece(n)))
                  /\ UNCHANGED verdict
    BY Zenon DEF FeedReasoning
  <1> DEFINE r == read + n
             u == SubSeq(t, e + 1, r)
  <1>5. /\ e \in 0..Len(t) /\ c \in 0..Len(t) /\ read \in e..Len(t) /\ read \in c..Len(t)
        /\ r \in read..Len(t) /\ r \in e..Len(t) /\ r \in 0..Len(t)
    BY <1>1
  <1>6. pending \o Piece(n) = u
    BY <1>1, <1>3, <1>5, Adjacent DEF Piece
  <1>7. carry \o Piece(n) = SubSeq(t, c + 1, r)
    BY <1>1, <1>3, <1>5, Adjacent DEF Piece
  <1>8. GuardTyped'
    BY <1>1, <1>4, <1>5 DEF GuardTyped
  <1>9. CASE Has(carry \o Piece(n), Strong)
    <2>1. verdict' = "caught" /\ shown' = shown
      BY <1>4, <1>9
    <2> QED BY <1>2, <1>8, <2>1 DEF ReasoningKnown
  <1>10. CASE ~Has(carry \o Piece(n), Strong)
    <2>0. u = SubSeq(t, e + 1, r)
      OBVIOUS
    <2>1. u \in Seq(STRING) /\ Len(u) = r - e
      BY <1>1, <1>5, PartOfText
    <2>2. read' = r
      BY <1>4
    <2> HIDE DEF u, r, t
    <2>3. /\ carry' = LastOf(u, Overlap) /\ shown' = shown \o Lines(u)
          /\ pending' = SubSeq(u, LastEnd(u) + 1, Len(u)) /\ verdict' = "no"
      BY <1>1, <1>4, <1>6, <1>10
    <2>4. ~Has(SubSeq(t, 1, r), Fitting)
      BY <1>1, <1>2, <1>3, <1>5, <1>7, <1>10, StrongIsSeen
    <2>5. ~Has(u, Fitting)
      <3> SUFFICES ASSUME Has(u, Fitting) PROVE FALSE
        OBVIOUS
      <3>1. PICK i \in (e + 1)..r, j \in (e + 1)..r : SubSeq(t, i, j) \in Fitting
        BY <1>1, <1>5, <2>0, HasIn
      <3>2. 0 \in 0..Len(t) /\ r \in 0..Len(t) /\ 0 + 1 = 1 /\ i \in (0 + 1)..r /\ j \in (0 + 1)..r
        BY <1>1, <1>5
      <3>3. Has(SubSeq(t, 0 + 1, r), Fitting)
        BY <1>1, <3>1, <3>2, HasIn
      <3> QED BY <2>4, <3>2, <3>3
    <2>6. Lines(u) \in Seq(STRING) /\ EndsLine(Lines(u)) /\ ~Has(Lines(u), Strong \cup Weak)
      BY <2>1, <2>5, LinesAre
    <2>7. shown' \in Seq(STRING) /\ ~Has(shown', Strong \cup Weak)
      BY <1>2, <2>3, <2>6, Joined
    <2>8. EndsLine(shown')
      <3> DEFINE v == Lines(u)
                 w == shown \o v
                 l == Len(shown)
                 m == Len(v)
      <3>1. v \in Seq(STRING) /\ EndsLine(v)
        BY <2>6
      <3> HIDE DEF v
      <3>2. l \in Nat /\ m \in Nat
        BY <1>2, <3>1, LenProperties
      <3>3. Len(w) = l + m /\ \A k \in 1..(l + m) : w[k] = IF k <= l THEN shown[k] ELSE v[k - l]
        BY <1>2, <3>1, ConcatProperties
      <3>4. CASE v = <<>>
        <4>1. w = shown
          BY <1>2, <3>4, ConcatEmptySeq
        <4> QED BY <1>2, <2>3, <4>1 DEF v
      <3>5. CASE v # <<>>
        <4>1. m # 0
          BY <3>1, <3>5, EmptySeq
        <4>2. w[l + m] = v[m]
          <5>1. l + m \in 1..(l + m) /\ ~(l + m <= l) /\ (l + m) - l = m
            BY <3>2, <4>1
          <5> QED BY <3>3, <5>1
        <4>3. w[Len(w)] = "n"
          BY <3>1, <3>3, <3>5, <4>2 DEF EndsLine
        <4> QED BY <2>3, <4>3 DEF EndsLine, v
      <3> QED BY <3>4, <3>5
    <2>9. \E x, y \in 0..r :
             /\ pending' = SubSeq(t, x + 1, r) /\ (x = 0 \/ t[x] = "n")
             /\ carry' = SubSeq(t, y + 1, r) /\ (y <= x \/ y <= r - Overlap)
      <3> DEFINE d == LastEnd(u)
      <3>1. d \in 0..(r - e) /\ (d = 0 \/ u[d] = "n")
        BY <2>1, LastEndIs
      <3>2. PICK p \in 0..(r - e) : LastOf(u, Overlap) = SubSeq(u, p + 1, r - e) /\ (p = 0 \/ p = (r - e) - Overlap)
        BY <2>1, LastOfIs
      <3> HIDE DEF d
      <3>3. pending' = SubSeq(t, (e + d) + 1, r)
        <4>1. SubSeq(SubSeq(t, e + 1, r), d + 1, r - e) = SubSeq(t, e + d + 1, e + (r - e))
          <5>1. r - e \in d..(r - e)
            BY <1>1, <1>5, <3>1
          <5> QED BY <1>1, <1>5, <3>1, <5>1, PartOfPart
        <4>2. e + (r - e) = r
          BY <1>1, <1>5
        <4> QED BY <2>0, <2>1, <2>3, <4>1, <4>2 DEF d
      <3>4. carry' = SubSeq(t, (e + p) + 1, r)
        <4>1. SubSeq(SubSeq(t, e + 1, r), p + 1, r - e) = SubSeq(t, e + p + 1, e + (r - e))
          <5>1. r - e \in p..(r - e)
            BY <1>1, <1>5, <3>2
          <5> QED BY <1>1, <1>5, <3>2, <5>1, PartOfPart
        <4>2. e + (r - e) = r
          BY <1>1, <1>5
        <4> QED BY <2>0, <2>3, <3>2, <4>1, <4>2
      <3>5. e + d \in 0..r /\ e + p \in 0..r /\ (e + p <= e + d \/ e + p <= r - Overlap)
        <4>1. Overlap \in Nat
          BY GuardAssumption
        <4> QED BY <1>1, <1>5, <3>1, <3>2, <4>1
      <3>6. e + d = 0 \/ t[e + d] = "n"
        <4>1. CASE d = 0
          <5>1. e + d = e
            BY <1>1, <1>5, <4>1
          <5> QED BY <1>3, <5>1 DEF t
        <4>2. CASE d # 0
          <5>1. d \in 1..(r - e)
            BY <1>1, <1>5, <3>1, <4>2
          <5>2. u[d] = t[e + d]
            BY <1>1, <1>5, <2>0, <5>1, PartOfText
          <5> QED BY <3>1, <4>2, <5>2
        <4> QED BY <4>1, <4>2
      <3> DEFINE x == e + d
                 y == e + p
      <3>7. /\ x \in 0..r /\ y \in 0..r /\ pending' = SubSeq(t, x + 1, r) /\ (x = 0 \/ t[x] = "n")
            /\ carry' = SubSeq(t, y + 1, r) /\ (y <= x \/ y <= r - Overlap)
        BY <3>3, <3>4, <3>5, <3>6
      <3> HIDE DEF x, y
      <3> QED BY <3>7
    <2>10. stream'.text = t
      BY <1>1 DEF t
    <2>11. Keeps(stream.text, read)'
      BY <2>2, <2>9, <2>10 DEF Keeps
    <2> QED BY <1>8, <2>2, <2>4, <2>7, <2>8, <2>10, <2>11 DEF ReasoningKnown
  <1> QED BY <1>9, <1>10

LEMMA FlushesReasoning ==
    ASSUME GuardTyped, ReasoningKnown, FlushReasoning
    PROVE  GuardTyped' /\ ReasoningKnown'
  <1> DEFINE t == stream.text
  <1>1. /\ verdict = "no" /\ stream' = stream /\ read' = read
        /\ verdict' = IF Has(pending, Strong) THEN "caught" ELSE "passed"
        /\ shown' = IF Has(pending, Strong \cup Weak) THEN shown ELSE shown \o pending
        /\ t \in Seq(STRING) /\ Len(t) \in Nat /\ read \in 0..Len(t)
    BY LenProperties DEF FlushReasoning, GuardTyped
  <1>2. /\ shown \in Seq(STRING) /\ ~Has(shown, Strong \cup Weak) /\ EndsLine(shown)
        /\ ~Has(SubSeq(t, 1, read), Fitting)
        /\ Keeps(t, read)
    BY <1>1 DEF ReasoningKnown
  <1>3. GuardTyped' /\ verdict' \in {"caught", "passed"}
    BY <1>1 DEF GuardTyped
  <1>4. pending \in Seq(STRING)
    <2>1. PICK e \in 0..read : pending = SubSeq(t, e + 1, read)
      BY <1>2 DEF Keeps
    <2>2. e \in 0..Len(t) /\ read \in e..Len(t)
      BY <1>1
    <2> QED BY <1>1, <2>1, <2>2, PartOfText
  <1>5. shown' \in Seq(STRING) /\ ~Has(shown', Strong \cup Weak)
    <2>1. CASE Has(pending, Strong \cup Weak)
      BY <1>1, <1>2, <2>1
    <2>2. CASE ~Has(pending, Strong \cup Weak)
      BY <1>1, <1>2, <1>4, <2>2, Joined
    <2> QED BY <2>1, <2>2
  <1>6. ~Has(SubSeq(stream'.text, 1, read'), Fitting)
    BY <1>1, <1>2
  <1>7. verdict' # "no"
    BY <1>3
  <1> QED BY <1>3, <1>5, <1>6, <1>7 DEF ReasoningKnown

GuardSound ==
    /\ GuardTyped
    /\ stream.guard = "answer" => AnswerKnown
    /\ stream.guard = "reasoning" => ReasoningKnown

LEMMA GuardInitOK ==
    ASSUME GuardInit
    PROVE  GuardSound
  <1> DEFINE t == stream.text
  <1>1. /\ stream.guard \in {"answer", "reasoning"} /\ t \in Seq(STRING) /\ Len(t) \in Nat
        /\ read = 0 /\ shown = <<>> /\ pending = <<>> /\ carry = <<>> /\ verdict = "no"
    BY GuardAssumption, LenProperties DEF GuardInit
  <1> HIDE DEF t
  <1>2. 0 \in 0..0 /\ 0 \in 0..Len(t) /\ 0 + 1 = 1
    BY <1>1
  <1>3. SubSeq(t, 1, 0) = <<>>
    BY SubSeqEmpty
  <1>4. GuardTyped
    BY <1>1, <1>2 DEF GuardTyped, t
  <1>5. AnswerKnown
    <2>1. AllowedUpTo(t, 0)
      <3> SUFFICES ASSUME NEW h \in Hits(Norm(t)), Origins(t)[h[1]] <= 0
                   PROVE  FALSE
        BY DEF AllowedUpTo
      <3>1. h[1] \in 1..Len(Norm(t))
        BY <1>1, NormIs, HitIs
      <3>2. Origins(t)[h[1]] \in 1..Len(t)
        BY <1>1, <3>1, OriginsRise
      <3> QED BY <1>1, <3>2
    <2> QED BY <1>1, <1>2, <1>3, <2>1 DEF AnswerKnown, t
  <1>6. ReasoningKnown
    <2>1. <<>> \in Seq(STRING) /\ DOMAIN <<>> = {}
      BY EmptySeq
    <2>2. \A P : ~Has(<<>>, P)
      BY <2>1 DEF Has
    <2>3. Keeps(t, 0)
      BY <1>1, <1>2, <1>3 DEF Keeps
    <2> QED BY <1>1, <1>3, <2>1, <2>2, <2>3 DEF ReasoningKnown, EndsLine, t
  <1> QED BY <1>4, <1>5, <1>6 DEF GuardSound

LEMMA GuardStepOK ==
    ASSUME GuardSound, [GuardNext]_guardVars
    PROVE  GuardSound'
  <1>1. CASE FeedContent
    <2>1. stream.guard = "answer" /\ stream' = stream /\ GuardTyped /\ AnswerKnown
      BY <1>1 DEF FeedContent, GuardSound
    <2>2. GuardTyped' /\ AnswerKnown'
      BY <1>1, <2>1, FeedsAnswer
    <2> QED BY <2>1, <2>2 DEF GuardSound
  <1>2. CASE FlushContent
    <2>1. stream.guard = "answer" /\ stream' = stream /\ GuardTyped /\ AnswerKnown
      BY <1>2 DEF FlushContent, GuardSound
    <2>2. GuardTyped' /\ AnswerKnown'
      BY <1>2, <2>1, FlushesAnswer
    <2> QED BY <2>1, <2>2 DEF GuardSound
  <1>3. CASE FeedReasoning
    <2>1. stream.guard = "reasoning" /\ stream' = stream /\ GuardTyped /\ ReasoningKnown
      BY <1>3 DEF FeedReasoning, GuardSound
    <2>2. GuardTyped' /\ ReasoningKnown'
      BY <1>3, <2>1, FeedsReasoning
    <2> QED BY <2>1, <2>2 DEF GuardSound
  <1>4. CASE FlushReasoning
    <2>1. stream.guard = "reasoning" /\ stream' = stream /\ GuardTyped /\ ReasoningKnown
      BY <1>4 DEF FlushReasoning, GuardSound
    <2>2. GuardTyped' /\ ReasoningKnown'
      BY <1>4, <2>1, FlushesReasoning
    <2> QED BY <2>1, <2>2 DEF GuardSound
  <1>5. CASE UNCHANGED guardVars
    BY <1>5 DEF guardVars, GuardSound, GuardTyped, AnswerKnown, ReasoningKnown, Keeps
  <1> QED BY <1>1, <1>2, <1>3, <1>4, <1>5 DEF GuardNext

\* What is known of a stream says what the guard promises.
LEMMA GuardSaysSo ==
    ASSUME GuardSound
    PROVE  GuardIsExact
  <1> DEFINE t == stream.text
  <1>1. /\ stream.guard \in {"answer", "reasoning"} /\ t \in Seq(STRING) /\ read \in 0..Len(t)
        /\ Len(t) \in Nat /\ verdict \in {"no", "caught", "passed"}
    BY LenProperties DEF GuardSound, GuardTyped
  <1>2. CASE stream.guard = "reasoning"
    BY <1>2 DEF GuardSound, ReasoningKnown, GuardIsExact, ShownIsSafe, PassedIsWhole
  <1>3. CASE stream.guard = "answer"
    <2>1. PICK s \in 0..read :
            /\ shown = SubSeq(t, 1, s) /\ AllowedUpTo(t, s)
            /\ verdict = "no" => pending = SubSeq(t, s + 1, read)
            /\ verdict # "no" => pending = <<>>
            /\ verdict = "passed" => s = Len(t)
      BY <1>3 DEF GuardSound, AnswerKnown
    <2>2. s \in 0..Len(t) /\ read \in s..Len(t) /\ 0 \in 0..Len(t) /\ s \in 0..s /\ 0 + 1 = 1
      BY <1>1
    <2> HIDE DEF t
    <2>3. ASSUME NEW h \in Hits(Norm(shown))
          PROVE  Exempt(t, Origins(t)[h[1]])
      <3> DEFINE u == SubSeq(t, 0 + 1, s)
                 a == RankIn(Counted(t), 0)
                 b == RankIn(Counted(t), s)
      <3>1. Normed(t, 0, s, u, a, b) /\ u = shown
        BY <1>1, <2>1, <2>2, NormOfPart
      <3>2. a = 0
        <4>1. Counted(t) \in SUBSET (1..Len(t))
          BY <1>1, NormIs
        <4> QED BY <1>1, <4>1, RankStep
      <3> HIDE DEF u, a, b
      <3>3. /\ u \in Seq(STRING) /\ b \in 0..Len(Norm(t)) /\ Len(Norm(u)) = b
            /\ \A k \in 1..b : Norm(u)[k] = Norm(t)[k] /\ Origins(u)[k] = Origins(t)[k]
        <4>1. \A k \in 1..(b - a) : Norm(u)[k] = Norm(t)[a + k] /\ Origins(u)[k] = Origins(t)[a + k] - 0
          BY <3>1 DEF Normed
        <4>2. /\ u \in Seq(STRING) /\ b \in 0..Len(Norm(t)) /\ Len(Norm(u)) = b
              /\ Len(Norm(t)) \in Nat
          BY <1>1, <3>1, <3>2, NormIs DEF Normed
        <4>3. ASSUME NEW k \in 1..b
              PROVE  Norm(u)[k] = Norm(t)[k] /\ Origins(u)[k] = Origins(t)[k]
          <5>1. k \in 1..(b - a) /\ a + k = k /\ k \in 1..Len(Norm(t))
            BY <3>2, <4>2
          <5>2. Origins(t)[k] \in 1..Len(t)
            BY <1>1, <5>1, OriginsRise
          <5> QED BY <1>1, <4>1, <5>1, <5>2
        <4> QED BY <4>2, <4>3
      <3>4. Norm(u) \in Seq(STRING) /\ Norm(t) \in Seq(STRING) /\ Len(Norm(t)) \in Nat
        BY <1>1, <3>3, NormIs
      <3>5. h \in Hits(Norm(u)) /\ h = <<h[1], h[2]>> /\ h[1] \in 1..b /\ h[2] \in 1..b
        <4>1. h \in Hits(Norm(u))
          BY <3>1
        <4>2. h = <<h[1], h[2]>> /\ h[1] \in 1..b /\ h[2] \in h[1]..b
          BY <3>3, <3>4, <4>1, HitIs
        <4> QED BY <3>4, <4>1, <4>2
      <3> DEFINE i == h[1]
                 j == h[2]
      <3>6. h = <<i, j>> /\ i \in 1..b /\ j \in 1..b /\ i \in 1..Len(Norm(u)) /\ 0 + i = i /\ 0 + j = j /\ 0 + b <= Len(Norm(t))
        BY <3>3, <3>4, <3>5
      <3> HIDE DEF i, j
      <3>7. h \in Hits(Norm(t))
        <4> DEFINE z == 0
        <4>0. \A k \in 1..b : z + k = k
          OBVIOUS
        <4>1. z \in Nat /\ z + i = i /\ z + j = j
          BY <3>6
        <4>2. z + Len(Norm(u)) <= Len(Norm(t)) /\ i \in 1..Len(Norm(u)) /\ j \in 1..Len(Norm(u))
          BY <3>3, <3>4, <3>6
        <4> HIDE DEF z
        <4>3. \A k \in 1..Len(Norm(u)) : Norm(u)[k] = Norm(t)[z + k]
          BY <3>3, <4>0
        <4>4. <<i, j>> \in Hits(Norm(u)) <=> <<z + i, z + j>> \in Hits(Norm(t))
          BY <3>4, <4>1, <4>2, <4>3, HitMoves
        <4> QED BY <3>5, <3>6, <4>1, <4>4
      <3>8. Origins(t)[i] <= s
        <4>1. Origins(u)[i] \in 1..Len(u)
          BY <3>3, <3>6, OriginsRise
        <4>2. Len(u) = s
          <5>1. Len(u) = s - 0
            BY <3>1 DEF Normed
          <5> QED BY <1>1, <5>1
        <4> QED BY <1>1, <3>3, <3>6, <4>1, <4>2
      <3> QED BY <2>1, <3>7, <3>8 DEF AllowedUpTo, i
    <2>4. verdict # "caught" => shown \o pending = SubSeq(t, 1, read)
      <3>1. CASE verdict = "no"
        <4>1. SubSeq(t, 0 + 1, s) \o SubSeq(t, s + 1, read) = SubSeq(t, 0 + 1, read)
          BY <1>1, <2>2, Adjacent
        <4> QED BY <2>1, <2>2, <3>1, <4>1
      <3>2. CASE verdict = "passed"
        <4>1. s = read
          BY <1>1, <2>1, <2>2, <3>2
        <4>2. shown \in Seq(STRING)
          BY <1>1, <2>1, <2>2, PartOfText
        <4>3. pending = <<>> /\ shown \o <<>> = shown
          BY <2>1, <3>2, <4>2, ConcatEmptySeq
        <4> QED BY <2>1, <4>1, <4>3
      <3> QED BY <1>1, <3>1, <3>2
    <2>5. verdict = "passed" => shown = t
      <3>1. SubSeq(t, 1, Len(t)) = t
        BY <1>1, SubSeqFull
      <3> QED BY <2>1, <3>1
    <2>6. Norm(t) \in Seq(STRING)
      BY <1>1, NormIs
    <2>7. \A h \in Hits(Norm(t)) : Scanned(Norm(t), h)
      <3> TAKE h \in Hits(Norm(t))
      <3>1. PICK k \in 0..Len(Norm(t)) : /\ k * (Window - (MaxWordLen - 1)) < h[1]
                                         /\ h[2] <= k * (Window - (MaxWordLen - 1)) + Window
        BY <2>6, AllScanned
      <3> QED BY <3>1 DEF Scanned
    <2>8. ASSUME Unsafe(t)
          PROVE  ContainsSensitive(t) /\ verdict # "passed"
      <3>1. ContainsSensitive(t)
        BY <1>1, <2>8, UnsafeIsFound
      <3>2. PICK h \in Hits(Norm(t)) : ~Exempt(t, Origins(t)[h[1]])
        BY <2>8 DEF Unsafe
      <3>3. Origins(t)[h[1]] \in 1..Len(t)
        <4>1. h[1] \in 1..Len(Norm(t))
          BY <2>6, HitIs
        <4> QED BY <1>1, <4>1, OriginsRise
      <3>4. ~(Origins(t)[h[1]] <= s)
        BY <2>1, <3>2 DEF AllowedUpTo
      <3>5. s # Len(t)
        BY <1>1, <3>3, <3>4
      <3> QED BY <2>1, <3>1, <3>5
    <2> QED BY <1>3, <2>3, <2>4, <2>5, <2>7, <2>8 DEF GuardIsExact, ShownIsSafe, PassedIsWhole, t
  <1> QED BY <1>1, <1>2, <1>3

\* However the stream is cut into pieces, no guard shows what it should stop, and the
\* filter shows an answer that it lets through whole: feed and flush of
\* ContentStreamGuard and of ReasoningStreamGuard, whatever the words, the fingerprints
\* and the streams are.
THEOREM GuardAlwaysExact == GuardSpec => []GuardIsExact
  <1>1. GuardInit => GuardSound
    BY GuardInitOK
  <1>2. GuardSound /\ [GuardNext]_guardVars => GuardSound'
    BY GuardStepOK
  <1>3. GuardSound => GuardIsExact
    BY GuardSaysSo
  <1> QED BY <1>1, <1>2, <1>3, PTL DEF GuardSpec

=============================================================================
