----------------------------- MODULE RagActions -----------------------------
(***************************************************************************)
(* Remediation actions, services/rag_actions.py with the policy that       *)
(* admits them (rag_policy, action_registry), the handlers that carry them *)
(* out and take them back, and the incidents they belong to.               *)
(*                                                                         *)
(* A request is named by its idempotency key, so it has at most one row in *)
(* rag_remediation_actions. A worker is a process that runs                *)
(* execute_queued_actions; it handles one action at a time, so its name    *)
(* stands for the token of its lease: a worker that died has lost its own. *)
(* The session lock of a worker is taken to last as long as the worker.    *)
(***************************************************************************)
EXTENDS RagStore, Integers

CONSTANTS
    Requests, RequestOf,   \* [key, incident, set, target, value] of each request
    Incidents,
    Workers,
    Allowed,               \* actions rag_action_specs enables in this environment
    Cooled,                \* actions with a cooldown in rag_action_specs
    AutoL1,                \* RAG_AUTO_REMEDIATION_ENABLED
    Reports,               \* reports the gate can give
    MaxActions,            \* bound: rows of rag_remediation_actions
    MaxCrashes, MaxLapses  \* bounds: processes that die, leases that lapse under a live worker

Risk == [probe_health |-> "L0", rerun_diagnosis |-> "L0", clear_exact_cache |-> "L1",
         adjust_rerank_top |-> "L1", apply_knowledge_change |-> "L2", set_user_active |-> "L2",
         set_channel_active |-> "L2", propose_wallet_adjustment |-> "L3"]
Reversible == {"adjust_rerank_top", "apply_knowledge_change", "set_user_active",
               "set_channel_active"}
Standalone == {"set_user_active", "set_channel_active", "propose_wallet_adjustment"}
Gated == {"adjust_rerank_top", "apply_knowledge_change"}

ASSUME ActionAssumption ==
    /\ \A r \in Requests : RequestOf[r].key \in DOMAIN Risk
    /\ Allowed \subseteq DOMAIN Risk /\ Cooled \subseteq DOMAIN Risk /\ AutoL1 \in BOOLEAN
    /\ MaxActions \in Nat /\ MaxCrashes \in Nat /\ MaxLapses \in Nat /\ None \notin Workers \cup Requests

VARIABLES
    incident,  \* rag_incidents.status
    row,       \* rag_remediation_actions
    worker,    \* each worker: its step, its action and what it knows of it
    lock,      \* holder of the advisory lock all handlers share
    manual,    \* the call of rollback_action under way (bound: one)
    torn,      \* history: requests whose rollback_action was cut short
    crashes, lapses   \* bounds: MaxCrashes, MaxLapses

bounds == <<crashes, lapses>>
vars == <<storeVars, incident, row, worker, lock, manual, torn, bounds>>

Key(r) == RequestOf[r].key
Open(i) == incident[i] \in {"open", "acknowledged"}
Actionable(r) == RequestOf[r].incident # None => Open(RequestOf[r].incident)
Unstarted == {"proposed", "waiting_approval", "queued"}
Ended == {"succeeded", "failed", "rolled_back", "cancelled"}

NoResult == [changed |-> FALSE, was |-> None]
NoRow == [status |-> "none", approved |-> FALSE, token |-> None, lapsed |-> FALSE,
          cooling |-> FALSE, result |-> NoResult]
Idle == [pc |-> "idle", act |-> None, base |-> None, result |-> NoResult, end |-> "none"]

TypeOK ==
    /\ StoreType
    /\ incident \in [Incidents -> {"open", "acknowledged", "resolved", "closed"}]
    /\ \A r \in Requests : /\ row[r].status \in {"none", "executing"} \cup Unstarted \cup Ended
                           /\ row[r].token \in Workers \cup {None}
    /\ \A w \in Workers : worker[w].act \in Requests \cup {None}
    /\ lock \in Workers \cup {None}
    /\ manual \in [act : Requests \cup {None}, end : {"none", "rolled_back", "failed"}]

Init ==
    /\ StoreInit
    /\ incident = [i \in Incidents |-> "open"]
    /\ row = [r \in Requests |-> NoRow]
    /\ worker = [w \in Workers |-> Idle]
    /\ lock = None /\ torn = {}
    /\ manual = [act |-> None, end |-> "none"]
    /\ crashes = 0 /\ lapses = 0

-----------------------------------------------------------------------------
(* Policy.                                                                 *)

\* The validators: what each action accepts as its parameters.
ValidParams(r) ==
    CASE Key(r) = "adjust_rerank_top" -> RequestOf[r].value \in 5..20
      [] Key(r) = "apply_knowledge_change" -> RequestOf[r].set \in Sets
      [] Key(r) \in {"set_user_active", "set_channel_active"} ->
           RequestOf[r].target \in Targets /\ RequestOf[r].value \in {"on", "off"}
      [] Key(r) = "propose_wallet_adjustment" -> RequestOf[r].value \in (-5000..5000) \ {0}
      [] OTHER -> TRUE

\* An action with a target cools down for that target only.
Cooling(r) ==
    \E q \in Requests : /\ row[q].cooling /\ row[q].status = "succeeded" /\ Key(q) = Key(r)
                        /\ (Key(r) \in Standalone => RequestOf[q].target = RequestOf[r].target)

\* evaluate_action, up to its decision.
Admitted(r) ==
    /\ ValidParams(r) /\ Key(r) \in Allowed /\ ~Cooling(r)
    /\ Key(r) = "apply_knowledge_change" => set[RequestOf[r].set].status = "pending_approval"

\* Fault: what can be rolled back needs no approval.
DecisionByRollback(r) == IF Key(r) \in Reversible THEN "queued" ELSE "waiting_approval"

Decision(r) ==
    CASE Risk[Key(r)] = "L0" -> "queued"
      [] Risk[Key(r)] = "L1" -> IF AutoL1 THEN "queued" ELSE "waiting_approval"
      [] Risk[Key(r)] = "L2" -> "waiting_approval"
      [] Risk[Key(r)] = "L3" -> "proposed"

-----------------------------------------------------------------------------
(* What administrators do. The row of the incident, or of the action, is   *)
(* locked while it is judged, and each operation is one transaction.       *)

NewRow(r) ==
    /\ row[r].status = "none"
    /\ Cardinality({q \in Requests : row[q].status # "none"}) < MaxActions
    /\ row' = [row EXCEPT ![r] = [NoRow EXCEPT !.status = Decision(r)]]

\* create_action, which rag_plan_action and propose_action call: an equal
\* request finds its row again.
CreateAction(r) ==
    /\ Admitted(r)
    /\ \/ Actionable(r) /\ RequestOf[r].incident # None
       \/ RequestOf[r].incident = None /\ Key(r) \in Standalone
    /\ NewRow(r)
    /\ UNCHANGED <<storeVars, incident, worker, lock, manual, torn, bounds>>

\* rag_propose_change_set: the change set and the action that applies it.
ProposeChangeSet(r) ==
    /\ Key(r) = "apply_knowledge_change"
    /\ RequestOf[r].incident # None /\ Actionable(r)
    /\ Key(r) \in Allowed /\ ~Cooling(r)
    /\ CreateSet(RequestOf[r].set)
    /\ NewRow(r)
    /\ UNCHANGED <<chunk, setting, restored, incident, worker, lock, manual, torn, bounds>>

\* approve_action
ApproveAction(r) ==
    /\ row[r].status = "waiting_approval" /\ Actionable(r) /\ Admitted(r)
    /\ row' = [row EXCEPT ![r].status = "queued", ![r].approved = TRUE]
    /\ UNCHANGED <<storeVars, incident, worker, lock, manual, torn, bounds>>

CancelAction(r) ==
    /\ row[r].status \in Unstarted
    /\ row' = [row EXCEPT ![r].status = "cancelled"]
    /\ UNCHANGED <<storeVars, incident, worker, lock, manual, torn, bounds>>

\* transition_incident
AllowedFrom == [acknowledged |-> {"open"}, resolved |-> {"open", "acknowledged"},
                closed |-> {"resolved"}]

TransitionIncident(i, s) ==
    /\ incident[i] \in AllowedFrom[s]
    /\ incident' = [incident EXCEPT ![i] = s]
    /\ row' = [r \in Requests |->
                 IF s # "acknowledged" /\ RequestOf[r].incident = i /\ row[r].status \in Unstarted
                 THEN [row[r] EXCEPT !.status = "cancelled"] ELSE row[r]]
    /\ UNCHANGED <<storeVars, worker, lock, manual, torn, bounds>>

-----------------------------------------------------------------------------
(* The worker: execute_queued_actions.                                     *)

Act(w) == worker[w].act
Holds(w) == row[Act(w)].status = "executing" /\ row[Act(w)].token = w
Goes(w, pc) == worker' = [worker EXCEPT ![w].pc = pc]
Ends(w, s) == worker' = [worker EXCEPT ![w].pc = "finish", ![w].end = s]

Claimable(r) ==
    /\ \/ row[r].status = "queued"
       \/ row[r].status = "executing" /\ row[r].lapsed
    /\ Actionable(r)

\* Fault: a lapsed lease is not taken over.
ClaimQueued(w) ==
    /\ worker[w].pc = "idle"
    /\ \E r \in Requests :
         /\ row[r].status = "queued" /\ Actionable(r)
         /\ row' = [row EXCEPT ![r].status = "executing", ![r].token = w, ![r].lapsed = FALSE]
         /\ worker' = [worker EXCEPT ![w] = [Idle EXCEPT !.pc = "lock", !.act = r]]
    /\ UNCHANGED <<storeVars, incident, lock, manual, torn, bounds>>

\* _claim_next
Claim(w) ==
    /\ worker[w].pc = "idle"
    /\ \E r \in Requests :
         /\ Claimable(r)
         /\ row' = [row EXCEPT ![r].status = "executing", ![r].token = w, ![r].lapsed = FALSE]
         /\ worker' = [worker EXCEPT ![w] = [Idle EXCEPT !.pc = "lock", !.act = r]]
    /\ UNCHANGED <<storeVars, incident, lock, manual, torn, bounds>>

\* _try_action_lock
TakeLock(w) ==
    /\ worker[w].pc = "lock" /\ lock = None
    /\ lock' = w /\ Goes(w, "begin")
    /\ UNCHANGED <<storeVars, incident, row, manual, torn, bounds>>

\* The lock is held, or cannot be asked for: _requeue_claimed_action.
Requeue(w) ==
    /\ worker[w].pc = "lock"
    /\ lock # None
    /\ row' = IF Holds(w) THEN [row EXCEPT ![Act(w)].status = "queued", ![Act(w)].token = None]
                          ELSE row
    /\ worker' = [worker EXCEPT ![w] = Idle]
    /\ UNCHANGED <<storeVars, incident, lock, manual, torn, bounds>>

\* The gated handlers first take a report; without one they change nothing.
TakeBaseline(w) ==
    /\ worker[w].pc = "begin" /\ Key(Act(w)) \in Gated
    /\ \/ \E report \in Reports :
            worker' = [worker EXCEPT ![w].pc = "change", ![w].base = report]
       \/ Goes(w, "undo")
    /\ UNCHANGED <<storeVars, incident, row, lock, manual, torn, bounds>>

\* Fault: a change set that is not pending any more counts as applied.
ApplyUnlessPending(w) ==
    LET s == RequestOf[Act(w)].set IN
    /\ worker[w].pc = "change" /\ Key(Act(w)) = "apply_knowledge_change"
    /\ \/ Applicable(s) /\ ApplyChangeSet(s)
       \/ ~Applicable(s) /\ UNCHANGED storeVars
    /\ worker' = [worker EXCEPT ![w].pc = "gate", ![w].result.changed = TRUE]
    /\ UNCHANGED <<incident, row, lock, manual, torn, bounds>>

\* apply_knowledge_change: a change set applied by an earlier attempt is only
\* judged again.
ApplyKnowledgeChange(w) ==
    LET s == RequestOf[Act(w)].set IN
    /\ worker[w].pc = "change" /\ Key(Act(w)) = "apply_knowledge_change"
    /\ \/ Applicable(s) /\ ApplyChangeSet(s)
       \/ ~Applicable(s) /\ UNCHANGED storeVars
    /\ IF Applicable(s) \/ set[s].status = "applied"
       THEN worker' = [worker EXCEPT ![w].pc = "gate", ![w].result.changed = TRUE]
       ELSE Goes(w, "undo")
    /\ UNCHANGED <<incident, row, lock, manual, torn, bounds>>

\* A switch that already has its value is left, one that has not is remembered.
Switch(w, pc) ==
    LET r == Act(w) t == RequestOf[r].target v == RequestOf[r].value IN
    \/ setting[t] = v /\ UNCHANGED storeVars /\ Ends(w, "succeeded")
    \/ /\ setting[t] # v
       /\ Assign(t, v)
       /\ worker' = [worker EXCEPT ![w].result = [changed |-> TRUE, was |-> setting[t]],
                                   ![w].pc = pc, ![w].end = "succeeded"]

\* adjust_rerank_top
AdjustRerankTop(w) ==
    /\ worker[w].pc = "change" /\ Key(Act(w)) = "adjust_rerank_top"
    /\ Switch(w, "gate")
    /\ UNCHANGED <<incident, row, lock, manual, torn, bounds>>

\* set_user_active, set_channel_active: one transaction reads the value, writes it
\* and reads it back.
SetActive(w) ==
    /\ worker[w].pc = "begin" /\ Key(Act(w)) \in {"set_user_active", "set_channel_active"}
    /\ Switch(w, "finish")
    /\ UNCHANGED <<incident, row, lock, manual, torn, bounds>>

\* _probe_health, _rerun_diagnosis, _clear_exact_cache: nothing is changed.
Look(w) ==
    /\ worker[w].pc = "begin" /\ Key(Act(w)) \notin Reversible
    /\ \E s \in {"succeeded", "failed"} : Ends(w, s)
    /\ UNCHANGED <<storeVars, incident, row, lock, manual, torn, bounds>>

\* The second report, and compare_gate.
JudgeGate(w) ==
    /\ worker[w].pc = "gate"
    /\ \/ \E report \in Reports :
            \/ GatePasses(worker[w].base, report) /\ Ends(w, "succeeded")
            \/ ~GatePasses(worker[w].base, report) /\ Goes(w, "undo")
       \/ Goes(w, "undo")
    /\ UNCHANGED <<storeVars, incident, row, lock, manual, torn, bounds>>

\* rollback_rerank_top, rollback_user_active, rollback_channel_active
RestoreSwitch(r, result) == Assign(RequestOf[r].target, result.was)

\* The rollbacks of the registry, given what the handler reported: s is how
\* the action ends, "raised" when the rollback itself fails.
RollsBack(r, result, s) ==
    CASE ~result.changed -> s = "rolled_back" /\ UNCHANGED storeVars
      [] result.changed /\ Key(r) # "apply_knowledge_change" ->
           s = "rolled_back" /\ RestoreSwitch(r, result)
      [] result.changed /\ Key(r) = "apply_knowledge_change" ->
           \/ s = "rolled_back" /\ RollbackChangeSet(RequestOf[r].set)
           \/ s = "raised" /\ set[RequestOf[r].set].status # "applied" /\ UNCHANGED storeVars

\* verify_or_rollback
Undo(w) ==
    /\ worker[w].pc = "undo"
    /\ \/ RollsBack(Act(w), worker[w].result, "rolled_back") /\ Ends(w, "rolled_back")
       \/ RollsBack(Act(w), worker[w].result, "raised") /\ Ends(w, "failed")
    /\ UNCHANGED <<incident, row, lock, manual, torn, bounds>>

\* finish_action, then the lock is released. Who lost the lease writes nothing.
Finish(w) ==
    LET s == worker[w].end IN
    /\ worker[w].pc = "finish"
    /\ row' = IF Holds(w)
              THEN [row EXCEPT ![Act(w)] =
                      [row[Act(w)] EXCEPT !.status = s, !.token = None, !.lapsed = FALSE,
                         !.cooling = (s = "succeeded" /\ Key(Act(w)) \in Cooled),
                         !.result = worker[w].result]]
              ELSE row
    /\ lock' = None
    /\ worker' = [worker EXCEPT ![w] = Idle]
    /\ UNCHANGED <<storeVars, incident, manual, torn, bounds>>

\* _heartbeat_loop
Heartbeat(w) ==
    /\ worker[w].pc \notin {"idle", "lock"} /\ Holds(w) /\ row[Act(w)].lapsed
    /\ row' = [row EXCEPT ![Act(w)].lapsed = FALSE]
    /\ UNCHANGED <<storeVars, incident, worker, lock, manual, torn, bounds>>

-----------------------------------------------------------------------------
(* rollback_action: the rollback commits on a connection of its own, then  *)
(* the row is updated.                                                     *)

RollbackAction(r) ==
    /\ manual.act = None /\ row[r].status = "succeeded" /\ Key(r) \in Reversible
    /\ RollsBack(r, row[r].result, "rolled_back")
    /\ manual' = [act |-> r, end |-> "rolled_back"]
    /\ UNCHANGED <<incident, row, worker, lock, torn, bounds>>

EndRollback ==
    /\ manual.act # None
    /\ row' = [row EXCEPT ![manual.act].status = manual.end]
    /\ manual' = [act |-> None, end |-> "none"]
    /\ UNCHANGED <<storeVars, incident, worker, lock, torn, bounds>>

-----------------------------------------------------------------------------
(* Crashes and time.                                                       *)

CutRollbackShort ==
    /\ manual.act # None /\ crashes < MaxCrashes
    /\ crashes' = crashes + 1
    /\ torn' = torn \cup {manual.act}
    /\ manual' = [act |-> None, end |-> "none"]
    /\ UNCHANGED <<storeVars, incident, row, worker, lock, lapses>>

Crash(w) ==
    /\ worker[w].pc # "idle" /\ crashes < MaxCrashes
    /\ crashes' = crashes + 1
    /\ worker' = [worker EXCEPT ![w] = Idle]
    /\ lock' = IF lock = w THEN None ELSE lock
    /\ UNCHANGED <<storeVars, incident, row, manual, torn, lapses>>

Deserted(r) == worker[row[r].token].act # r

\* A lease lasts 600 s: it outlasts the seconds between the claim and the lock,
\* but not a long handler whose heartbeats fail.

LeaseLapses(r) ==
    /\ row[r].status = "executing" /\ ~row[r].lapsed
    /\ \/ Deserted(r) /\ UNCHANGED lapses
       \/ /\ ~Deserted(r) /\ worker[row[r].token].pc # "lock"
          /\ lapses < MaxLapses /\ lapses' = lapses + 1
    /\ row' = [row EXCEPT ![r].lapsed = TRUE]
    /\ UNCHANGED <<storeVars, incident, worker, lock, manual, torn, crashes>>

CooldownEnds(r) ==
    /\ row[r].cooling
    /\ row' = [row EXCEPT ![r].cooling = FALSE]
    /\ UNCHANGED <<storeVars, incident, worker, lock, manual, torn, bounds>>

Work(w) == \/ Claim(w) \/ TakeLock(w) \/ Requeue(w) \/ TakeBaseline(w)
           \/ ApplyKnowledgeChange(w) \/ AdjustRerankTop(w) \/ SetActive(w) \/ Look(w)
           \/ JudgeGate(w) \/ Undo(w) \/ Finish(w)

Next ==
    \/ \E r \in Requests : \/ CreateAction(r) \/ ProposeChangeSet(r) \/ ApproveAction(r)
                           \/ CancelAction(r) \/ RollbackAction(r)
                           \/ LeaseLapses(r) \/ CooldownEnds(r)
    \/ \E i \in Incidents, s \in DOMAIN AllowedFrom : TransitionIncident(i, s)
    \/ \E w \in Workers : Work(w) \/ Heartbeat(w) \/ Crash(w)
    \/ EndRollback \/ CutRollbackShort

\* rag_action_loop runs for ever in every worker; a lease nobody renews lapses.
Fairness ==
    /\ \A w \in Workers : WF_vars(Work(w))
    /\ WF_vars(\E r \in Requests : LeaseLapses(r) /\ Deserted(r))

Spec == Init /\ [][Next]_vars /\ Fairness

-----------------------------------------------------------------------------
(* Properties.                                                             *)

Carried == {"queued", "executing", "succeeded", "failed", "rolled_back"}

\* No write without approval: an action above its automatic level is queued, run
\* and finished only after an administrator approved it, a proposal never, and a
\* change set touches the store only through an approved action.
ApprovedBeforeApplied ==
    /\ \A r \in Requests :
         row[r].status \in Carried =>
           /\ Risk[Key(r)] # "L3"
           /\ row[r].approved \/ Risk[Key(r)] = "L0" \/ (Risk[Key(r)] = "L1" /\ AutoL1)
    /\ \A s \in Sets :
         set[s].status \in {"applied", "rolled_back"} =>
           \E r \in Requests : RequestOf[r].set = s /\ row[r].approved

\* Two valid chunks of one article never come from different change sets, or from
\* a change set and the old store, unless a rollback brought one of them back.
OneTextPerArticle ==
    \A c, d \in Valid :
       c # d /\ SameArticle(c, d) =>
         \/ {c, d} \subseteq Stored
         \/ \E s \in Sets : Adds(s) /\ {c, d} \subseteq set[s].snapshot
         \/ c \in restored \/ d \in restored

\* The store is what the change sets say of it, however often an attempt was
\* repeated: a chunk that was not there at first is there just when one applied
\* change set added it, and no two did.
StoreMatchesSets ==
    \A c \in Chunks \ Stored :
       LET owners == {s \in Sets : /\ Adds(s) /\ set[s].status = "applied"
                                   /\ c \in set[s].snapshot}
       IN Cardinality(owners) <= 1 /\ (chunk[c] # "absent" <=> owners # {})

\* A change set taken back is not believed to stand: its action says so, or is
\* still to be judged, unless a manual rollback was cut short after its commit
\* or another action took it back.
RollbackOnRecord ==
    \A r \in Requests :
       Key(r) = "apply_knowledge_change" /\ row[r].status = "succeeded" =>
         \/ set[RequestOf[r].set].status = "applied"
         \/ manual.act = r \/ r \in torn
         \/ \E q \in Requests \ {r} : RequestOf[q].set = RequestOf[r].set

\* The store, the change sets and the actions tell the same story.
StoreIsSound == OneTextPerArticle /\ StoreMatchesSets /\ RollbackOnRecord

\* Approved work gets done, whatever process dies: again and again no action is
\* queued or under way, save those whose incident was resolved meanwhile.
WorkDrains == []<>(\A r \in Requests : row[r].status \in {"queued", "executing"} => ~Actionable(r))
=============================================================================
