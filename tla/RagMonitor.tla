----------------------------- MODULE RagMonitor -----------------------------
(***************************************************************************)
(* The monitor of the retrieval service, services/rag_monitor.py with      *)
(* rag_monitor_poison, rag_incidents and rag_recommendations: traces are   *)
(* diagnosed in cycles, what a rule finds becomes a verdict, verdicts of   *)
(* one rule are merged into an incident, and a trace that cannot be        *)
(* written is set aside after some attempts.                               *)
(*                                                                         *)
(* A cycle is one transaction under an advisory lock, and the rows of the  *)
(* incidents it touches stay locked to its end, so a cycle is one action:  *)
(* it folds the diagnosis of each row of its batch over the database.      *)
(* Every row has a savepoint; a row that fails leaves the database alone.  *)
(***************************************************************************)
EXTENDS Naturals, FiniteSets

CONSTANTS
    LastTrace,     \* retrieval_traces and answer_traces, numbered by their ids
    Fact,          \* what each trace holds: [source, retrieved, cites, fires]
    Unwritable,    \* traces whose verdicts the database refuses
    Processes,     \* the processes that run rag_monitor_loop
    VersionOf,     \* RULESET_VERSION of each process: a deployment may be under way
    BatchLimit,    \* BATCH_LIMIT
    PoisonAfter,   \* RAG_MONITOR_POISON_AFTER
    Planned,       \* _L0_MAP: rules with an automatic action
    Persistent,    \* traces the retention spares during the run
    MaxIncidents,  \* bound: incidents ever opened of one rule
    MaxOutages     \* bound: restarts of processes

Traces == 1..LastTrace
Versions == {VersionOf[p] : p \in Processes}
Rules == (UNION {Fact[t].fires[v] : t \in Traces, v \in Versions}) \cup {"RC-4d"}
Verdicts == Traces \X Rules             \* the unique key (source, source_id, code)
RuleIncidents == Rules \X (1..MaxIncidents) \* the incidents of each rule, in order

ASSUME MonitorAssumption ==
    /\ LastTrace \in Nat /\ Unwritable \subseteq Traces /\ Persistent \subseteq Traces
    /\ Versions \subseteq Nat \ {0}
    /\ BatchLimit \in Nat \ {0} /\ PoisonAfter \in Nat \ {0}
    /\ MaxIncidents \in Nat /\ MaxOutages \in Nat

VARIABLES
    recorded,  \* id of the latest trace
    present,   \* traces not yet purged
    db,        \* what a cycle writes: rag_monitor_processing, rag_verdicts,
               \* rag_incidents and the automatic actions
    aged,      \* history: incidents that lost a verdict to its age
    fails,     \* _fail_counts of each process
    reported,  \* rag_daily_reports holds the report of the day
    outages    \* bound: MaxOutages

monitorVars == <<recorded, present, db, aged, fails, reported, outages>>

Active == {"open", "acknowledged"}

MonitorTypeOK ==
    /\ present \subseteq Traces /\ aged \subseteq RuleIncidents /\ reported \in BOOLEAN /\ outages \in 0..MaxOutages
    /\ db.version \in [Traces -> Versions \cup {0}]
    /\ db.verdict \in [Verdicts -> 0..MaxIncidents]
    /\ db.incident \in [RuleIncidents -> [keyed : BOOLEAN,
            status : Active \cup {"none", "resolved", "closed", "deleted"}]]
    /\ db.queued \subseteq RuleIncidents
    /\ fails \in [Processes -> [Traces -> 0..(PoisonAfter - 1)]]

MonitorInit ==
    /\ recorded = 0 /\ present = {} /\ aged = {} /\ reported = FALSE /\ outages = 0
    /\ db = [version |-> [t \in Traces |-> 0],
             verdict |-> [x \in Verdicts |-> 0],
             incident |-> [i \in RuleIncidents |-> [keyed |-> FALSE, status |-> "none"]],
             queued |-> {}]
    /\ fails = [p \in Processes |-> [t \in Traces |-> 0]]

-----------------------------------------------------------------------------
(* The diagnosis of one row.                                               *)

\* _ungrounded_citations_verdict
Ungrounded(t) == IF Fact[t].source = "answer" /\ Fact[t].cites THEN {"RC-4d"} ELSE {}

\* diagnose_row: an answer without retrieval is only asked for its citations.
Diagnosis(t, v) ==
    IF Fact[t].source = "answer" /\ ~Fact[t].retrieved
    THEN Ungrounded(t)
    ELSE Fact[t].fires[v] \cup Ungrounded(t)

Evidence(d, i) == {x \in Verdicts : x[2] = i[1] /\ d.verdict[x] = i[2]}
IncidentOf(d, x) == <<x[2], d.verdict[x]>>
Opened(d, code) == {n \in 1..MaxIncidents : d.incident[<<code, n>>].status # "none"}
Keyed(d, code) == {n \in 1..MaxIncidents : d.incident[<<code, n>>].keyed}

\* Fault: only the status is written.
TransitionKeepingKey(d, is, s) ==
    [d EXCEPT !.incident = [i \in RuleIncidents |-> IF i \in is THEN [@[i] EXCEPT !.status = s] ELSE @[i]]]

\* transition_incident: incidents that end free their keys, and their waiting
\* actions are cancelled.
Transition(d, is, s) ==
    IF s = "acknowledged"
    THEN [d EXCEPT !.incident = [i \in RuleIncidents |-> IF i \in is THEN [@[i] EXCEPT !.status = s]
                                                               ELSE @[i]]]
    ELSE [d EXCEPT !.incident = [i \in RuleIncidents |-> IF i \in is THEN [keyed |-> FALSE, status |-> s]
                                                               ELSE @[i]],
                   !.queued = @ \ is]

\* upsert_incident, ON CONFLICT (active_key): the incident new verdicts of a rule go to.
Target(d, code) == IF Keyed(d, code) = {} THEN 1 + Cardinality(Opened(d, code))
                                          ELSE CHOOSE n \in Keyed(d, code) : TRUE

\* auto_plan_l0_actions: not for traces that are caught up with late, nor for an
\* incident that has ended.
Plan(d, is, late) == {i \in is : i[1] \in Planned /\ ~late /\ d.incident[i].status \in Active}

\* _persist_verdicts: a verdict found again keeps its incident. The rules of one
\* trace have incidents of their own, so they are written together.
Persist(d, t, codes, late) ==
    LET fresh == {x \in {t} \X codes : d.verdict[x] = 0}
        into == {<<x[2], Target(d, x[2])>> : x \in fresh}
        written == [d EXCEPT
            !.verdict = [x \in Verdicts |-> IF x \in fresh THEN Target(d, x[2]) ELSE @[x]],
            !.incident = [i \in RuleIncidents |-> IF i \in into /\ ~@[i].keyed
                                              THEN [keyed |-> TRUE, status |-> "open"] ELSE @[i]]]
    IN [written EXCEPT !.queued = @ \cup Plan(written, into, late)]

Stale(d, t, codes) == {x \in {t} \X (Rules \ codes) : d.verdict[x] # 0}

\* Fault: stale verdicts go, their incidents stay.
DropOnly(d, t, codes) ==
    [d EXCEPT !.verdict = [x \in Verdicts |-> IF x \in Stale(d, t, codes) THEN 0 ELSE @[x]]]

\* _delete_stale_verdicts: an active incident left without evidence is resolved.
DropStale(d, t, codes) ==
    LET left == [d EXCEPT !.verdict = [x \in Verdicts |-> IF x \in Stale(d, t, codes) THEN 0 ELSE @[x]]]
        emptied == {i \in {IncidentOf(d, x) : x \in Stale(d, t, codes)} :
                      Evidence(left, i) = {} /\ d.incident[i].status \in Active}
    IN Transition(left, emptied, "resolved")

\* _record_processed
Processed(d, t, v) == [d EXCEPT !.version[t] = IF v >= @ THEN v ELSE @]

Row(d, t, v, late) ==
    LET codes == Diagnosis(t, v)
    IN Processed(DropStale(Persist(d, t, codes, late), t, codes), t, v)

-----------------------------------------------------------------------------
(* Cycles.                                                                 *)

\* _fetch_pending: the pending traces of the lowest ids.
Pending(v) == {t \in present : db.version[t] < v}
Batch(v) == {t \in Pending(v) : Cardinality({u \in Pending(v) : u < t}) < BatchLimit}

\* note_failure
Poisoned(p, failed) == {t \in failed : fails[p][t] + 1 >= PoisonAfter}

\* Fault: the mark is undone with the savepoint of its row.
SetAsideNever(d, poisoned, v) == d

\* _mark_poison
SetAside(d, poisoned, v) == [d EXCEPT !.version = [t \in Traces |-> IF t \in poisoned THEN v ELSE @[t]]]

\* _run_cycle_locked: the rows that do not fail, one after the other in the order of ids.
Diagnosed(d0, rows, v, late) ==
    LET after[n \in 0..LastTrace] ==
          IF n = 0 THEN d0 ELSE IF n \in rows THEN Row(after[n - 1], n, v, late) ELSE after[n - 1]
    IN after[LastTrace]

\* run_cycle, which rag_monitor_loop and the action rerun_diagnosis call.
RunCycle(p, unlucky, late) ==
    LET v == VersionOf[p]
        batch == Batch(v)
        failed == batch \cap (Unwritable \cup unlucky)
        poisoned == Poisoned(p, failed)
        after == Diagnosed(db, batch \ failed, v, late)
    IN /\ batch # {}
       /\ db' = SetAside(after, poisoned, v)
       /\ fails' = [fails EXCEPT ![p] = [t \in Traces |->
                      IF t \in failed \ poisoned THEN @[t] + 1
                      ELSE IF t \in batch THEN 0 ELSE @[t]]]
       /\ UNCHANGED <<recorded, present, aged, reported, outages>>

RoomForIncidents == \A code \in Rules : Cardinality(Opened(db, code)) < MaxIncidents

\* Any of the rows that need not last may fail once more, and be old already.
Cycle(p) ==
    /\ RoomForIncidents
    /\ \E unlucky \in SUBSET (present \ Persistent), late \in BOOLEAN : RunCycle(p, unlucky, late)

\* ensure_daily_report, under a lock of its own: a failing model is asked again later.
DailyReport ==
    /\ ~reported
    /\ reported' = TRUE
    /\ UNCHANGED <<recorded, present, db, aged, fails, outages>>

-----------------------------------------------------------------------------
(* Everything else that touches these tables.                              *)

Record(t) ==
    /\ t = recorded + 1 /\ recorded' = t
    /\ present' = present \cup {t}
    /\ UNCHANGED <<db, aged, fails, reported, outages>>

AdministerFrom == [acknowledged |-> {"open"}, resolved |-> Active, closed |-> {"resolved"}]

\* rag_incident_ack, rag_incident_resolve, rag_incidents_clear
Administer(i, s) ==
    /\ db.incident[i].status \in AdministerFrom[s]
    /\ db' = Transition(db, {i}, s)
    /\ UNCHANGED <<recorded, present, aged, fails, reported, outages>>

\* _daily_housekeeping: a trace is kept 7 days, a verdict 30, an ended incident 180.
PurgeTrace(t) ==
    /\ t \in present \ Persistent
    /\ present' = present \ {t}
    /\ UNCHANGED <<recorded, db, aged, fails, reported, outages>>

PurgeVerdict(x) ==
    /\ x[1] \notin present /\ db.verdict[x] # 0
    /\ aged' = aged \cup {IncidentOf(db, x)}
    /\ db' = [db EXCEPT !.verdict[x] = 0]
    /\ UNCHANGED <<recorded, present, fails, reported, outages>>

PurgeIncident(i) ==
    /\ db.incident[i].status \in {"resolved", "closed"} /\ Evidence(db, i) = {}
    /\ db' = [db EXCEPT !.incident[i].status = "deleted"]
    /\ UNCHANGED <<recorded, present, aged, fails, reported, outages>>

Restart(p) ==
    /\ outages < MaxOutages
    /\ outages' = outages + 1
    /\ fails' = [fails EXCEPT ![p] = [t \in Traces |-> 0]]
    /\ UNCHANGED <<recorded, present, db, aged, reported>>

MonitorNext ==
    \/ \E p \in Processes : Cycle(p) \/ Restart(p)
    \/ DailyReport
    \/ \E t \in Traces : Record(t) \/ PurgeTrace(t)
    \/ \E i \in RuleIncidents, s \in DOMAIN AdministerFrom : Administer(i, s)
    \/ \E x \in Verdicts : PurgeVerdict(x)
    \/ \E i \in RuleIncidents : PurgeIncident(i)

\* rag_monitor_loop runs a cycle every few minutes in every process.
MonitorFairness == \A p \in Processes : WF_monitorVars(Cycle(p))

MonitorSpec == MonitorInit /\ [][MonitorNext]_monitorVars /\ MonitorFairness

-----------------------------------------------------------------------------
(* Properties.                                                             *)

\* Nothing is silenced: a new verdict belongs to an incident that is not resolved
\* or closed, so that an administrator sees it and its actions can be run.
NewVerdictIsVisible ==
    [][\A x \in Verdicts :
         db.verdict[x] = 0 /\ db'.verdict[x] # 0 =>
           db'.incident[IncidentOf(db', x)].status \in Active]_monitorVars

\* An incident stays active only while a verdict supports it, or its evidence has
\* aged away; when a new rule set takes the last one back, it is resolved.
ActiveHasEvidence ==
    \A i \in RuleIncidents :
       db.incident[i].status \in Active => Evidence(db, i) # {} \/ i \in aged

\* An automatic action waits for no incident that has ended.
QueuedIsActive == \A i \in db.queued : db.incident[i].status \in Active

\* The incidents an administrator sees are backed, and nothing waits for the others.
IncidentsAreSound == MonitorTypeOK /\ ActiveHasEvidence /\ QueuedIsActive

\* No row holds up the others: again and again every recorded trace is diagnosed or
\* set aside by the newest rule set, or purged, though some can never be written.
BacklogDrains == []<>(~RoomForIncidents \/ \A v \in Versions : Pending(v) = {})
=============================================================================
