------------------------------- MODULE MCRag -------------------------------
(* The actions on the knowledge base and the monitor that finds what to act   *)
(* on: a run checks one of the two in each of its behaviours. Actions: two    *)
(* change sets over the text of one article, or two of other kinds, some with *)
(* an incident that may be resolved meanwhile. Monitor: three traces, the     *)
(* first of which cannot be written, and two processes of different rule      *)
(* sets: what the old one finds in 2 the new one takes back.                  *)
EXTENDS RagActions, RagMonitor, TLC

CONSTANTS old, new, drop, add, expel, tune, probe, raise, w1, w2, inc, user, top, wallet, p1, p2, Part

VARIABLES
    part,
    asked   \* bound: the requests that are made of the actions

\* Two changes of one article; a switch beside a setting; an action that only looks beside
\* one that is never carried out.
MCAsked == {{drop, add}, {expel, tune}, {probe, raise}}

MCChunks == {old, new}
MCArticleOf == [c \in MCChunks |-> "533"]
MCChangeOf == [s \in {drop, add} |->
                 IF s = drop THEN [type |-> "knowledge_invalidate", items |-> {old}]
                             ELSE [type |-> "knowledge_add", items |-> {new}]]
MCDefaults == (user :> "on") @@ (top :> 15)
Request(key, i, s, t, v) == [key |-> key, incident |-> i, set |-> s, target |-> t, value |-> v]
MCRequestOf ==
    (drop :> Request("apply_knowledge_change", inc, drop, None, None)) @@
    (add :> Request("apply_knowledge_change", inc, add, None, None)) @@
    (expel :> Request("set_user_active", None, None, user, "off")) @@
    (tune :> Request("adjust_rerank_top", inc, None, top, 12)) @@
    (probe :> Request("probe_health", inc, None, None, None)) @@
    (raise :> Request("propose_wallet_adjustment", None, None, wallet, 10))

Report(n, slow) == [evaluated |-> n, errors |-> 0, zero_hit_at_10 |-> {}, recall10 |-> 100,
                    mrr |-> 83, p95 |-> slow]
MCReports == {Report(20, 400), Report(20, 700)}

MCVersionOf == (p1 :> 1) @@ (p2 :> 2)
Fires(v1, v2) == (1 :> v1) @@ (2 :> v2)
MCFact == <<[source |-> "answer", retrieved |-> FALSE, cites |-> FALSE,
             fires |-> Fires({"RC-1"}, {"RC-1"})],
            [source |-> "retrieval", retrieved |-> TRUE, cites |-> FALSE,
             fires |-> Fires({"RC-1"}, {})],
            [source |-> "answer", retrieved |-> TRUE, cites |-> TRUE,
             fires |-> Fires({"RC-1"}, {"RC-1"})]>>

RagInit ==
    /\ part \in Part /\ Init /\ MonitorInit
    /\ asked \in IF part = "actions" THEN MCAsked ELSE {{}}

RagNext ==
    /\ UNCHANGED <<part, asked>>
    /\ \/ /\ part = "actions" /\ Next /\ UNCHANGED monitorVars
          /\ \A r \in Requests \ asked : row'[r].status = "none"
       \/ part = "monitor" /\ MonitorNext /\ UNCHANGED vars

\* Fairness and MonitorFairness, each in the behaviours about its part.
RagFairness ==
    /\ \A w \in Workers : WF_vars(part = "actions" /\ Work(w))
    /\ WF_vars(part = "actions" /\ \E r \in Requests : LeaseLapses(r) /\ Deserted(r))
    /\ \A p \in Processes : WF_monitorVars(part = "monitor" /\ Cycle(p))

RagSpec == RagInit /\ [][RagNext]_<<part, asked, vars, monitorVars>> /\ RagFairness
=============================================================================
