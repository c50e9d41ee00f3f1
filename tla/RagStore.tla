------------------------------ MODULE RagStore ------------------------------
(***************************************************************************)
(* What remediation actions act on: the chunks of the knowledge base and   *)
(* the change sets that add or invalidate them (services/rag_change_sets), *)
(* the settings the other actions switch (rag_runtime_config,              *)
(* biz_action_handlers), and the quality gate that judges a change by the  *)
(* reports taken before and after it (rag_quality_gate).                   *)
(*                                                                         *)
(* A transaction is one action: the row of the change set is locked from   *)
(* its first statement to its last.                                        *)
(***************************************************************************)
EXTENDS Naturals, FiniteSets

CONSTANTS
    Chunks, ArticleOf,   \* the chunks, and the article each begins with, or None
    Stored,              \* the chunks in the store at first, all valid
    Sets, ChangeOf,      \* the change sets, and the change each proposes
    MaxItems,            \* _MAX_ITEMS
    Targets, Defaults,   \* what the other actions set, and its values at first
    GateCases,           \* number of cases of the gate, GATE_CASE_IDS
    None

ASSUME StoreAssumption ==
    /\ Stored \subseteq Chunks /\ MaxItems \in Nat /\ GateCases \in Nat
    /\ \A s \in Sets : /\ ChangeOf[s].type \in {"knowledge_add", "knowledge_invalidate"}
                       /\ ChangeOf[s].items \subseteq Chunks

VARIABLES
    chunk,     \* knowledge_chunks
    set,       \* rag_change_sets: status and snapshot
    setting,   \* the runtime RERANK_TOP, users.is_active, payment_channels.is_active
    restored   \* history: chunks a rollback made valid again

storeVars == <<chunk, set, setting, restored>>

Adds(s) == ChangeOf[s].type = "knowledge_add"
Items(s) == ChangeOf[s].items
Valid == {c \in Chunks : chunk[c] = "valid"}

StoreType ==
    /\ chunk \in [Chunks -> {"absent", "valid", "invalid"}]
    /\ set \in [Sets -> [status : {"none", "pending_approval", "applied", "rolled_back"},
                         snapshot : SUBSET Chunks]]
    /\ restored \subseteq Chunks

StoreInit ==
    /\ chunk = [c \in Chunks |-> IF c \in Stored THEN "valid" ELSE "absent"]
    /\ set = [s \in Sets |-> [status |-> "none", snapshot |-> {}]]
    /\ setting = Defaults
    /\ restored = {}

-----------------------------------------------------------------------------
(* Change sets.                                                            *)

ValidPayload(s) == Items(s) # {} /\ Cardinality(Items(s)) <= MaxItems

SameArticle(c, d) == ArticleOf[c] # None /\ ArticleOf[c] = ArticleOf[d]

\* Fault: chunks are compared by their keys only.
FitsByKey(s) == Adds(s) => \A c \in Items(s) : chunk[c] = "absent"

\* validate_against_db: a chunk is not added twice, nor beside a valid chunk of
\* the same article. An invalidation is only warned about.
FitsStore(s) ==
    Adds(s) => /\ \A c \in Items(s) : chunk[c] = "absent"
               /\ ~\E c \in Items(s), d \in Valid : SameArticle(c, d)

CreateSet(s) ==
    /\ set[s].status = "none" /\ ValidPayload(s) /\ FitsStore(s)
    /\ set' = [set EXCEPT ![s].status = "pending_approval"]

\* What the transaction of apply_change_set remembers, and what it writes.
Snapshot(s) == IF Adds(s) THEN {c \in Items(s) : chunk[c] = "absent"} ELSE Items(s) \cap Valid
Written(s) == IF Adds(s) THEN "valid" ELSE "invalid"

Applicable(s) == set[s].status = "pending_approval" /\ FitsStore(s)

ApplyChangeSet(s) ==
    /\ chunk' = [c \in Chunks |-> IF c \in Snapshot(s) THEN Written(s) ELSE chunk[c]]
    /\ set' = [set EXCEPT ![s] = [status |-> "applied", snapshot |-> Snapshot(s)]]
    /\ UNCHANGED <<setting, restored>>

\* Fault: the rows are deleted by the list of the proposal, the status is left.
RollbackPayload(s) ==
    /\ set[s].status = "applied"
    /\ chunk' = [c \in Chunks |-> IF c \notin Items(s) THEN chunk[c]
                                  ELSE IF Adds(s) THEN "absent" ELSE "valid"]
    /\ UNCHANGED <<set, setting, restored>>

\* rollback_change_set: added chunks are deleted, invalidated ones valid again.
Reversed(s) == IF Adds(s) THEN set[s].snapshot
                          ELSE {c \in set[s].snapshot : chunk[c] = "invalid"}

RollbackChangeSet(s) ==
    /\ set[s].status = "applied"
    /\ chunk' = [c \in Chunks |-> IF c \notin Reversed(s) THEN chunk[c]
                                  ELSE IF Adds(s) THEN "absent" ELSE "valid"]
    /\ set' = [set EXCEPT ![s].status = "rolled_back"]
    /\ restored' = IF Adds(s) THEN restored \ Reversed(s) ELSE restored \cup Reversed(s)
    /\ UNCHANGED setting

\* set_rerank_top, set_user_active, set_channel_active and their rollbacks.
Assign(t, v) == setting' = [setting EXCEPT ![t] = v] /\ UNCHANGED <<chunk, set, restored>>

-----------------------------------------------------------------------------
(* compare_gate. Rates are in percent, reports are records of the figures  *)
(* that gate_summary keeps.                                                *)

Enough(report) == report.evaluated >= GateCases

GatePasses(baseline, after) ==
    /\ Enough(baseline) /\ Enough(after)
    /\ after.errors <= baseline.errors
    /\ after.zero_hit_at_10 \subseteq baseline.zero_hit_at_10
    /\ baseline.recall10 <= after.recall10 + 5
    /\ baseline.mrr = 0 \/ 100 * baseline.mrr <= 100 * after.mrr + 5 * baseline.mrr
    /\ baseline.p95 = 0 \/ 2 * after.p95 <= 3 * baseline.p95
=============================================================================
