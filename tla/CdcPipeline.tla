---------------------------- MODULE CdcPipeline ----------------------------
(***************************************************************************)
(* Change data capture: triggers put the changes of the payment tables     *)
(* into cdc_events; the leading worker (app/cdc/worker.py) appends them to *)
(* a journal shared by the instances (app/cdc/journal.py), remembers how   *)
(* far it got in a checkpoint, and deletes what it has journaled.          *)
(*                                                                         *)
(* Transactions are numbered by their txid, in the order in which they     *)
(* began to write. Lines appended more than once are one element here:     *)
(* consumers of the journal drop duplicates by event id.                   *)
(***************************************************************************)
EXTENDS Naturals, FiniteSets, FiniteSetsExt

CONSTANTS
    MaxTx,       \* bound: number of transactions
    MaxId,       \* bound: number of events
    Workers,     \* instances
    BatchSize,   \* BATCH_SIZE
    MayRotate,   \* TRUE: a batch may run over the size limit of a journal file
    NoWorker

ASSUME CdcAssumption ==
    /\ MaxTx \in Nat \ {0} /\ MaxId \in Nat \ {0} /\ BatchSize \in Nat \ {0}
    /\ MayRotate \in BOOLEAN /\ NoWorker \notin Workers

VARIABLES
    tx,          \* state of each transaction
    seq,         \* the last event id handed out
    table,       \* cdc_events: committed and uncommitted rows <<txid, id>>
    synced,      \* lines of the journal that are on disk
    cached,      \* lines written but not synced; lost when the host goes down
    checkpoint,  \* checkpoint.json, replaced atomically
    leader,      \* Redis: cdc:leader
    work         \* the workers

cdcVars == <<tx, seq, table, synced, cached, checkpoint, leader, work>>
source == <<tx, seq>>
journal == <<synced, cached, checkpoint>>

Txs == 1..MaxTx
Events == Txs \X (1..MaxId)
Cursors == (0..MaxTx) \X (0..MaxId)
Origin == <<0, 0>>

Down == [pc |-> "down", cursor |-> Origin, leads |-> FALSE, batch |-> {}]

\* The row comparison (txid, id) > (a, b) of SQL, and of tuples in Python.
Above(e, f) == e[1] > f[1] \/ (e[1] = f[1] /\ e[2] > f[2])

CdcInit ==
    /\ tx = [t \in Txs |-> "none"] /\ seq = 0 /\ table = {}
    /\ synced = {} /\ cached = {} /\ checkpoint = Origin
    /\ leader = NoWorker
    /\ work = [w \in Workers |-> Down]

-----------------------------------------------------------------------------
(* The database.                                                           *)

\* A transaction gets its txid when it first writes.
BeginTx(t) ==
    /\ tx[t] = "none" /\ \A s \in Txs : s < t => tx[s] # "none"
    /\ tx' = [tx EXCEPT ![t] = "active"]
    /\ UNCHANGED <<seq, table, journal, leader, work>>

\* The trigger function cdc_capture.
Capture(t) ==
    /\ tx[t] = "active" /\ seq < MaxId
    /\ seq' = seq + 1
    /\ table' = table \cup {<<t, seq + 1>>}
    /\ UNCHANGED <<tx, journal, leader, work>>

CommitTx(t) ==
    /\ tx[t] = "active"
    /\ tx' = [tx EXCEPT ![t] = "committed"]
    /\ UNCHANGED <<seq, table, journal, leader, work>>

AbortTx(t) ==
    /\ tx[t] = "active"
    /\ tx' = [tx EXCEPT ![t] = "aborted"]
    /\ table' = {e \in table : e[1] # t}
    /\ UNCHANGED <<seq, journal, leader, work>>

Visible == {e \in table : tx[e[1]] = "committed"}

\* txid_snapshot_xmin: all transactions below it have ended.
BelowXmin(t) == \A s \in Txs : s <= t => tx[s] \in {"committed", "aborted"}

\* Fault: the condition on the snapshot is missing.
AllVisibleAfter(c) == {e \in Visible : Above(e, c)}

\* Fault: rows of open transactions are read.
DirtyAfter(c) == {e \in table : Above(e, c)}

\* WHERE (txid, id) > cursor AND txid < xmin.
ReadableAfter(c) == {e \in Visible : Above(e, c) /\ BelowXmin(e[1])}

\* ORDER BY txid, id LIMIT n.
FirstOf(S, n) == {e \in S : Cardinality({f \in S : Above(e, f)}) < n}

\* Fault: off by one.
BehindLastOf(S) == LET last == CHOOSE e \in S : \A f \in S : ~Above(f, e)
                   IN <<last[1], last[2] + 1>>

LastOf(S) == CHOOSE e \in S : \A f \in S : ~Above(f, e)

-----------------------------------------------------------------------------
(* A worker.                                                               *)

Goes(w, pc) == work' = [work EXCEPT ![w].pc = pc]

\* CdcWorker.__init__ reads the checkpoint, here and nowhere else.
StartWorker(w) ==
    /\ work[w].pc = "down"
    /\ work' = [work EXCEPT ![w] = [Down EXCEPT !.pc = "idle", !.cursor = checkpoint]]
    /\ UNCHANGED <<source, table, journal, leader>>

TryLock(w) ==
    /\ work[w].pc = "idle" /\ ~work[w].leads /\ leader = NoWorker
    /\ leader' = w
    /\ work' = [work EXCEPT ![w].leads = TRUE]
    /\ UNCHANGED <<source, table, journal>>

\* _renew_lock_loop finds the lock lost, or fails to renew it.
LoseLead(w) ==
    /\ work[w].leads
    /\ work' = [work EXCEPT ![w].leads = FALSE]
    /\ UNCHANGED <<source, table, journal, leader>>

\* Fault: the lock is set without a time to live.
LeadStays == FALSE /\ UNCHANGED cdcVars

\* The 30 s run out (a worker that was held up, a failing renewal).
LeadExpires ==
    /\ leader # NoWorker
    /\ leader' = NoWorker
    /\ UNCHANGED <<source, table, journal, work>>

\* The SELECT of _poll_once: a batch, or nothing, or an error of the database.
Poll(w) ==
    LET rows == ReadableAfter(work[w].cursor) IN
    /\ work[w].pc = "idle" /\ work[w].leads
    /\ \/ Goes(w, "polled")
       \/ /\ rows # {}
          /\ work' = [work EXCEPT ![w] = [@ EXCEPT !.pc = "write",
                                                   !.batch = FirstOf(rows, BatchSize)]]
    /\ UNCHANGED <<source, table, journal, leader>>

\* _write_lines_durable writes the lines, or fails half-way.
WriteLines(w) ==
    /\ work[w].pc = "write"
    /\ \/ cached' = cached \cup (work[w].batch \ synced) /\ Goes(w, "sync")
       \/ /\ \E part \in SUBSET work[w].batch : cached' = cached \cup (part \ synced)
          /\ work' = [work EXCEPT ![w] = [@ EXCEPT !.pc = "polled", !.batch = {}]]
    /\ UNCHANGED <<source, table, synced, checkpoint, leader>>

\* Fault: the cursor advances although nothing was synced.
AdvanceUnsynced(w) ==
    LET batch == work[w].batch IN
    /\ work[w].pc = "sync"
    /\ work' = [work EXCEPT ![w] = [@ EXCEPT !.pc = "polled", !.batch = {},
                                             !.cursor = LastOf(batch)]]
    /\ UNCHANGED <<source, table, journal, leader>>

\* The fsync, and the advance of the cursor after it. fsync reaches the file that
\* is open at the end: when _rotate_if_needed closed another one half-way, the
\* lines in that one were not synced.
SyncAndAdvance(w) ==
    LET batch == work[w].batch IN
    /\ work[w].pc = "sync"
    /\ \E elsewhere \in SUBSET batch :
          /\ elsewhere # {} => MayRotate
          /\ \A e \in elsewhere, f \in batch \ elsewhere : Above(f, e)
          /\ elsewhere # batch
          /\ synced' = synced \cup (batch \ elsewhere)
          /\ cached' = cached \ (batch \ elsewhere)
    /\ work' = [work EXCEPT ![w] = [@ EXCEPT !.pc = "polled", !.batch = {},
                                             !.cursor = LastOf(batch)]]
    /\ UNCHANGED <<source, table, checkpoint, leader>>

\* Nothing is due, or the lead is lost: next loop.
Skip(w) ==
    /\ work[w].pc = "polled"
    /\ Goes(w, "idle")
    /\ UNCHANGED <<source, table, journal, leader>>

\* The checkpoint is not due in this loop: straight to the clean-up.
NotDue(w) ==
    /\ work[w].pc = "polled" /\ work[w].leads
    /\ Goes(w, "saved")
    /\ UNCHANGED <<source, table, journal, leader>>

\* save_checkpoint: the comparison with the value on disk.
CompareCheckpoint(w) ==
    /\ work[w].pc = "polled" /\ work[w].leads
    /\ Goes(w, IF Above(checkpoint, work[w].cursor) THEN "saved" ELSE "save")
    /\ UNCHANGED <<source, table, journal, leader>>

\* save_checkpoint: the replacement, later, or an error, which ends the loop.
ReplaceCheckpoint(w) ==
    /\ work[w].pc = "save"
    /\ \/ checkpoint' = work[w].cursor /\ Goes(w, "saved")
       \/ checkpoint' = checkpoint /\ Goes(w, "idle")
    /\ UNCHANGED <<source, table, synced, cached, leader>>

\* Fault: everything that is committed is deleted.
DeleteAll(w) ==
    /\ work[w].pc = "saved"
    /\ table' = table \ Visible
    /\ Goes(w, "idle")
    /\ UNCHANGED <<source, journal, leader>>

\* _cleanup_events deletes up to the worker's own cursor, or fails.
CleanUp(w) ==
    /\ work[w].pc = "saved"
    /\ table' \in {table, {e \in table : e \in Visible => Above(e, work[w].cursor)}}
    /\ Goes(w, "idle")
    /\ UNCHANGED <<source, journal, leader>>

\* The process ends. A graceful stop is a checkpoint followed by this.
Crash(w) ==
    /\ work[w].pc # "down"
    /\ work' = [work EXCEPT ![w] = Down]
    /\ UNCHANGED <<source, table, journal, leader>>

\* The kernel writes back when it likes.
WriteBack ==
    /\ cached # {}
    /\ synced' = synced \cup cached /\ cached' = {}
    /\ UNCHANGED <<source, table, checkpoint, leader, work>>

\* The host of the instances and the journal goes down.
HostCrash ==
    /\ \E w \in Workers : work[w].pc # "down"
    /\ work' = [w \in Workers |-> Down]
    /\ cached' = {}
    /\ UNCHANGED <<source, table, synced, checkpoint, leader>>

-----------------------------------------------------------------------------

WorkerStep(w) ==
    \/ Poll(w) \/ WriteLines(w) \/ SyncAndAdvance(w) \/ Skip(w) \/ NotDue(w)
    \/ CompareCheckpoint(w) \/ ReplaceCheckpoint(w) \/ CleanUp(w)

CdcNext ==
    \/ \E t \in Txs : BeginTx(t) \/ Capture(t) \/ CommitTx(t) \/ AbortTx(t)
    \/ \E w \in Workers :
          StartWorker(w) \/ TryLock(w) \/ LoseLead(w) \/ WorkerStep(w) \/ Crash(w)
    \/ LeadExpires \/ WriteBack \/ HostCrash

CdcSpec == CdcInit /\ [][CdcNext]_cdcVars

\* A crash, a lost lead, or a batch that is not read or not written.
CdcFailure ==
    \/ HostCrash
    \/ \E w \in Workers :
          \/ Crash(w) \/ LoseLead(w)
          \/ Poll(w) /\ work'[w].pc = "polled" /\ ReadableAfter(work[w].cursor) # {}
          \/ WriteLines(w) /\ work'[w].pc = "polled"

\* Transactions end, workers are restarted, run() loops for ever, and a lock that
\* is not renewed lapses. Failures come to an end, at any time.
CdcFairness ==
    /\ \A t \in Txs : WF_cdcVars(CommitTx(t) \/ AbortTx(t))
    /\ WF_cdcVars(LeadExpires /\ ~work[leader].leads)
    /\ \A w \in Workers :
          WF_cdcVars(StartWorker(w)) /\ WF_cdcVars(TryLock(w)) /\ WF_cdcVars(WorkerStep(w))
    /\ <>[][~CdcFailure]_cdcVars

CdcFairSpec == CdcSpec /\ CdcFairness

-----------------------------------------------------------------------------
(* Properties. *)

CdcTypeOK ==
    /\ tx \in [Txs -> {"none", "active", "committed", "aborted"}]
    /\ seq \in 0..MaxId
    /\ table \subseteq Events
    /\ synced \subseteq Events /\ cached \subseteq Events
    /\ checkpoint \in Cursors
    /\ leader \in Workers \cup {NoWorker}
    /\ work \in [Workers -> [pc : {"down", "idle", "write", "sync", "polled", "save", "saved"},
                             cursor : Cursors, leads : BOOLEAN, batch : SUBSET Events]]

Passed(e) == \/ ~Above(e, checkpoint)
             \/ \E w \in Workers : work[w].pc # "down" /\ ~Above(e, work[w].cursor)

\* A cursor passes no event that commits late: what commits below it has been
\* journaled, and is on disk.
PassedIsJournaled == \A e \in Visible : Passed(e) => e \in synced

\* What was deleted from the table is in the journal, on disk: no event is lost,
\* with stale leaders and instances or the whole host going down at any moment.
\* (Every captured id belongs to a row, a deleted row or an aborted transaction.)
DeletedIsJournaled ==
    [][\A e \in table \ table' : tx[e[1]] = "committed" => e \in synced]_cdcVars

\* Nothing of an aborted transaction gets into the journal.
OnlyCommittedJournaled == \A e \in synced \cup cached : tx[e[1]] = "committed"

\* The journal holds what the cursors passed, and nothing else.
JournalIsExact == CdcTypeOK /\ PassedIsJournaled /\ OnlyCommittedJournaled

\* Committed changes reach the disk of the journal: as the transactions come to an
\* end here, and as none is deleted before (DeletedIsJournaled), a moment comes again
\* and again at which all of them are there.
CommittedIsJournaled == []<>(Visible \subseteq synced)

\* No event is lost: it is not deleted before the journal has it, and it gets there.
NoEventIsLost == DeletedIsJournaled /\ CommittedIsJournaled

(* What the comments claim and the code does not do; see the findings. *)

\* journal.py:84: the cursor advances after the whole batch is synced.
AdvancedIsSynced ==
    \A w \in Workers, e \in Visible :
        work[w].pc # "down" /\ ~Above(e, work[w].cursor) => e \in synced
=============================================================================
