------------------------ MODULE DatasetTransactions ------------------------
(***************************************************************************)
(* Commits to one dataset: uploads, connector syncs and webhook events     *)
(* each open a transaction row and a sync run, write a staging file, and   *)
(* finalize - under the lock on the dataset row - by validating the        *)
(* candidate, promoting its file to a version directory and inserting the  *)
(* version.  A failed handler aborts its transaction; a watchdog aborts    *)
(* the transactions that crashed handlers left open.                       *)
(*                                                                         *)
(* Every action is one database transaction or one effect on storage.      *)
(* Finalization is one database transaction, but storage is not part of    *)
(* it and other rows can change under it, so its steps are separate        *)
(* actions between which only the dataset lock is held; nothing it writes  *)
(* to the database is visible before CommitVersion.                        *)
(***************************************************************************)
EXTENDS Naturals, Sequences, FiniteSets

CONSTANTS
    Workers,     \* invocations of an ingest handler
    Runs,        \* sync runs, each with the dataset transaction opened with it
    GivenRuns,   \* those whose id the caller supplies and may supply again
    NewRun,      \* the id an invocation generates when it is given none
    Events,      \* webhook event ids
    Watchdogs,   \* processes running abort_stale_open_transactions
    NoWorker, NoRun, NoEvent,
    MaxCrashes   \* bound: crashes of watchdogs; a worker dies at most once

ASSUME DatasetConstants ==
    /\ GivenRuns \subseteq Runs
    /\ NewRun \in [Workers -> Runs \ GivenRuns]
    /\ NoWorker \notin Workers /\ NoRun \notin Runs /\ NoEvent \notin Events
    /\ MaxCrashes \in Nat

VARIABLES
    txStatus,  \* dataset_transactions.status, "NONE" before the insert
    txType,    \* dataset_transactions.tx_type
    txBase,    \* number of the version in base_version_id, 0 for NULL
    runStatus, \* sync_runs.status, "NONE" before the insert
    versions,  \* dataset_versions in version_number order
    keyed,     \* event ids in webhook_event_keys
    lock,      \* the worker holding FOR UPDATE on the dataset row
    staged,    \* who last wrote a run's staging file, NoWorker when there is none
    dirs,      \* workers whose version directory exists
    stored,    \* whose content it holds, or NoWorker until it is complete
    leaked,    \* history: workers whose promotion or COMMIT raised
    pc, job, event,
    number,    \* the version number a worker allocated
    checked,   \* the staging content a worker validated
    wpc, target, seen,   \* a watchdog's place, the row it took up, its status when listed
    crashes

txVars     == <<txStatus, txType, txBase, runStatus>>
dbVars     == <<txVars, versions, keyed, lock>>
dirVars    == <<dirs, stored, leaked>>
fileVars   == <<staged, dirVars>>
workerVars == <<pc, job, event, number, checked>>
watchVars  == <<wpc, target, seen>>
vars == <<dbVars, fileVars, workerVars, watchVars, crashes>>

-----------------------------------------------------------------------------

TxTypes     == {"SNAPSHOT", "APPEND"}
TxStatuses  == {"NONE", "OPEN", "ABORTING", "ABORTED", "COMMITTED"}
RunStatuses == {"NONE", "EXTRACTING", "COMMITTED", "FAILED"}
Locked      == {"recheck", "promote", "persist"}
Working     == Locked \cup {"extract", "finalize", "cleanup", "abort"}
PCs == Working \cup {"idle", "named", "unseen", "done", "dead"}
WatchPCs == {"idle", "claim", "cleanup", "abort"}

Version == [id : Workers, run : Runs, event : Events \cup {NoEvent}]

\* DATASET_TRANSACTION_ABORT leaves from OPEN or ABORTING.
Abortable(r) == txStatus[r] \in {"OPEN", "ABORTING"}

Init ==
    /\ txStatus  = [r \in Runs |-> "NONE"]
    /\ txType    = [r \in Runs |-> "APPEND"]
    /\ txBase    = [r \in Runs |-> 0]
    /\ runStatus = [r \in Runs |-> "NONE"]
    /\ versions = << >> /\ keyed = {} /\ lock = NoWorker
    /\ staged = [r \in Runs |-> NoWorker]
    /\ dirs = {} /\ stored = [w \in Workers |-> NoWorker] /\ leaked = {}
    /\ pc      = [w \in Workers |-> "idle"]
    /\ job     = [w \in Workers |-> NoRun]
    /\ event   = [w \in Workers |-> NoEvent]
    /\ number  = [w \in Workers |-> 0]
    /\ checked = [w \in Workers |-> NoWorker]
    /\ wpc    = [x \in Watchdogs |-> "idle"]
    /\ target = [x \in Watchdogs |-> NoRun]
    /\ seen   = [x \in Watchdogs |-> "NONE"]
    /\ crashes = 0

\* The handler is over: it returned or raised ("done"), or its process died
\* ("dead"), and its local variables are gone.  What it validated is kept for
\* the properties.
Leave(w, end) ==
    /\ pc'     = [pc EXCEPT ![w] = end]
    /\ job'    = [job EXCEPT ![w] = NoRun]
    /\ event'  = [event EXCEPT ![w] = NoEvent]
    /\ number' = [number EXCEPT ![w] = 0]
    /\ UNCHANGED checked

-----------------------------------------------------------------------------
(* Starting a run *)

\* _committed_sync_result: a caller that names its run first asks whether
\* that run is committed already, in a transaction of its own.
LookupRun(w, r) ==
    /\ pc[w] = "idle" /\ r \in GivenRuns
    /\ \/ runStatus[r] = "COMMITTED" /\ Leave(w, "done")
       \/ /\ runStatus[r] # "COMMITTED"
          /\ pc'  = [pc EXCEPT ![w] = "named"]
          /\ job' = [job EXCEPT ![w] = r]
          /\ UNCHANGED <<event, number, checked>>
    /\ UNCHANGED <<dbVars, fileVars, watchVars, crashes>>

\* _committed_webhook_event_result: an event already committed is answered
\* with its version.
LookupEvent(w, e) ==
    /\ pc[w] = "idle"
    /\ \/ e \in keyed /\ Leave(w, "done")
       \/ /\ e \notin keyed
          /\ pc'    = [pc EXCEPT ![w] = "unseen"]
          /\ event' = [event EXCEPT ![w] = e]
          /\ UNCHANGED <<job, number, checked>>
    /\ UNCHANGED <<dbVars, fileVars, watchVars, crashes>>

\* _open_dataset_transaction and the insert of its sync run, one transaction:
\* the base is whatever version is latest now.
OpenTransaction(w, r, t) ==
    /\ runStatus[r] = "NONE"
    /\ txStatus'  = [txStatus EXCEPT ![r] = "OPEN"]
    /\ txType'    = [txType EXCEPT ![r] = t]
    /\ txBase'    = [txBase EXCEPT ![r] = Len(versions)]
    /\ runStatus' = [runStatus EXCEPT ![r] = "EXTRACTING"]
    /\ pc'  = [pc EXCEPT ![w] = "extract"]
    /\ job' = [job EXCEPT ![w] = r]
    /\ UNCHANGED <<versions, keyed, lock, fileVars, event, number, checked, watchVars, crashes>>

\* upload_csv: always a SNAPSHOT, under an id of its own.
OpenUpload(w) ==
    /\ pc[w] = "idle"
    /\ OpenTransaction(w, NewRun[w], "SNAPSHOT")

\* Webhook events append, each delivery under an id of its own.
OpenWebhook(w) ==
    /\ pc[w] = "unseen"
    /\ OpenTransaction(w, NewRun[w], "APPEND")

\* A named run that nobody has started: the caller chooses the type.
OpenNamed(w, t) ==
    /\ pc[w] = "named"
    /\ OpenTransaction(w, job[w], t)

\* _resumable_sync_plan: an EXTRACTING run is taken up again with its own
\* transaction; any other status is a conflict, raised before anything was
\* opened and so without an abort.
ResumeNamed(w) ==
    /\ pc[w] = "named" /\ runStatus[job[w]] # "NONE"
    /\ \/ /\ runStatus[job[w]] = "EXTRACTING"
          /\ pc' = [pc EXCEPT ![w] = "extract"]
          /\ UNCHANGED <<job, event, number, checked>>
       \/ runStatus[job[w]] # "EXTRACTING" /\ Leave(w, "done")
    /\ UNCHANGED <<dbVars, fileVars, watchVars, crashes>>

\* The connector or the parquet writer fills the staging file, or fails.
Extract(w) ==
    /\ pc[w] = "extract"
    /\ \/ /\ staged' = [staged EXCEPT ![job[w]] = w]
          /\ pc' = [pc EXCEPT ![w] = "finalize"]
       \/ /\ pc' = [pc EXCEPT ![w] = "cleanup"]
          /\ UNCHANGED staged
    /\ UNCHANGED <<dbVars, dirVars, job, event, number, checked, watchVars, crashes>>

-----------------------------------------------------------------------------
(* Finalizing *)

\* Mutant: a SNAPSHOT commits on whatever is the head.
BaseUnchecked(r) == r \in Runs

\* ensure_snapshot_base_current
BaseCurrent(r) == txType[r] = "SNAPSHOT" => txBase[r] = Len(versions)

\* The handler's database transaction ends without its writes.
RollBack(w) ==
    /\ lock' = NoWorker
    /\ pc' = [pc EXCEPT ![w] = "cleanup"]
    /\ UNCHANGED <<txVars, versions, keyed>>

\* _abort_finalization_with_failures: the abort is committed (the caller
\* catches DatasetCommitBlocked inside its transaction) unless the row left
\* OPEN and ABORTING meanwhile, which is a conflict and rolls back.
BlockCommit(w) ==
    /\ txStatus' = IF Abortable(job[w]) THEN [txStatus EXCEPT ![job[w]] = "ABORTED"] ELSE txStatus
    /\ lock' = NoWorker
    /\ pc' = [pc EXCEPT ![w] = "cleanup"]
    /\ UNCHANGED <<txType, txBase, runStatus, versions, keyed>>

\* _finalize_request up to the validation: take the dataset lock, require the
\* transaction open and a SNAPSHOT's base current, then check the candidate.
ValidateCandidate(w) ==
    /\ pc[w] = "finalize" /\ lock = NoWorker
    /\ \/ /\ txStatus[job[w]] # "OPEN" \/ ~BaseCurrent(job[w]) \/ staged[job[w]] = NoWorker
          /\ RollBack(w)
          /\ UNCHANGED checked
       \/ /\ txStatus[job[w]] = "OPEN" /\ BaseCurrent(job[w]) /\ staged[job[w]] # NoWorker
          /\ \/ BlockCommit(w) /\ UNCHANGED checked
             \/ /\ lock' = w
                /\ checked' = [checked EXCEPT ![w] = staged[job[w]]]
                /\ pc' = [pc EXCEPT ![w] = "recheck"]
                /\ UNCHANGED <<txVars, versions, keyed>>
    /\ UNCHANGED <<fileVars, job, event, number, watchVars, crashes>>

\* _ensure_checked_candidate_unchanged, then _next_dataset_version_number.
RecheckCandidate(w) ==
    /\ pc[w] = "recheck"
    /\ \/ staged[job[w]] = NoWorker /\ RollBack(w) /\ UNCHANGED number
       \/ staged[job[w]] \notin {checked[w], NoWorker} /\ BlockCommit(w) /\ UNCHANGED number
       \/ /\ staged[job[w]] = checked[w] /\ checked[w] # NoWorker
          /\ number' = [number EXCEPT ![w] = Len(versions) + 1]
          /\ pc' = [pc EXCEPT ![w] = "promote"]
          /\ UNCHANGED dbVars
    /\ UNCHANGED <<fileVars, job, event, checked, watchVars, crashes>>

\* commit_staged_dataset_files: make the directory of a fresh version id and
\* copy the staging file into it.  When the copy raises - the staging file is
\* gone, or storage fails - nothing removes the directory: the call is outside
\* the try that cleans up.
PromoteFiles(w) ==
    /\ pc[w] = "promote"
    /\ dirs' = dirs \cup {w}
    /\ \/ /\ staged[job[w]] # NoWorker
          /\ stored' = [stored EXCEPT ![w] = staged[job[w]]]
          /\ pc' = [pc EXCEPT ![w] = "persist"]
          /\ UNCHANGED <<dbVars, leaked>>
       \/ /\ leaked' = leaked \cup {w}
          /\ RollBack(w)
          /\ UNCHANGED stored
    /\ UNCHANGED <<staged, job, event, number, checked, watchVars, crashes>>

\* Mutant: the statuses are written by id.
CommitByIdOnly(w) == number[w] = Len(versions) + 1 /\ event[w] \notin keyed

\* Every row the commit writes goes through: the version number is free, the
\* transaction is still OPEN, the run still EXTRACTING, the event key unused.
CommitGoesThrough(w) ==
    /\ number[w] = Len(versions) + 1
    /\ txStatus[job[w]] = "OPEN"
    /\ runStatus[job[w]] = "EXTRACTING"
    /\ event[w] \notin keyed

\* mark_sync_run_committed, the hook that runs inside the commit.
MarkSyncRunCommitted(w) == runStatus' = [runStatus EXCEPT ![job[w]] = "COMMITTED"]

\* Mutant: a commit that is refused leaves its promoted directory.
KeepVersionArtifacts(w) == UNCHANGED dirVars

\* cleanup_committed_version_artifacts
CleanupVersionArtifacts(w) ==
    /\ dirs' = dirs \ {w}
    /\ stored' = [stored EXCEPT ![w] = NoWorker]
    /\ UNCHANGED leaked

\* The statements of _persist_commit_metadata go through and the handler's
\* transaction ends: version, files, transaction, sync run, event key and outbox
\* row are committed together.  The handler returns, or its COMMIT raised all
\* the same - its answer was lost - and the handler goes on to abort.
CommitVersion(w) ==
    /\ pc[w] = "persist" /\ CommitGoesThrough(w)
    /\ versions'  = Append(versions, [id |-> w, run |-> job[w], event |-> event[w]])
    /\ txStatus'  = [txStatus EXCEPT ![job[w]] = "COMMITTED"]
    /\ MarkSyncRunCommitted(w)
    /\ keyed' = keyed \cup ({event[w]} \ {NoEvent})
    /\ lock' = NoWorker
    /\ \/ Leave(w, "done")
       \/ pc' = [pc EXCEPT ![w] = "cleanup"] /\ UNCHANGED <<job, event, number, checked>>
    /\ UNCHANGED <<txType, txBase, fileVars, watchVars, crashes>>

\* A statement of _persist_commit_metadata is refused, which removes the
\* promoted directory again; or the COMMIT at the end of engine.begin() raises,
\* outside that try, and leaves it.
LoseCommit(w) ==
    /\ pc[w] = "persist"
    /\ \/ ~CommitGoesThrough(w) /\ CleanupVersionArtifacts(w)
       \/ /\ CommitGoesThrough(w)
          /\ leaked' = leaked \cup {w}
          /\ UNCHANGED <<dirs, stored>>
    /\ RollBack(w)
    /\ UNCHANGED <<staged, job, event, number, checked, watchVars, crashes>>

\* abort_transaction_after_error: the staging files go first and stay gone,
\* whatever becomes of the database transaction around their removal.
CleanupStaging(w) ==
    /\ pc[w] = "cleanup"
    /\ staged' = [staged EXCEPT ![job[w]] = NoWorker]
    /\ pc' = [pc EXCEPT ![w] = "abort"]
    /\ UNCHANGED <<dbVars, dirVars, job, event, number, checked, watchVars, crashes>>

\* abort_open_transaction_and_fail_run: the transaction is aborted, or found
\* ABORTED, and its run failed - or, when either is past that, nothing is.
AbortAfterError(w) ==
    /\ pc[w] = "abort"
    /\ \/ /\ Abortable(job[w]) \/ txStatus[job[w]] = "ABORTED"
          /\ runStatus[job[w]] = "EXTRACTING"
          /\ txStatus'  = [txStatus EXCEPT ![job[w]] = "ABORTED"]
          /\ runStatus' = [runStatus EXCEPT ![job[w]] = "FAILED"]
       \/ /\ \/ ~Abortable(job[w]) /\ txStatus[job[w]] # "ABORTED"
             \/ runStatus[job[w]] # "EXTRACTING"
          /\ UNCHANGED <<txStatus, runStatus>>
    /\ Leave(w, "done")
    /\ UNCHANGED <<txType, txBase, versions, keyed, lock, fileVars, watchVars, crashes>>

\* The process dies: its connection and the lock go, its files stay.
WorkerCrash(w) ==
    /\ pc[w] \notin {"idle", "done", "dead"}
    /\ Leave(w, "dead")
    /\ lock' = IF lock = w THEN NoWorker ELSE lock
    /\ UNCHANGED <<txVars, versions, keyed, fileVars, watchVars, crashes>>

-----------------------------------------------------------------------------
(* The watchdog *)

\* Mutant: the listing takes only OPEN rows.
ListedOpen(r) == txStatus[r] = "OPEN"

\* list_recoverable_transactions
Recoverable(r) == txStatus[r] \in {"OPEN", "ABORTING"}

\* The watchdog is through with its candidate.
WatchLeaves(x) ==
    /\ wpc'    = [wpc EXCEPT ![x] = "idle"]
    /\ target' = [target EXCEPT ![x] = NoRun]
    /\ seen'   = [seen EXCEPT ![x] = "NONE"]

\* The watchdog lists its candidates; any transaction may be older than the
\* operator's cutoff.
WatchList(x, r) ==
    /\ wpc[x] = "idle" /\ Recoverable(r)
    /\ wpc'    = [wpc EXCEPT ![x] = "claim"]
    /\ target' = [target EXCEPT ![x] = r]
    /\ seen'   = [seen EXCEPT ![x] = txStatus[r]]
    /\ UNCHANGED <<dbVars, fileVars, workerVars, crashes>>

\* _claim_watchdog_abort: a row listed as ABORTING is an earlier watchdog's
\* claim and is taken over as it is; a row listed as OPEN must still be OPEN.
WatchClaim(x) ==
    /\ wpc[x] = "claim"
    /\ \/ /\ seen[x] = "ABORTING"
          /\ wpc' = [wpc EXCEPT ![x] = "cleanup"]
          /\ UNCHANGED <<txStatus, target, seen>>
       \/ /\ seen[x] = "OPEN" /\ txStatus[target[x]] = "OPEN"
          /\ wpc' = [wpc EXCEPT ![x] = "cleanup"]
          /\ txStatus' = [txStatus EXCEPT ![target[x]] = "ABORTING"]
          /\ UNCHANGED <<target, seen>>
       \/ /\ seen[x] = "OPEN" /\ txStatus[target[x]] # "OPEN"
          /\ WatchLeaves(x)
          /\ UNCHANGED txStatus
    /\ UNCHANGED <<txType, txBase, runStatus, versions, keyed, lock, fileVars, workerVars, crashes>>

\* cleanup_staging_transaction, between the claim and the abort.
WatchCleanup(x) ==
    /\ wpc[x] = "cleanup"
    /\ staged' = [staged EXCEPT ![target[x]] = NoWorker]
    /\ wpc' = [wpc EXCEPT ![x] = "abort"]
    /\ UNCHANGED <<dbVars, dirVars, workerVars, target, seen, crashes>>

\* abort_transaction and _fail_associated_sync_run in one transaction.
WatchAbort(x) ==
    /\ wpc[x] = "abort"
    /\ IF Abortable(target[x])
       THEN /\ txStatus' = [txStatus EXCEPT ![target[x]] = "ABORTED"]
            /\ runStatus' = IF runStatus[target[x]] = "EXTRACTING"
                            THEN [runStatus EXCEPT ![target[x]] = "FAILED"] ELSE runStatus
       ELSE UNCHANGED <<txStatus, runStatus>>
    /\ WatchLeaves(x)
    /\ UNCHANGED <<txType, txBase, versions, keyed, lock, fileVars, workerVars, crashes>>

WatchCrash(x) ==
    /\ wpc[x] # "idle" /\ crashes < MaxCrashes
    /\ WatchLeaves(x)
    /\ crashes' = crashes + 1
    /\ UNCHANGED <<dbVars, fileVars, workerVars>>

-----------------------------------------------------------------------------

StartStep(w) ==
    \/ OpenUpload(w) \/ OpenWebhook(w)
    \/ \E r \in Runs : LookupRun(w, r)
    \/ \E e \in Events : LookupEvent(w, e)
    \/ \E t \in TxTypes : OpenNamed(w, t)
    \/ ResumeNamed(w)

FinalizeStep(w) ==
    \/ ValidateCandidate(w) \/ RecheckCandidate(w) \/ PromoteFiles(w)
    \/ CommitVersion(w) \/ LoseCommit(w)

AbortStep(w) == CleanupStaging(w) \/ AbortAfterError(w)

WatchStep(x) ==
    \/ \E r \in Runs : WatchList(x, r)
    \/ WatchClaim(x) \/ WatchCleanup(x) \/ WatchAbort(x)

Next ==
    \/ \E w \in Workers : \/ StartStep(w) \/ Extract(w) \/ FinalizeStep(w)
                          \/ AbortStep(w) \/ WorkerCrash(w)
    \/ \E x \in Watchdogs : WatchStep(x) \/ WatchCrash(x)

Spec == Init /\ [][Next]_vars

\* A handler that has been called runs until it returns or its process dies,
\* and the operator keeps running the watchdog.
FairSpec ==
    /\ Spec
    /\ \A w \in Workers : WF_vars(Extract(w) \/ FinalizeStep(w) \/ AbortStep(w))
    /\ \A x \in Watchdogs : WF_vars(WatchStep(x))

-----------------------------------------------------------------------------
(* The dataset as DatasetHistory describes it *)

\* A watchdog's claim leaves the transaction open.
Outcome ==
    [NONE |-> "none", OPEN |-> "open", ABORTING |-> "open",
     ABORTED |-> "aborted", COMMITTED |-> "committed"]

DH == INSTANCE DatasetHistory WITH
        history <- [n \in DOMAIN versions |-> versions[n].run],
        outcome <- [r \in Runs |-> Outcome[txStatus[r]]],
        kind    <- txType,
        base    <- txBase

\* Uploads, syncs, webhooks, the watchdog and crashes together behave like
\* one atomic commit or abort per transaction: no transaction commits after an
\* abort or twice, and no SNAPSHOT overwrites a version it has not seen.
ImplementsHistory == DH!Spec

-----------------------------------------------------------------------------
(* Properties *)

\* The variables have their types.
TypeOK ==
    /\ txStatus \in [Runs -> TxStatuses] /\ txType \in [Runs -> TxTypes]
    /\ txBase \in [Runs -> Nat] /\ runStatus \in [Runs -> RunStatuses]
    /\ versions \in Seq(Version) /\ keyed \subseteq Events
    /\ lock \in Workers \cup {NoWorker}
    /\ staged \in [Runs -> Workers \cup {NoWorker}]
    /\ dirs \subseteq Workers /\ leaked \subseteq Workers
    /\ stored \in [Workers -> Workers \cup {NoWorker}]
    /\ pc \in [Workers -> PCs] /\ job \in [Workers -> Runs \cup {NoRun}]
    /\ event \in [Workers -> Events \cup {NoEvent}]
    /\ number \in [Workers -> Nat] /\ checked \in [Workers -> Workers \cup {NoWorker}]
    /\ wpc \in [Watchdogs -> WatchPCs] /\ target \in [Watchdogs -> Runs \cup {NoRun}]
    /\ seen \in [Watchdogs -> TxStatuses]
    /\ crashes \in 0..MaxCrashes

\* A transaction, its sync run and the version history tell the same story: a
\* run has a version exactly when its transaction is COMMITTED, exactly when it
\* is COMMITTED itself, and a run is never FAILED over an open transaction
\* (_persist_commit_metadata, abort_open_transaction_and_fail_run).
CommitAgreement ==
    \A r \in Runs :
        /\ (txStatus[r] = "COMMITTED") <=> (\E n \in DOMAIN versions : versions[n].run = r)
        /\ (txStatus[r] = "COMMITTED") <=> (runStatus[r] = "COMMITTED")
        /\ runStatus[r] = "FAILED" => txStatus[r] = "ABORTED"

\* Storage agrees with the database although it is not part of any database
\* transaction.  A version's directory exists and is complete, also when the
\* handler was told that its COMMIT failed; and a live handler whose commit was
\* refused - a watchdog's abort, a second delivery, a run that ended - has
\* removed its directory again (cleanup_committed_version_artifacts).  What
\* remains without a version was left by a process that died, or by a promotion
\* or a COMMIT that raised outside the code that cleans up.
StorageAgreement ==
    /\ \A n \in DOMAIN versions : versions[n].id \in dirs /\ stored[versions[n].id] # NoWorker
    /\ \A w \in dirs \ leaked :
         \/ pc[w] \in {"persist", "dead"}
         \/ \E n \in DOMAIN versions : versions[n].id = w

\* "Storage promotion followed by DB file-row failure removes the promoted
\* artifact": the handler of a failed commit leaves no directory, however it failed.
FailuresLeaveNothing ==
    \A w \in dirs : pc[w] = "done" => \E n \in DOMAIN versions : versions[n].id = w

\* A SNAPSHOT replaces the version it was opened against and no other
\* (ensure_snapshot_base_current under the dataset lock).
SnapshotBaseIsHead ==
    \A n \in DOMAIN versions :
        txType[versions[n].run] = "SNAPSHOT" => txBase[versions[n].run] + 1 = n

\* However often a webhook event is delivered, at most one version carries it
\* (uq_webhook_event_key).
EventOnce ==
    \A m, n \in DOMAIN versions :
        versions[m].event = versions[n].event /\ versions[m].event # NoEvent => m = n

\* The process whose handler holds the dataset lock is the one finalizing.
LockHeld == \A w \in Workers : pc[w] \in Locked <=> lock = w

\* A handler at work has a run that was started, a watchdog one it listed.
JobsStarted ==
    /\ \A w \in Workers :
         /\ pc[w] = "named" => job[w] \in Runs
         /\ pc[w] \in Working => job[w] \in Runs /\ runStatus[job[w]] # "NONE"
    /\ \A x \in Watchdogs : wpc[x] # "idle" => target[x] \in Runs

\* Transactions and runs are inserted together, and a run outlives its
\* transaction only as EXTRACTING over ABORTED.
RowsTogether ==
    \A r \in Runs :
        /\ txStatus[r] = "NONE" <=> runStatus[r] = "NONE"
        /\ Abortable(r) => runStatus[r] = "EXTRACTING"

\* What ensure_snapshot_base_current found stays true under the lock.
HeadHeld == \A w \in Workers : pc[w] \in Locked => BaseCurrent(job[w])

\* A handler past its commit has ended or is aborting in vain; the version keeps
\* its directory and its event.
VersionsFinal ==
    /\ \A n \in DOMAIN versions :
         /\ pc[versions[n].id] \in {"cleanup", "abort", "done", "dead"}
         /\ versions[n].event \in keyed \cup {NoEvent}
    /\ \A w \in Workers : pc[w] = "persist" => w \in dirs /\ stored[w] # NoWorker

\* The inductive invariant: beside the rows' agreement, a SNAPSHOT's base and an
\* event's single version, what holds while the lock is held and what a
\* committed version leaves behind (_finalize_request, _persist_commit_metadata).
DatasetInv ==
    /\ TypeOK /\ LockHeld /\ JobsStarted /\ RowsTogether /\ HeadHeld /\ VersionsFinal
    /\ CommitAgreement /\ SnapshotBaseIsHead /\ EventOnce /\ StorageAgreement

\* With a watchdog no transaction stays open: once nobody opens another, all of
\* them are committed or aborted.
TransactionsSettle ==
    (\E r \in Runs : Abortable(r)) ~> (\A r \in Runs : ~Abortable(r))

\* "aborting the transaction without failing the run leaves the run
\* non-terminal forever": with a watchdog, every run that is started ends.
RunsSettle ==
    \A r \in Runs : (runStatus[r] = "EXTRACTING") ~> (runStatus[r] # "EXTRACTING")

\* _current_view_versions: the versions a reader of version n is shown.
CurrentView(n) ==
    LET View[k \in 0..n] ==
          CASE k = 0                                -> {}
            [] txType[versions[k].run] = "SNAPSHOT" -> {k}
            [] OTHER                                -> {k} \cup View[txBase[versions[k].run]]
    IN View[n]

\* The head shows the latest SNAPSHOT and "all files from subsequent APPEND
\* transactions".
AppendsServed ==
    \A n \in DOMAIN versions :
        (\A m \in n..Len(versions) : m > n => txType[versions[m].run] = "APPEND")
            => n \in CurrentView(Len(versions))

\* "a staged candidate changed after quality checks is rejected before final
\* storage commit": what a version's directory holds is what was validated.
StoredIsChecked ==
    \A n \in DOMAIN versions : stored[versions[n].id] = checked[versions[n].id]
=============================================================================
