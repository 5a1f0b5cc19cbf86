# Foundry-lite: verification project

Foundry-lite is an operational object platform: datasets, pipelines, an
ontology, actions and applications over them. Its python core
(`src/libs/foundry_lite`) keeps all durable state in SQL rows, and nearly every
concurrency question in it has the same shape: several processes (API servers,
the workers under `src/apps/worker`, Temporal activities) move rows through a
status machine with compare-and-set updates, under leases and fencing tokens,
while files, blobs, streams and external providers take part in no database
transaction. This project models the parts in which that shape carries the most
weight, checks them with TLC and proves their safety properties with TLAPS.

## 1. Inventory

| Component | State it keeps | Operations | What is hard | Module |
|---|---|---|---|---|
| Transactional outbox and publisher | `outbox_events`, `dead_letter_events` | insert beside a business change; reclaim, select, claim, publish, mark; dead-letter retry | several publishers, crashes, lost acknowledgements, claim timestamp as fence, pause by restore mode | `Outbox` |
| Distributed pipeline run | `pipeline_runs`, node runs and attempts, serving outputs, the workflow's outcomes | enqueue and dispatch, begin, execute node, cancel, finalize, recovery scans | overlapping deliveries, two levels of lease, cancellation racing everything, unknown dispatch | `PipelineRun` |
| Dataset transactions | transaction, sync-run and version rows, staging files and version directories | open, resume, stage, validate, promote, persist, abort, stale-transaction watchdog | storage outside the transaction, two calls with one run id, crashes between any two steps | `DatasetTransactions` |
| Record dead letters and replay | record rows, replay leases, cursors in transaction metadata | archive, quarantine, retry, replay, discard | lease takeover, replay of what was done, two writers of one cursor | `StreamReplay` |
| Action runs | run, step, attempt rows, before-commit receipt, Temporal workflow | start, dispatch, claim, drive, commit, fail, cancel, recover | two workers on one run, effects of unknown outcome, unlocked reads of the run row | `ActionRun` |
| Action effects | effect receipts | claim, authorize, seal, send, record, cancel, retry, reconcile | a call that may or may not have happened, late workers, operators | `ActionEffects` |
| Pipeline schedules | schedule row, terminal observations | tick, claim, enqueue, complete, observe, edit | double firing, a tick that outlives its lease, edits under it | `PipelineSchedule` |
| Media transactions | media transactions, versions, heads, blobs, marks, holds, bindings | open, upload, commit, abort, sweep, mark, hold, bind, purge | statements of two calls interleaved at READ COMMITTED, blobs outside the transaction | `MediaTransactions` |
| Status compare-and-set layer | none | guarded updates | which statuses a transition starts from | within each |
| Backup and restore mode | restore-mode audit events | start, approve resume | the gate is read before work that outlives it | `Outbox` (gate) |
| Workflow run lease; unknown-commit reconciliation; object index; ontology and releases; sources; AIP, MCP, OSDK; API, CLI, web, SDKs; repositories and adapters | see `PROJECT.json` | | | not modelled, section 7 |

How they interact. Business services insert an outbox row in their own
transaction; the publisher is the only reader of those rows, and restore mode is
a gate it reads in each transaction. A schedule's tick enqueues a pipeline run
under an idempotency key; the run is driven by a Temporal workflow that calls
back into the services as activities and is watched by a control worker that
only sees the rows, and the same control worker reports the run's end to the
schedule. A pipeline's outputs, connector syncs, webhooks and replays all commit
through dataset transactions; `StreamReplay` uses the commit as one step, which
is what the refinement of `DatasetTransactions` to `DatasetHistory` justifies.
An Action run commits its edits and the receipts of its after-commit effects
together; `ActionEffects` begins at such a receipt.

## 2. Modules

Each component has a specification module, a module of theorems and an `MC`
module for TLC:

| Specification | Proofs | TLC |
|---|---|---|
| `Outbox` | `OutboxProofs` | `MCOutbox` |
| `PipelineRun` | `PipelineRunProofs` | `MCPipelineRun` |
| `DatasetTransactions`, with its abstract specification `DatasetHistory` | `DatasetProofs` | `MCDatasetTransactions` |
| `StreamReplay` | `StreamReplayProofs` | `MCStreamReplay` |
| `ActionRun` | `ActionRunProofs` | `MCActionRun` |
| `ActionEffects` | `ActionEffectsProofs` | `MCActionEffects` |
| `PipelineSchedule` | `PipelineScheduleProofs` | `MCPipelineSchedule` |
| `MediaTransactions` | `MediaProofs` | `MCMediaTransactions` |

Definitions whose comment begins with "Mutant" are not part of a specification;
each is a plausible error in the definition that follows it, and `PROJECT.json`
says which property it must break. `PROJECT.json` also maps every definition to
the lines it translates.

### Outbox

A row has its three columns (`status`, `attempts`, `claimedAt`); a worker has
the local variables of `publish_pending_outbox` (`todo`, `batch`, `cur`, the
claim timestamp `fence` and the attempt number `seen` it read back). Each action
is one database transaction of the code, or the one call to the stream between
two of them, except where a transaction reads the restore-mode gate: at READ
COMMITTED restore mode may begin between that read and the rows the transaction
goes on to write, so the read (`PassGate`, `AdmitRetry`) and the writes are two
actions, and `gated` and `admitted` say who is between them. `straddling` is
bookkeeping: the workers past the gate when restore mode began. Workers in
`Callers` serve the API call, which publishes for the caller's tenant; the
others run the worker's pass over all tenants. `Crash` drops the local variables
of a worker and leaves its row in `publishing`. A worker need not crash to lose
its row: nothing bounds the time between two of its steps. A claim's timestamp
is read as its statement is sent. One tenant has at most one active restore.

### PipelineRun

`status`, `token`, `left` and `dispatch` are the run row, `node` and `count` the
node rows, `att`, `attNo` and `attLeft` the attempt row of each delivery, and
`committed` the serving outputs. `wf`, `wave`, `tries`, `outcome` and `shown` are
the workflow, whose own history is durable in Temporal. A *delivery* is one
execution of a node's activity. Leases are kept as the time left, so the clock
is unbounded: `left` is the number of ticks to the run lease's expiry and
`attLeft` is one more than that of the attempt's, because the code lets an owner
close its attempt at the expiry instant (`>=`) at which another may already take
it over (`<=`).

Facts of the code the model depends on:

* every transaction that writes node or attempt rows first updates the run row
  (`require_active`, `request_run_cancel`), whose lock orders them, so each is
  one action;
* a node runs in a subprocess with a session of its own, so it outlives the
  worker that started it: `TimeOut` starts the next delivery and leaves the old
  one at work. `Stall` is a process that dies or is suspended, `Resume` one that
  comes back;
* the keepalive renews a two-minute lease every 30 s and the heartbeat a 30 s
  lease every 10 s, hence `RenewalsInTime`: a lease does not run out while a
  process that may renew it is well;
* a node row is inserted without inputs and none are recorded later, hence
  `Contract`.

Simplifications: one dispatch call is in flight at a time; the clock of an
attempt claim is read in the claiming transaction (the code reads it just before
the lock); `count` and the fencing token coincide, as they do in the code.
Statuses that are unreachable on this path (`executing`, `READY`, `RETRY_WAIT`,
`SKIPPED`) are left out: the retry decision needs a mark that no runtime error
payload carries.

### DatasetHistory and DatasetTransactions

`DatasetHistory` says what writers of a dataset may rely on: a transaction is
opened against the current head and later committed or aborted in one step,
once; a commit extends one linear history; a SNAPSHOT commits only on the very
version it was opened against.

`DatasetTransactions` has the rows (`txStatus`, `txType`, `txBase`, `runStatus`,
`versions`, `keyed`), the lock on the dataset row, the files (`staged` per run,
`stored` per version directory) and the place of every handler and watchdog. An
action is one database transaction or one effect on storage. Finalization is a
single database transaction, but storage is not part of it, so its steps
(`recheck`, `promote`, `persist`) are separate actions between which only the
lock is held. A candidate passes or fails its checks by choice; what was checked
and what was copied is remembered, because a second call that resumes the same
named run writes the same staging path. A promotion makes its directory (`dirs`)
before it copies, so one that fails leaves it behind; so does a COMMIT that
raises at the end of the transaction, also when the database had taken it and
only the answer was lost. `leaked` is bookkeeping: the directories left that way.
Aborting after an error is two actions, since the staging files go first and stay
gone whatever becomes of the rows.

### StreamReplay

`log` is the version history with the stream cursor in each transaction's
metadata. An archiver reads the head and the cursor, then commits the batch that
follows it on condition that the head has not moved; invalid records (`Bad`)
become dead letters in the same transaction. The source's error policy
(`MaxErrorPercent`, and `Fatal` for records whose code stops the archive) and
the demand for one valid record (`Writable`) refuse a batch: its dead letters
are kept, its transaction is aborted and the cursor stays. A retry requests a
replay, claims its lease, opens or resumes the sync run of the request, copies
the metadata, and commits. `LeaseExpires` may strike a live call
(`MaxTakeovers`), whose token is then refused everywhere.

### ActionRun and ActionEffects

The services read the run row without a lock at READ COMMITTED, so a
transaction that decides on it is two steps: the read (`seen`), and the locked
rows and writes. `Settings` selects the deployments: driver in the worker or in
a child process, contract with or without a before-commit effect. A call to the
provider is counted when it leaves (`sent`) and when it takes effect (`landed`),
which happens by choice.

In `ActionEffects` a call is named by the fencing token of its claim. `unsure`
is bookkeeping: the calls that may have taken effect, that is made, not refused
by the provider, and not vouched for by an operator (`vouched`). The target is a
webhook or a Kafka topic, whose failures differ: a webhook's ambiguous answers
are recorded as unknown, a Kafka flush that times out is not.

### PipelineSchedule

Time is a clock of slots and slot n is due at n. A tick claims the row under a
fencing token, enqueues the slot's run and completes with values computed from
the row it claimed. Runs end by choice; the control worker observes each end
once. Operators upsert, pause, resume and delete; a pause writes back the due time
it read earlier without a lock, so any earlier one. A writer of the previous
release may leave a row that the next tick reconciles (`fresh`).

### MediaTransactions

One logical path. A commit is split at its statements (flip the staged versions,
list them, lock the item, move the head, close the transaction) because other
calls can run between them; a row a commit has flipped is locked until it ends. A
commit checks that its transaction is open long before, without a lock, so two
commits of one transaction may both go on.
A session stands for its blob key and the version it stages. The orphan sweep
and the purge delete blobs one at a time inside a database transaction that may
still be rolled back. A purge that rolls back brings back its rows and not the
bytes.

## 3. Runs

| Run | Shows | Bounds |
|---|---|---|
| `outbox` | fencing, dead letters, finality, a restore overtaken only by claims past the gate, the inductive invariant; every row is settled once restore mode is over | a worker and an API caller, two rows, lease 1, two attempts, clock to 2; crashes before time `LastCrash` only, so that the clock does not stop before the lease ends; one retry, one restore |
| `pipeline_safety` | the inductive invariant, evidence of overlapping deliveries, order of nodes, frozen terminal runs, a cancelled run takes up no work | a chain of two output nodes, the first delivered twice, one stall; leases of 2 |
| `pipeline_control` | a run always ends: lost dispatch answers, repeated begin, reaper and cancellation | one node, one delivery, two begins, one unknown dispatch, one stall |
| `dataset` | rows agree with each other and with storage; the refinement; no transaction stays open | two handlers, three runs of which one is named by its caller and may be resumed, one webhook event delivered twice, a watchdog; each handler may die once and so may the watchdog; promotions and commits fail at any time |
| `replay` | one replay per dead letter, no event skipped, replays decided; archiving stops for good only before a batch that is refused | two archivers, two callers, two keys, stream of two whose second record is invalid, at most half of a batch invalid; one crash, one takeover |
| `action` | edits once and behind their effect, effect once, forward-only status; cancellations and lost dispatches are recovered | one dispatcher, two workers, two attempts, two deliveries, the deployments "child process" and "in process with an effect", two mishaps |
| `effect` | a webhook is not called in doubt, recorded outcomes are true, abandoned deliveries are taken over | two threads, two attempts, two operator retries, two crashes, two lapsed leases, both targets |
| `schedule` | the inductive invariant, slots in order, manual pause, an automatic pause yields to the owner's tick only, due slots run | two ticks, clock of 2, threshold 2, one edit, one mishap; deletes are free |
| `media` | what is visible was committed, numbers differ, the bytes of an open transaction's versions stay | two transactions, two uploads, two commits, two marks, hold changes or binds, one sweep and one purge at a time, any failures; symmetric in transactions, uploads and commits |
| `pipeline_verdict`, `dataset_appends`, `replay_cursor` | **violations**, section 4 | the smallest instance that shows each |

Why two of everything is enough where it is: a fence compares a token with the
latest one only, a compare-and-set with the current row only, and a lock is held
by one; so an overlap that breaks them needs two parties, and a third is only a
repetition. The mishaps allowed let one party die or lapse and the one that
takes over die or lapse as well (`action`, `effect`, `dataset`), or one of them
(`pipeline_*`, `replay`, `schedule`, whose state spaces do not admit two). In
`outbox` any number die, before the clock ends. Two nodes are enough for the
order of waves and for a failure upstream.

Two bounds leave something out. `action` has one dispatcher; two that dispatch one
run concurrently are `ActionDispatch.cfg`, which has every property of `action`,
one mishap instead of two, and passes. In `replay` the batch with a valid record
is at the limit of the error policy and the one without is over it; that the
policy also refuses a batch with valid records, or a fatal one, is in the model
and in the proofs but in no run, since a longer stream with two archivers and two
callers is out of TLC's reach.

Deadlock is checked for the outbox, whose workers always start another pass. The
other systems really come to rest when the work is done and the bounded inputs
are used up, so their configurations switch the check off.

The model's own bounds are `MaxTime`, `LastCrash`, `MaxRetries`, `MaxRestores`
(outbox), `MaxUnknown`, `MaxStalls` (pipeline), `MaxCrashes`
(dataset, of watchdogs; replay, effects), `MaxRequests` and `MaxTakeovers` (replay),
`MaxMishaps` (action, schedule), `MaxRetries` and `MaxStalls` (effects),
`MaxClock` and `MaxEdits` (schedule), `MaxRequests` (media: marks, hold changes
and binds); the other constants are the code's.

### Fairness

* Outbox: the supervisor reruns the publisher worker, a pass that has begun goes
  on, and time passes; nothing is assumed of writers, operators, API callers
  that have not begun, or crashes. `NoEventLost` asks that no tenant be in
  restore mode for good, which only an operator can bring about.
* Pipeline: Temporal runs the workflow and times activities out, node processes
  that are not stalled take their steps, renewals and heartbeats run in them,
  the control worker ticks, and time passes. Nothing is assumed of operators or
  of a stalled process. A node that computes for ever in a healthy process is
  excluded by this; the code cannot tell it from a slow one.
* Dataset: a handler that was called runs until it returns or its process dies,
  and the operator keeps running the watchdog. No handler need be called.
* Replay: calls run until they return or die, leases run out, archivers are
  scheduled, and the producers go on to the end of the stream. For each dead
  letter, the client that asked for a replay asks again with its key: strong
  fairness, because whether it finds the lease free depends on the others.
  Without it a replay whose call died stays as it is; nothing else resumes it.
* Action: the control worker ticks, Temporal delivers while it may, leases and
  retry times pass, a live worker goes on. No user need cancel, no call to
  Temporal need be answered.
* Effects: the worker loop ticks, every call returns (its timeout is bounded),
  leases and retry times pass; nothing obliges a provider or an operator.
* Schedule: the scheduler loop ticks and reconciles, leases run out, time passes;
  a run may take any time, and nothing is assumed of the control worker.
* Media: no liveness is stated. Nothing in the repository runs the two sweeps on
  a schedule.

## 4. Disagreements between the code and what is said of it

Each is a property that TLC finds violated with the configuration named. The
first three are runs of `PROJECT.json`, under `findings`.

* `PipelineVerdict.cfg`, `SucceededMeansNodesSucceeded`: a node whose activity
  raised leaves a text as its error, `run_result` keeps only mappings, and the
  run is `succeeded`.
* `DatasetAppends.cfg`, `AppendsServed`: an APPEND keeps as its base the head at
  its opening and may commit on a newer one; the current view follows bases, so
  the version in between is not served. `docs/implementation-status.md:94`:
  views "expose all files from subsequent APPEND transactions in
  oldest-to-newest order".
* `ReplayCursor.cfg`, `ArchivedOnce`: a replay copies the cursor before the
  dataset lock is taken; a batch that commits in between is followed by a
  version with the older cursor and archived again.
  `docs/implementation-status.md:159`: duplicate delivery "resumes from the
  durable offset instead of creating a second dataset version".

The others, with the words they contradict (where a configuration has several
properties, TLC stops at the first it finds violated; take that one out to see the
next):

* `OutboxTenants.cfg`, `TenantsAreIndependent`: the pass for "every known tenant"
  (`outbox_publisher_service.py:76`) ends at the first tenant in restore mode.
* `OutboxPause.cfg`, `PauseIsImmediate`: a claim that read the gate before restore
  mode began may commit after; "restore mode closes write/outbox traffic before
  that expensive scan" (`docs/implementation-status.md:248`).
* `PipelineCancel.cfg`, `CancelledAfterNodesStop`: cancellation marks RUNNING
  nodes CANCELLED, after which nothing waits for them; the control worker
  "completes cancellation after active nodes stop"
  (`docs/implementation-status.md:168`).
* `PipelineFence.cfg`, `ExpiredOwnersCannotCommit`: a serving output is committed
  under the run's lease, which a superseded delivery shares; "stale or expired
  owners cannot [...] commit serving outputs" (same line).
* `PipelineReap.cfg`, `LapsedLeaseIsACrash`: a run that waits in a queue is
  reaped; "a lapsed lease is a crash, not a slow node"
  (`pipeline_control_worker_service.py:111`).
* `PipelineContract.cfg`, `OwnersPassTheContract`: a node with inputs can never
  close its attempt; its "coordinates changed" although nothing did
  (`pipeline_graph_v2_evidence_contracts.py:48`).
* `DatasetRuns.cfg`, `RunsSettle`: a handler that dies between a blocked
  finalization and the failing of its run leaves the run EXTRACTING, which
  `dataset/recovery.py:89` says must not happen ("leaves the run
  non-terminal forever").
* `DatasetFiles.cfg`, `StoredIsChecked`: comparison and copy read the staging
  path twice, without excluding a second call on the same run; "a staged
  candidate changed after quality checks is rejected"
  (`docs/commit-point-risk-register.md:44`).
* `DatasetFiles.cfg`, `FailuresLeaveNothing`: a promotion that fails while it
  copies, or a COMMIT that raises after it, leaves the version's directory behind;
  "Storage promotion followed by DB file-row failure removes the promoted
  artifact" (`docs/commit-point-risk-register.md:42`).
* `ReplayStall.cfg`, `ValidRecordsFlow`: a batch with no valid record is refused
  without moving the cursor, so as many invalid records in a row as a batch
  holds stop the archive for ever, valid ones behind them included; invalid
  records are set aside to "keep valid records flowing into the dataset commit"
  (`docs/implementation-status.md:159`).
* `ActionCancel.cfg`, `CancelClosesRetries`: a failure decided on a row read
  before the cancellation leaves the step in `retry_wait`
  (`docs/palantir-action-mcp-prd-ko.md:237`: cancellation closes pending work and
  retries at once).
* `ActionRetry.cfg`, `RetriesAreRedelivered`: a retryable failure in a child
  process is raised as non-retryable; the signal is documented to mean "a safely
  retryable Action step needs redelivery".
* `ActionTakeover.cfg`, `AbandonedIsTakenOver`: the deliveries may be used up
  before a killed worker's lease has run out (`docs/implementation-status.md:70`
  claims kill/takeover).
* `EffectCrash.cfg`, `DispatchedIsSettled`: a receipt whose last attempt died is
  not claimed again and stays `delivering`
  (`docs/quality-gate-roadmap.md:797` says it is isolated as `outcome_unknown`).
* `EffectRetry.cfg`, `RetryIsSettled`: an operator's retry does not clear
  `cancel_requested_at`, so it is claimed and refused until its attempts are
  used up ("Schedule one explicit operator retry").
* `EffectKafka.cfg`, `StreamSentSafely`: a Kafka flush timeout counts as a
  "known-safe transient failure" and is published again.
* `EffectKafka.cfg`, `SucceededHasLanded`: nobody reads Kafka's delivery report,
  so a failed message is recorded as succeeded.
* `ScheduleFailures.cfg`, `FailuresCountedOnce`, and `SchedulePause.cfg`,
  `AutoPauseHolds`: a tick that takes over a slot whose run has failed counts the
  failure again, and a tick's completion undoes an automatic pause that came
  after its claim (`docs/implementation-status.md:168`: evidence is applied
  "exactly once").
* `MediaRows.cfg`, `NoStagedLeftBehind`: an upload's second check is an unlocked
  read, so its insert can follow the commit ("cannot leave a STAGED version under
  an already-COMMITTED transaction (TOCTOU)", `media/uploads.py`).
* `MediaRows.cfg`, `RetentionProtects`: the purge reads hold and binding
  before it deletes; a hold or bind that lands between does not stop it
  (`retention_never_purges_reachable_or_legal_hold_version`,
  `media/retention.py`).
* `MediaRows.cfg`, `VisibleHasBytes`: when a later candidate fails, the purge is
  rolled back and blobs already deleted are not ("propagates as a rollback, so
  nothing is purged on doubt", `media/retention.py`).
* `MediaPublish.cfg`, `PublishedHasBytes`: two commits read one transaction OPEN;
  the first finishes, a late upload stages a version under the COMMITTED
  transaction, the sweep deletes its blob, and the second commit publishes it.
  The sweep is to take versions whose transaction is "aborted/never committed"
  (`media_repository.py:426`).
* `MediaHead.cfg`, `HeadIsStored`: the purge clears no head, waits for the lock of
  a commit that moves the head to the version it purges, and then deletes the
  row; "clear any head pointer at this version, or deleting the row would leave
  media_items.head_version_id dangling" (`media_repository.py:518`).

These shape how the passing runs are read. In a chain the second node's attempt
never closes (the contract), so `DownstreamAfterUpstream` and `EvidenceAgrees`
cover its takeover, timeout and cancellation but its success only when it has no
inputs. `SentSafely` and `OutcomeIsTrue` are about webhooks. `TransactionsSettle`
speaks of transactions and not of runs. `StepFollowsRun` excepts cancelled runs.
`PauseStopsNewClaims` admits the one claim a worker had past the gate,
`StorageAgreement` the directories of failed promotions and COMMITs, and
`StallsOnlyOnBadBatches` the streams that `ReplayStall.cfg` stops.
`CancelBlocksWork` is about what a cancelled run may still write, which is right
whether or not nodes are waited for; that they are not is `PipelineCancel.cfg`.
`BytesUntilDecided` ends with the transaction's first commit, `MediaInv` allows a
head at a purged version, and `AutoPauseYieldsToOwner` admits the completion that
`SchedulePause.cfg` shows.

## 5. Proofs

All proofs hold for any sets of processes and rows and any limits; each rests
only on the named assumption that gives the constants their types
(`OutboxConstants`, `PipelineConstants`, `DatasetConstants`, `ReplayConstants`,
`ActionConstants`, `EffectAssumption`, `ScheduleAssumption`, `MediaConstants`).
Every safety property of a passing run, invariant or action property, is a
theorem. TLC checks each inductive invariant in a run of its own component, so
the proofs rest on formulas that hold of the small instances.

The modules are laid out alike. A type invariant is split into parts that
different actions touch; each part of an inductive invariant has one lemma with
a step per action; facts about the helpers that many actions share (leaving,
raising, forgetting) are lemmas of their own; and a last lemma puts the parts
together before the temporal theorem.

### Outbox

`OutboxProofs` proves `[]OutboxInv`, and from it `TypeOK`, `FenceIsExclusive`,
`DeadLetterIffFailed`, `SettledForAReason`, `PauseStopsNewClaims` and the action
property `PublishedIsFinal`. `FenceIsExclusive` is not inductive: it says nothing
of a worker that has lost its row and of the next claim, which might carry the
same timestamp. The argument is:

1. a claim timestamp never lies in the future (`ClaimsInThePast`);
2. only a reclaim takes a row from a worker in flight, and only after the lease,
   so a worker that no longer holds its claim has `fence + Lease < now`
   (`LostOnlyAfterLease`);
3. hence the timestamp of a new claim, `now`, differs from that of every other
   worker in flight with the same row (`FencesDiffer`), and at most one of them
   passes the compare-and-set.

The same invariant says that a worker that holds its claim knows the row's
attempts, which gives `SettledForAReason`. `PauseStopsNewClaims` is about claims
and not about gates, so it is not inductive either: a worker past an open gate
claims after restore mode began. `BatchInHand` ties a batch to the tenant whose
gate is read, and `GateBeforePause` says that a worker between its gate and its
rows, under a tenant in restore mode, was there when restore mode began; it loses
that standing with the row, whatever becomes of it, and has to read the gate
before the next.

### Pipeline run

`PipelineRunProofs` proves `[]EvidenceInv`, and from it `EvidenceAgrees` and the
action property `CancelBlocksWork`; and the action properties
`TerminalEvidenceFrozen` and `CancelWins`, which need no invariant: each is a
statement about which statuses the guards of *all* writers exclude.
`EvidenceAgrees` is not inductive.
It allows an attempt to be RUNNING beside a node that is not, in a run that still
accepts writes, and the attempt's close would then leave the two different; and
it allows two attempts with one number. The strengthening:

1. attempt numbers are given out once and only to deliveries that have started,
   and a PENDING node has none (`AttemptsNumbered`), so a new attempt finds its
   predecessors LOST already, or the latest one RUNNING and marks it;
2. while the run is queued or running, a RUNNING attempt has a RUNNING node
   (`OpenAttempts`): a node leaves RUNNING only with its attempt, or by a
   cancellation, after which the run's guard refuses every write;
3. while it is being cancelled, no node is RUNNING (`NoNodeRunsOn`), so
   `cancel_node` writes nothing.

Steps that write no evidence are treated together (`Quiet`); the others, which
are the cancellation, the start of an attempt and the last write of a delivery,
have a lemma each.

`[]RunInv` adds the workflow, and gives `TypeOK` and `DownstreamAfterUpstream`:

1. a delivery of begin takes at most one lease token and begin has `MaxBegins`
   deliveries (`BeginsCounted`), which bounds every token that is ever read;
2. outcomes are backed by rows (`OutcomesBacked`): a delivery that is about to
   report success has closed its attempt as SUCCEEDED, and by `EvidenceAgrees`
   that attempt is the latest of a SUCCEEDED node; so a succeeded outcome has
   its node row, and both stay (`Settled`);
3. a node gets into a wave only when its upstream outcomes succeeded, and a
   delivery begins only in the wave, so whatever the delay, a node with an
   attempt has SUCCEEDED upstream rows.

### Dataset transactions

`DatasetProofs` proves `[]DatasetInv`, `[]StorageAgreement` and the refinement
`Spec => ImplementsHistory`. Beside the agreement of the rows, `DatasetInv` has
what makes it inductive:

1. a handler is in the locked part of its finalization exactly when it holds the
   lock (`LockHeld`), so what `ensure_snapshot_base_current` found is still true
   when the version is inserted (`HeadHeld`); this gives the SNAPSHOT's base;
2. transaction and run rows are inserted together, and an open transaction has
   an EXTRACTING run (`RowsTogether`), so the conditional writes of commit and
   abort both succeed or both fail;
3. a version is the last act of its handler, its event is in the key table and
   its directory is never removed (`VersionsFinal`), which gives `EventOnce` and
   the first part of `StorageAgreement`, also for a handler that was told that
   its COMMIT failed and went on to abort: the abort finds a transaction that is
   committed.

The other part of `StorageAgreement` says who may have left a directory without a
version. A live handler keeps one only while its commit is in progress: a refused
statement removes it in the step that rolls the rows back, and the two failures
that the code does not clean up after enter it in `leaked`.

For the refinement the history is the sequence of runs in `versions`, a claim by
the watchdog (`ABORTING`) still counts as open, and promotion and all steps on
storage map to stuttering. `CommitVersion` maps to `Commit`, every successful
abort to `Abort`, and a transaction's insert to `Open`; the invariant supplies
that an open transaction has no version yet and that the base of a SNAPSHOT is
the length of the history.

### Action effects

`ActionEffectsProofs` proves `[]EffectInv` and `[]SentSafely`. That at most one
call is unsure is not inductive: a worker that has sealed its dispatch has not
called yet, and may be overtaken before it does. The invariant therefore speaks
of `Doubt`, the unsure calls and the sealed ones not yet made:

1. claims are named by their token, and tokens are given out once
   (`ClaimsAreNamed`), so only one worker passes a fenced write;
2. nothing but the seal puts a call in doubt (`NoNewDoubt`), and the seal needs an
   unsealed receipt;
3. while anything is in doubt the receipt is sealed (`DoubtIsSealed`): the seal is
   taken off only by a retry of a dead letter or by the owner's `retry_wait`,
   and the owner that will record one knows that nothing is in doubt
   (`OwnerKnows`), because the provider refused its own call and there was no
   other;
4. an operator's evidence covers every token given out so far (`VouchedForAll`).

### Action runs

`ActionRunProofs` proves `[]ActionInv`, and `CommittedOnce`, `SentOnce`,
`CommitAfterEffect` and the action property `StatusForward`. None of the four is
inductive, because the services decide on a run row that they read without a
lock. What holds for every worker, live or presumed dead, is:

1. attempt numbers belong to one worker each, and the latest attempt runs exactly
   while the step does (`AttemptsAreOwned`); a commit therefore finds its step
   running only while no other worker can, and closes it with the run
   (`StepFollowsRun`), which gives `CommittedOnce`;
2. the provider has been called exactly when the receipt says that dispatch was
   started, and whoever waits for the answer is alone (`CallIsFenced`), which
   gives `SentOnce`; an answer "succeeded", in a worker's hands or in the
   receipt, is true;
3. a worker that plans or commits edits with a before-commit effect does so
   behind a receipt that succeeded (`PlanBehindEffect`), and receipts that
   succeeded stay (`ReceiptSteps`), which gives `CommitAfterEffect`.

### Dead letters and replay

`StreamReplayProofs` proves `[]ReplayInv` and `[]NothingSkipped`. That the cursor
of the head covers everything before it is not inductive: the next head takes
its cursor from an archiver's batch or from metadata a replay copied earlier.
The invariant says of both that they are sound: an archiver that passes the
compare-and-set starts at the present cursor (`ArchiversReadOn`), and a copied
cursor, however old, covers what lies before it, because versions are only added
and a quarantined record is never forgotten (`CallsAreSound`, `Covered`). The
proof that `ReplayedOnce` holds uses that RESOLVED letters are those with a
version, and that a commit closes the letter it holds in the same step.

### Schedules

`PipelineScheduleProofs` proves `[]ScheduleInv` and the action properties
`SlotsInOrder`, `ManualPauseHolds` and `AutoPauseYieldsToOwner`. A completion is
computed from a copy of the row, so the question is what the copy and the row
have in common when the fence admits it:

1. fences are given out once within a generation of the schedule, and a deleted
   schedule comes back as a later generation (`ClaimsAreFenced`), so an old tick
   is never mistaken for the owner although a delete resets the fence;
2. everybody who moves the due slot or finds the row changed by the previous
   release clears the lease, so the owner's copy has the due slot
   (`OwnerHasDueSlot`);
3. a tick that counts its slot as enqueued has seen the slot's run
   (`EnqueuedHasRun`): the slot moves on only past a run or a counted failure;
4. a manual pause leaves no lease (`ManualPauseStands`), so no tick completes;
5. an active schedule that no old writer has touched is enabled, has a due slot and
   no reason to be paused (`ActiveIsDue`): whoever activates the row writes all
   four columns, and a tick completes a row whose due slot it still has.

An automatic pause keeps the lease (section 4), so one tick may complete over it.
`AutoPauseYieldsToOwner` says that it is the last claimant and that the lease ends
with it; any other step that left the pause would be a tick whose fence is old,
which the completion refuses.

### Media

`MediaProofs` proves `[]MediaInv` and `[]BytesUntilDecided`. `VisibleIsCommitted`
is not inductive because a commit makes its versions visible in several
statements. The strengthening is about who may still do what:

1. a version is staged at the end of its upload, under a transaction that was
   opened, and its bytes are there until then (`UploadsAreWhole`);
2. the rows a commit has updated are versions of its transaction, STAGED for
   everybody else and nobody else's, and whoever has the lock of the item is
   about to move the head to one of them (`CommitsAreLocked`);
3. the sweepers hold on only to versions of transactions that are no longer
   open, and to marked ones (`SweepsAreSafe`), which gives `BytesUntilDecided`.
   A transaction that is no longer open may still be committed by a second call
   (`PublishedHasBytes`, section 4), so the statement ends there.

### Only model-checked

All liveness (`NoEventLost`, `RunTerminates`, `TransactionsSettle`,
`ReplaysAreDecided`, `StallsOnlyOnBadBatches`, `CancellationsSettle`,
`DispatchIsRecovered`, `DeliveriesAreTakenOver`, `DueSlotsRun`): fairness and
ENABLED are out of the prover's reach. So are the violations of section 4, which
are counterexamples and need no proof.

## 6. Coverage

The repository holds over 300 000 lines, most of them SDK generators, quality
and operations scripts, HTTP routers, adapters, row mapping and the web
application, which have no interleaving or protocol state of their own. The map
covers the services and repository functions of the eight modelled components
and is a small share of the whole by line count.

## 7. Not modelled

* Outbox: overlapping restores of one tenant; validation of a restore.
* Pipeline run: several dispatch calls in flight; the reconciliation of a
  `partial` run whose media output commit has an unknown outcome
  (`reconcile_unknown_commit_outputs`), which would compose `PipelineRun` with
  `MediaTransactions`.
* Dataset: schema evolution, quality checks and manifests, which enter as a
  candidate that passes or fails; transform outputs, which use the same commit.
* Replay of transform records, whose recovery differs from that of a stream.
* Actions: the synchronous path with external writeback, batches, notifications.
* Schedules: cron arithmetic; replays of an operator's request by its key;
  schedules of sources and transforms.
* Media: several paths locked by one commit; derivatives, content units and
  access caches; classification checks; the hook before a commit; an upload
  whose database commit succeeds with its answer lost, which deletes the bytes of
  a staged row.
* Workflow run lease: a lease of the same form as that of a pipeline run.
* Object index, search projection, materialization, ontology activation,
  governed release and proposals: single-transaction pointer moves behind
  approvals, large in data and small in protocol.
* Sources, AIP, MCP and OSDK: adapter I/O, generated code, rate limits.
* API routers, CLI, web application, SDK packages, migrations, adapters:
  translation, with no state of their own.

## 8. Plan

1. An abstract specification of a fenced lease (claim, lapse, take over, complete
   once) and proofs that the run lease of `PipelineRun`, the claims of `Outbox`
   and those of `PipelineSchedule` implement it.
2. Composition of `PipelineRun`'s `CommitOutput` with media commits of unknown
   outcome.
3. The workflow run lease, the replay of transform records, overlapping
   restores.
