---------------------------- MODULE StreamReplay ----------------------------
(***************************************************************************)
(* One stream archived into one dataset, and the replay of the records it  *)
(* could not write.  Archivers read the events after the cursor kept in    *)
(* the metadata of the latest committed transaction and append them as a   *)
(* version; records that fail validation become dead letters.  Operators   *)
(* retry a dead letter under an idempotency key: a call requests a replay, *)
(* claims its lease, opens or resumes the sync run of the replay, and      *)
(* commits a version with that one record.                                 *)
(*                                                                         *)
(* A commit to the dataset is one step here: DatasetTransactions shows     *)
(* that it behaves like one.  The tokens of leases are the callers that    *)
(* hold them, for a call that has ended never uses its token again.        *)
(***************************************************************************)
EXTENDS Naturals, Sequences, FiniteSets

CONSTANTS
    Archivers,    \* invocations of archive_stream_events
    Callers,      \* threads serving retry_dead_letter_record
    Keys,         \* idempotency keys
    MaxOffset,    \* length of the stream
    Bad,          \* offsets whose record fails validation
    Fatal,        \* those of them with one of the fail_closed_error_kinds
    MaxErrorPercent,  \* max_record_error_ratio
    Limit,        \* StreamArchiveConfig.limit
    NoKey, NoCaller,
    MaxRequests,  \* bound: replays requested
    MaxCrashes,   \* bound: calls that die, and commits a failed check blocks
    MaxTakeovers  \* bound: leases that run out under a live call

Offsets  == 1..MaxOffset
Requests == 1..MaxRequests

ASSUME ReplayConstants ==
    /\ MaxOffset \in Nat /\ Limit \in Nat \ {0} /\ Bad \subseteq Offsets
    /\ Fatal \subseteq Bad /\ MaxErrorPercent \in 0..100
    /\ NoKey \notin Keys /\ NoCaller \notin Callers
    /\ MaxRequests \in Nat /\ MaxCrashes \in Nat /\ MaxTakeovers \in Nat

VARIABLES
    log,       \* the dataset's committed versions with their transactions' metadata
    produced,  \* how far the stream has been written
    status, replay, key, run, token, expired,   \* the dead-letter rows
    sync,      \* transaction and sync run of each replay request
    requests,  \* replay run ids handed out
    apc, aSeen, aFrom, aUpto,    \* an archiver's place, the head and the batch it read
    cpc, rec, crun, meta,        \* a caller's place, its record, run and metadata
    crashes, takeovers

letterVars  == <<status, replay, key, run, token, expired>>
archiveVars == <<apc, aSeen, aFrom, aUpto>>
callVars    == <<cpc, rec, crun, meta>>
boundVars   == <<crashes, takeovers>>
vars == <<log, produced, letterVars, sync, requests, archiveVars, callVars, boundVars>>

-----------------------------------------------------------------------------

Statuses == {"NONE", "QUARANTINED", "REPLAY_REQUESTED", "REPLAYING", "RESOLVED", "DISCARDED"}
ReplayStatuses == {"NOT_REQUESTED", "REQUESTED", "REPLAYING", "SUCCEEDED", "FAILED", "DISCARDED"}

\* "blocked" is a transaction ABORTED by its finalization whose run is still
\* EXTRACTING.
Syncs == {"none", "open", "blocked", "committed", "failed"}
CallPCs == {"idle", "claim", "prepare", "write", "meta", "commit",
            "abortRecord", "abortRaise", "record"}

Version == [offsets : SUBSET Offsets, cursor : 0..MaxOffset, replayOf : 0..MaxOffset]

\* stream_cursor_offset of the latest committed transaction's metadata.
Cursor == IF log = << >> THEN 0 ELSE log[Len(log)].cursor

Init ==
    /\ log = << >> /\ produced = 0
    /\ status  = [o \in Bad |-> "NONE"] /\ replay = [o \in Bad |-> "NOT_REQUESTED"]
    /\ key     = [o \in Bad |-> NoKey]  /\ run    = [o \in Bad |-> 0]
    /\ token   = [o \in Bad |-> NoCaller]
    /\ expired = [o \in Bad |-> FALSE]
    /\ sync = [k \in Requests |-> "none"] /\ requests = 0
    /\ apc = [a \in Archivers |-> "idle"] /\ aSeen = [a \in Archivers |-> 0]
    /\ aFrom = [a \in Archivers |-> 0] /\ aUpto = [a \in Archivers |-> 0]
    /\ cpc = [c \in Callers |-> "idle"] /\ rec = [c \in Callers |-> 0]
    /\ crun = [c \in Callers |-> 0] /\ meta = [c \in Callers |-> 0]
    /\ crashes = 0 /\ takeovers = 0

\* A call returns or dies, and its locals with it.
ArchiveReturns(a) ==
    /\ apc'   = [apc EXCEPT ![a] = "idle"]
    /\ aSeen' = [aSeen EXCEPT ![a] = 0]
    /\ aFrom' = [aFrom EXCEPT ![a] = 0]
    /\ aUpto' = [aUpto EXCEPT ![a] = 0]

Returns(c) ==
    /\ cpc'  = [cpc EXCEPT ![c] = "idle"]
    /\ rec'  = [rec EXCEPT ![c] = 0]
    /\ crun' = [crun EXCEPT ![c] = 0]
    /\ meta' = [meta EXCEPT ![c] = 0]

-----------------------------------------------------------------------------
(* Archiving the stream *)

Produce ==
    /\ produced < MaxOffset
    /\ produced' = produced + 1
    /\ UNCHANGED <<log, letterVars, sync, requests, archiveVars, callVars, boundVars>>

\* read_stream_archive_events: at most Limit events after the cursor.
LastRead == IF Cursor + Limit < produced THEN Cursor + Limit ELSE produced

\* archive_stream_events up to commit_stream_archive: remember the latest
\* transaction and read on from its cursor.
ArchiveRead(a) ==
    /\ apc[a] = "idle" /\ Cursor < produced
    /\ apc'   = [apc EXCEPT ![a] = "commit"]
    /\ aSeen' = [aSeen EXCEPT ![a] = Len(log)]
    /\ aFrom' = [aFrom EXCEPT ![a] = Cursor + 1]
    /\ aUpto' = [aUpto EXCEPT ![a] = LastRead]
    /\ UNCHANGED <<log, produced, letterVars, sync, requests, callVars, boundVars>>

Batch(a) == aFrom[a]..aUpto[a]

\* Mutant: the dead letters of a batch are not written.
DropDeadLetters(a) == UNCHANGED letterVars

\* insert_stream_dead_letters: the record id is derived from the event, so a
\* record that is there already stays as it is.
InsertDeadLetters(a) ==
    /\ status' = [o \in Bad |-> IF o \in Batch(a) /\ status[o] = "NONE" THEN "QUARANTINED" ELSE status[o]]
    /\ UNCHANGED <<replay, key, run, token, expired>>

\* Mutant: one bad record keeps the valid ones of its batch out.
WritableIfClean(batch) == batch \cap Bad = {}

\* ensure_stream_archive_batch_writable: no record is fatal, the bad ones are
\* not too many, and there is a valid one.
Writable(batch) ==
    /\ batch \cap Fatal = {}
    /\ 100 * Cardinality(batch \cap Bad) <= MaxErrorPercent * Cardinality(batch)
    /\ batch \ Bad # {}

\* write_stream_archive_batch, a batch that may not be written: its dead
\* letters are kept, the transaction is aborted and the cursor stays.
ArchiveReject(a) ==
    /\ apc[a] = "commit" /\ ~Writable(Batch(a))
    /\ InsertDeadLetters(a)
    /\ ArchiveReturns(a)
    /\ UNCHANGED <<log, produced, sync, requests, callVars, boundVars>>

\* ensure_stream_cursor_not_superseded, under the dataset lock.
CursorCurrent(a) == Len(log) = aSeen[a]

\* finalize_stream_archive_commit: dead letters, version and cursor together.
ArchiveCommit(a) ==
    /\ apc[a] = "commit" /\ Writable(Batch(a)) /\ CursorCurrent(a)
    /\ InsertDeadLetters(a)
    /\ log' = Append(log, [offsets |-> Batch(a) \ Bad, cursor |-> aUpto[a], replayOf |-> 0])
    /\ ArchiveReturns(a)
    /\ UNCHANGED <<produced, sync, requests, callVars, boundVars>>

\* finalize_stream_archive_commit without a version.  The cursor advanced or
\* the process died: nothing of the batch is written.  A failed check blocked
\* the commit: its DatasetCommitBlocked is caught inside the transaction, which
\* keeps the dead letters.  The dataset transaction is aborted, or left to the
\* watchdog.
ArchiveFail(a) ==
    /\ apc[a] = "commit" /\ Writable(Batch(a))
    /\ \/ ~CursorCurrent(a) /\ UNCHANGED <<letterVars, crashes>>
       \/ /\ CursorCurrent(a) /\ crashes < MaxCrashes
          /\ crashes' = crashes + 1
          /\ InsertDeadLetters(a) \/ UNCHANGED letterVars
    /\ ArchiveReturns(a)
    /\ UNCHANGED <<log, produced, sync, requests, callVars, takeovers>>

-----------------------------------------------------------------------------
(* Requesting and claiming a replay *)

\* _is_resumable_replay
Resumable(o, k) == key[o] = k /\ replay[o] \in {"REQUESTED", "REPLAYING"}

\* Past _is_idempotent_replay and through _ensure_retryable.
Requestable(o, k) ==
    /\ status[o] = "QUARANTINED"
    /\ key[o] \notin {k, NoKey} => replay[o] = "FAILED"
    /\ ~(key[o] = k /\ replay[o] \in {"SUCCEEDED", "FAILED"})

\* _retry_in_transaction for a fresh request: a new replay run.
RequestReplay(c, o, k) ==
    /\ cpc[c] = "idle" /\ ~Resumable(o, k) /\ Requestable(o, k) /\ requests < MaxRequests
    /\ requests' = requests + 1
    /\ status' = [status EXCEPT ![o] = "REPLAY_REQUESTED"]
    /\ replay' = [replay EXCEPT ![o] = "REQUESTED"]
    /\ key'    = [key EXCEPT ![o] = k]
    /\ run'    = [run EXCEPT ![o] = requests + 1]
    /\ token'  = [token EXCEPT ![o] = NoCaller]
    /\ expired' = [expired EXCEPT ![o] = FALSE]
    /\ cpc' = [cpc EXCEPT ![c] = "claim"]
    /\ rec' = [rec EXCEPT ![c] = o]
    /\ UNCHANGED <<log, produced, sync, archiveVars, crun, meta, boundVars>>

\* _retry_in_transaction for a replay under way with the same key.
ResumeReplay(c, o, k) ==
    /\ cpc[c] = "idle" /\ status[o] # "NONE" /\ Resumable(o, k)
    /\ cpc' = [cpc EXCEPT ![c] = "claim"]
    /\ rec' = [rec EXCEPT ![c] = o]
    /\ UNCHANGED <<log, produced, letterVars, sync, requests, archiveVars, crun, meta, boundVars>>

\* Mutant: a running replay is never taken over.
ClaimableOnce(o) == status[o] = "REPLAY_REQUESTED"

\* claim_dead_letter_record_replay
Claimable(o) == status[o] = "REPLAY_REQUESTED" \/ (status[o] = "REPLAYING" /\ expired[o])

\* _claim_replay_lease on the row as it is now, or ConflictDetected.
ClaimReplay(c) ==
    /\ cpc[c] = "claim"
    /\ LET o == rec[c] IN
       \/ /\ Claimable(o)
          /\ status'  = [status EXCEPT ![o] = "REPLAYING"]
          /\ replay'  = [replay EXCEPT ![o] = "REPLAYING"]
          /\ token'   = [token EXCEPT ![o] = c]
          /\ expired' = [expired EXCEPT ![o] = FALSE]
          /\ crun' = [crun EXCEPT ![c] = run[o]]
          /\ cpc' = [cpc EXCEPT ![c] = "prepare"]
          /\ UNCHANGED <<key, run, rec, meta>>
       \/ /\ ~Claimable(o)
          /\ Returns(c)
          /\ UNCHANGED letterVars
    /\ UNCHANGED <<log, produced, sync, requests, archiveVars, boundVars>>

-----------------------------------------------------------------------------
(* Executing a replay *)

\* Mutant: of the row, only the run is compared.
HoldsRun(c) == run[rec[c]] = crun[c]

\* _dead_letter_replay_conditions and the source statuses of the transition.
Holds(c) ==
    /\ status[rec[c]] \in {"REPLAY_REQUESTED", "REPLAYING"}
    /\ run[rec[c]] = crun[c] /\ token[rec[c]] = c

\* _prepare_replay_sync: open the run of the replay or take it up again; a
\* run that has ended is a failure to prepare.
PrepareReplay(c) ==
    /\ cpc[c] = "prepare"
    /\ sync' = IF sync[crun[c]] = "none" THEN [sync EXCEPT ![crun[c]] = "open"] ELSE sync
    /\ cpc' = [cpc EXCEPT ![c] = IF sync[crun[c]] \in {"committed", "failed"} THEN "record" ELSE "write"]
    /\ UNCHANGED <<log, produced, letterVars, requests, archiveVars, rec, crun, meta, boundVars>>

\* stream_event_row and the staging file; the record may still be invalid.
WriteReplay(c) ==
    /\ cpc[c] = "write"
    /\ \E next \in {"meta", "abortRecord"} : cpc' = [cpc EXCEPT ![c] = next]
    /\ UNCHANGED <<log, produced, letterVars, sync, requests, archiveVars, rec, crun, meta, boundVars>>

\* _replay_transaction_metadata copies the latest transaction's metadata, the
\* cursor included, before _finalize_open_transaction takes the dataset lock.
ReadMetadata(c) ==
    /\ cpc[c] = "meta"
    /\ meta' = [meta EXCEPT ![c] = Cursor]
    /\ cpc' = [cpc EXCEPT ![c] = "commit"]
    /\ UNCHANGED <<log, produced, letterVars, sync, requests, archiveVars, rec, crun, boundVars>>

\* _finalize_replay goes through: version, run and record together.
CommitReplay(c) ==
    /\ cpc[c] = "commit" /\ sync[crun[c]] = "open" /\ Holds(c)
    /\ log' = Append(log, [offsets |-> {rec[c]}, cursor |-> meta[c], replayOf |-> rec[c]])
    /\ sync' = [sync EXCEPT ![crun[c]] = "committed"]
    /\ status' = [status EXCEPT ![rec[c]] = "RESOLVED"]
    /\ replay' = [replay EXCEPT ![rec[c]] = "SUCCEEDED"]
    /\ Returns(c)
    /\ UNCHANGED <<produced, key, run, token, expired, requests, archiveVars, boundVars>>

\* _finalize_replay fails: a failed check blocks the commit (a
\* ValidationFailed); a transaction that is not open is a ConflictDetected and
\* a lease that is gone an InvariantViolation, and both roll back.
FailReplay(c) ==
    /\ cpc[c] = "commit"
    /\ \/ /\ sync[crun[c]] = "open"
          /\ sync' = [sync EXCEPT ![crun[c]] = "blocked"]
          /\ cpc' = [cpc EXCEPT ![c] = "abortRecord"]
       \/ /\ sync[crun[c]] # "open" \/ ~Holds(c)
          /\ cpc' = [cpc EXCEPT ![c] = "abortRaise"]
          /\ UNCHANGED sync
    /\ UNCHANGED <<log, produced, letterVars, requests, archiveVars, rec, crun, meta, boundVars>>

\* _abort_replay_transaction: it aborts the transaction of the run whoever
\* holds the lease now, and swallows nothing but ValidationFailed: after any
\* other error, or when there is nothing left to abort, the call ends here.
AbortReplay(c) ==
    /\ cpc[c] \in {"abortRecord", "abortRaise"}
    /\ LET live == sync[crun[c]] \in {"open", "blocked"} IN
       /\ sync' = IF live THEN [sync EXCEPT ![crun[c]] = "failed"] ELSE sync
       /\ IF live /\ cpc[c] = "abortRecord"
          THEN cpc' = [cpc EXCEPT ![c] = "record"] /\ UNCHANGED <<rec, crun, meta>>
          ELSE Returns(c)
    /\ UNCHANGED <<log, produced, letterVars, requests, archiveVars, boundVars>>

\* _record_replay_failure and _record_replay_prepare_failure, or NotFound
\* when the lease is somebody else's.
RecordFailure(c) ==
    /\ cpc[c] = "record"
    /\ status' = IF Holds(c) THEN [status EXCEPT ![rec[c]] = "QUARANTINED"] ELSE status
    /\ replay' = IF Holds(c) THEN [replay EXCEPT ![rec[c]] = "FAILED"] ELSE replay
    /\ Returns(c)
    /\ UNCHANGED <<log, produced, key, run, token, expired, sync, requests, archiveVars,
                   boundVars>>

CallCrash(c) ==
    /\ cpc[c] # "idle" /\ crashes < MaxCrashes
    /\ Returns(c)
    /\ crashes' = crashes + 1
    /\ UNCHANGED <<log, produced, letterVars, sync, requests, archiveVars, takeovers>>

-----------------------------------------------------------------------------
(* Time, the operator and the watchdog *)

Working(c) == cpc[c] \notin {"idle", "claim"}

\* Fifteen minutes after the claim; a call that is still working by then is
\* a slow one, of which there are at most MaxTakeovers.
LeaseExpires(o) ==
    /\ status[o] = "REPLAYING" /\ ~expired[o]
    /\ LET slow == \E c \in Callers : Working(c) /\ token[o] = c /\ rec[c] = o IN
       /\ slow => takeovers < MaxTakeovers
       /\ takeovers' = IF slow THEN takeovers + 1 ELSE takeovers
    /\ expired' = [expired EXCEPT ![o] = TRUE]
    /\ UNCHANGED <<log, produced, status, replay, key, run, token, sync, requests,
                   archiveVars, callVars, crashes>>

\* discard_dead_letter_record
Discardable(o) == status[o] = "QUARANTINED"

DiscardDeadLetter(o) ==
    /\ Discardable(o)
    /\ status' = [status EXCEPT ![o] = "DISCARDED"]
    /\ replay' = [replay EXCEPT ![o] = "DISCARDED"]
    /\ UNCHANGED <<log, produced, key, run, token, expired, sync, requests, archiveVars,
                   callVars, boundVars>>

\* abort_stale_open_transactions reaches the transaction of a replay.
WatchdogAbort(k) ==
    /\ sync[k] = "open"
    /\ sync' = [sync EXCEPT ![k] = "failed"]
    /\ UNCHANGED <<log, produced, letterVars, requests, archiveVars, callVars, boundVars>>

-----------------------------------------------------------------------------

ArchiveStep(a) ==
    ArchiveRead(a) \/ ArchiveReject(a) \/ ArchiveCommit(a) \/ ArchiveFail(a)

ReplayStep(c) ==
    \/ ClaimReplay(c) \/ PrepareReplay(c) \/ WriteReplay(c) \/ ReadMetadata(c)
    \/ CommitReplay(c) \/ FailReplay(c) \/ AbortReplay(c) \/ RecordFailure(c)

Next ==
    \/ Produce
    \/ \E a \in Archivers : ArchiveStep(a)
    \/ \E c \in Callers : \/ \E o \in Bad, k \in Keys : RequestReplay(c, o, k) \/ ResumeReplay(c, o, k)
                          \/ ReplayStep(c) \/ CallCrash(c)
    \/ \E o \in Bad : LeaseExpires(o) \/ DiscardDeadLetter(o)
    \/ \E k \in Requests : WatchdogAbort(k)

Spec == Init /\ [][Next]_vars

\* Calls run until they return or die, leases run out, archivers are
\* scheduled, and the client that asked for a replay asks again with its key
\* until it has an answer.
FairSpec ==
    /\ Spec
    /\ \A c \in Callers : WF_vars(ReplayStep(c))
    /\ \A o \in Bad : WF_vars(LeaseExpires(o))
    /\ \A o \in Bad : SF_vars(\E c \in Callers, k \in Keys : ResumeReplay(c, o, k))
    /\ WF_vars(Produce)
    /\ \A a \in Archivers : WF_vars(ArchiveStep(a))

-----------------------------------------------------------------------------
(* Properties *)

\* The variables have their types.
TypeOK ==
    /\ log \in Seq(Version) /\ produced \in 0..MaxOffset
    /\ status \in [Bad -> Statuses] /\ replay \in [Bad -> ReplayStatuses]
    /\ key \in [Bad -> Keys \cup {NoKey}] /\ run \in [Bad -> 0..MaxRequests]
    /\ token \in [Bad -> Callers \cup {NoCaller}] /\ expired \in [Bad -> BOOLEAN]
    /\ sync \in [Requests -> Syncs] /\ requests \in 0..MaxRequests
    /\ apc \in [Archivers -> {"idle", "commit"}] /\ aSeen \in [Archivers -> Nat]
    /\ aFrom \in [Archivers -> 0..MaxOffset + 1] /\ aUpto \in [Archivers -> 0..MaxOffset]
    /\ cpc \in [Callers -> CallPCs] /\ rec \in [Callers -> 0..MaxOffset]
    /\ crun \in [Callers -> 0..MaxRequests] /\ meta \in [Callers -> 0..MaxOffset]
    /\ crashes \in 0..MaxCrashes /\ takeovers \in 0..MaxTakeovers

\* A dead letter is RESOLVED exactly when a version carries its replay, so a
\* record that is open or DISCARDED has not been archived: not by a call whose
\* lease was taken over, and not by a run that was aborted under it.
ResolvedIffReplayed ==
    \A o \in Bad : status[o] = "RESOLVED" <=> \E n \in DOMAIN log : log[n].replayOf = o

\* However many keys, retries, crashes and takeovers, a record is replayed
\* into at most one version.
ReplayedOnce ==
    \A m, n \in DOMAIN log : log[m].replayOf = log[n].replayOf /\ log[m].replayOf # 0 => m = n

\* The events up to k are archived, or bad and quarantined.
Covered(k) ==
    \A o \in 1..k :
        \/ \E n \in DOMAIN log : log[n].replayOf = 0 /\ o \in log[n].offsets
        \/ o \in Bad /\ status[o] # "NONE"

\* An archiver that may still commit reads on from the present cursor
\* (ensure_stream_cursor_not_superseded).
ArchiversReadOn ==
    \A a \in Archivers :
        /\ aSeen[a] <= Len(log)
        /\ apc[a] = "commit" => aFrom[a] > 0 /\ (CursorCurrent(a) => aFrom[a] = Cursor + 1)

\* A call of a retry has its dead letter, and copies a cursor that, however
\* old, never passes a record that was lost (_replay_transaction_metadata).
CallsAreSound ==
    \A c \in Callers :
        /\ cpc[c] # "idle" => rec[c] \in Bad
        /\ cpc[c] = "commit" => Covered(meta[c])

\* The dead letters and the versions that replay them tell one story (the
\* replay's finalization closes the record inside the commit), and those who
\* are about to commit do so on a base that holds.
ReplayInv ==
    TypeOK /\ ResolvedIffReplayed /\ ReplayedOnce /\ ArchiversReadOn /\ CallsAreSound

\* The cursor never passes a record that is neither archived nor quarantined.
NothingSkipped == Covered(Cursor)

\* A replay that is running, or was when its call died, is decided.
ReplaysAreDecided ==
    \A o \in Bad : (status[o] \in {"REPLAY_REQUESTED", "REPLAYING"})
                       ~> (status[o] \in {"QUARANTINED", "RESOLVED", "DISCARDED"})

\* The batch that is next, when all of the stream is there.
Remaining == {o \in Offsets : Cursor < o /\ o <= Cursor + Limit}

\* The source's policy on bad records lets the batch through.
Acceptable(batch) ==
    /\ \A o \in batch : o \notin Fatal
    /\ Cardinality(batch \cap Bad) * 100 <= Cardinality(batch) * MaxErrorPercent

\* Bad records, replays that commit to the same dataset and archivers that
\* overtake each other stop the archiving of a stream only where the source's
\* policy says so, or where the next batch has no valid record.
StallsOnlyOnBadBatches ==
    <>[](\/ Cursor = MaxOffset
         \/ ~Acceptable(Remaining)
         \/ Remaining \subseteq Bad)

\* "keep valid records flowing into the dataset commit": every valid record is
\* archived, whatever is quarantined before it.
ValidRecordsFlow ==
    <>[](\A o \in Offsets \ Bad : \E n \in DOMAIN log : o \in log[n].offsets)

\* "resumes from the durable offset instead of creating a second dataset
\* version": a valid event is in one version.
ArchivedOnce ==
    \A m, n \in DOMAIN log : log[m].offsets \cap log[n].offsets # {} => m = n
=============================================================================
