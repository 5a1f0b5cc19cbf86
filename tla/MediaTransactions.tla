-------------------------- MODULE MediaTransactions --------------------------
(***************************************************************************)
(* One logical path of a media set.  Uploads stage versions of it under    *)
(* media transactions, commits make the versions visible and move the head *)
(* of the path, and two sweepers delete what is no longer wanted: the      *)
(* blobs of orphaned staged versions, and the versions marked for          *)
(* retention that are neither bound to an object nor under legal hold.     *)
(*                                                                         *)
(* A call is split where other calls can run between its statements: the   *)
(* database gives READ COMMITTED, a statement sees what was committed when *)
(* it started, and an UPDATE waits for the rows another call has changed.  *)
(* Every caller of the uploads opens a session of its own, so a session    *)
(* stands for its blob key and for the version it stages.                  *)
(***************************************************************************)
EXTENDS Naturals

CONSTANTS
    Txs,        \* media transactions
    Sessions,   \* upload sessions
    Committers, \* calls of commit
    None,       \* no version, no transaction
    MaxRequests \* bound: retention marks, changes of a legal hold, and binds

ASSUME MediaConstants ==
    /\ None \notin Sessions \cup Txs \cup Committers \cup {"next", "purge"}
    /\ "next" \notin Sessions /\ "purge" \notin Committers
    /\ MaxRequests \in Nat

VARIABLES
    txStatus,            \* media_transactions.status
    status, tx, number,  \* the version rows: status, transaction, version number
    marked, held,        \* versions with retention_marked_at, with legal_hold
    head,                \* media_items.head_version_id
    bound,               \* the version a reference binding pins
    blob,                \* keys with bytes in the media storage
    lock,                \* the call that holds the lock of the item's row
    upc,                 \* where each upload stands
    cpc, ctx, rows, pick, seen,  \* a commit: place, transaction, rows flipped, version listed, head read
    orphans,             \* versions a running sweep_orphans has listed
    ppc, todo, gone,     \* a purge: place, candidates left, rows it has deleted
    binding,             \* the version a running bind has read
    requests             \* marks, hold changes and binds so far

rowVars    == <<status, tx, number>>
commitVars == <<cpc, ctx, rows, pick, seen>>
purgeVars  == <<ppc, todo, gone>>
retentionVars == <<marked, held, bound, binding, requests>>
vars == <<txStatus, rowVars, marked, held, head, bound, blob, lock, upc,
          commitVars, orphans, purgeVars, binding, requests>>

-----------------------------------------------------------------------------

Init ==
    /\ txStatus = [t \in Txs |-> "NONE"]
    /\ status = [s \in Sessions |-> "NONE"] /\ tx = [s \in Sessions |-> None]
    /\ number = [s \in Sessions |-> 0]
    /\ marked = {} /\ held = {} /\ head = None /\ bound = None /\ blob = {} /\ lock = None
    /\ upc = [s \in Sessions |-> "idle"]
    /\ cpc = [c \in Committers |-> "idle"] /\ ctx = [c \in Committers |-> None]
    /\ rows = [c \in Committers |-> {}] /\ pick = [c \in Committers |-> None]
    /\ seen = [c \in Committers |-> None]
    /\ orphans = {} /\ ppc = None /\ todo = {} /\ gone = {} /\ binding = None
    /\ requests = 0

Stored == {s \in Sessions : status[s] \in {"STAGED", "COMMITTED"}}
Of(t)  == {s \in Stored : tx[s] = t}
Updated(c) == cpc[c] \in {"list", "head", "cas", "finish"}
Locked(s) == s \in gone \/ \E c \in Committers : cpc[c] # "flip" /\ s \in rows[c]

-----------------------------------------------------------------------------
(* Transactions and uploads *)

\* open: the insert is ignored when the idempotency key has a transaction.
Open(t) ==
    /\ txStatus[t] = "NONE"
    /\ txStatus' = [txStatus EXCEPT ![t] = "OPEN"]
    /\ UNCHANGED <<rowVars, head, blob, lock, upc, commitVars, orphans, purgeVars, retentionVars>>

\* abort: its compare-and-set allows OPEN, and an aborted transaction stays so.
Abort(t) ==
    /\ txStatus[t] = "OPEN"
    /\ txStatus' = [txStatus EXCEPT ![t] = "ABORTED"]
    /\ UNCHANGED <<rowVars, head, blob, lock, upc, commitVars, orphans, purgeVars, retentionVars>>

\* complete up to the staged blob: _require_open_transaction, write_staged,
\* complete_staged_upload.
UploadBytes(s, t) ==
    /\ upc[s] = "idle" /\ txStatus[t] = "OPEN"
    /\ upc'  = [upc EXCEPT ![s] = "recheck"]
    /\ tx'   = [tx EXCEPT ![s] = t]
    /\ blob' = blob \cup {s}
    /\ UNCHANGED <<txStatus, status, number, head, lock, commitVars, orphans, purgeVars, retentionVars>>

\* _reject_if_transaction_not_open: a plain read inside the write transaction.
UploadRecheck(s) ==
    /\ upc[s] = "recheck" /\ txStatus[tx[s]] = "OPEN"
    /\ upc' = [upc EXCEPT ![s] = "insert"]
    /\ UNCHANGED <<txStatus, rowVars, head, blob, lock, commitVars, orphans, purgeVars, retentionVars>>

\* next_version_number: the one above all numbers of stored versions.
NextVersionNumber ==
    {n \in {1} \cup {number[v] + 1 : v \in Stored} : \A v \in Stored : number[v] < n}

\* _persist_staged_version from the lock of the item on: number, row, commit.
\* The security envelope may hold the version from the start.
UploadInsert(s) ==
    /\ upc[s] = "insert" /\ lock = None
    /\ upc'    = [upc EXCEPT ![s] = "done"]
    /\ status' = [status EXCEPT ![s] = "STAGED"]
    /\ \E n \in NextVersionNumber : number' = [number EXCEPT ![s] = n]
    /\ \/ UNCHANGED <<held, requests>>
       \/ /\ requests < MaxRequests /\ requests' = requests + 1
          /\ held' = held \cup {s}
    /\ UNCHANGED <<txStatus, tx, marked, head, bound, blob, lock, commitVars, orphans, purgeVars, binding>>

\* The call raises, for the transaction is not open any more or its work
\* fails: delete_uncommitted takes the bytes back.
UploadFail(s) ==
    /\ upc[s] \in {"recheck", "insert"}
    /\ upc'  = [upc EXCEPT ![s] = "done"]
    /\ blob' = blob \ {s}
    /\ tx'   = [tx EXCEPT ![s] = None]
    /\ UNCHANGED <<txStatus, status, number, head, lock, commitVars, orphans, purgeVars, retentionVars>>

\* The process dies: the bytes stay.
UploadCrash(s) ==
    /\ upc[s] \in {"recheck", "insert"}
    /\ upc' = [upc EXCEPT ![s] = "done"]
    /\ tx'  = [tx EXCEPT ![s] = None]
    /\ UNCHANGED <<txStatus, status, number, head, blob, lock, commitVars, orphans, purgeVars,
                   retentionVars>>

-----------------------------------------------------------------------------
(* Commit *)

CommitReturns(c) ==
    /\ cpc'  = [cpc EXCEPT ![c] = "done"]  /\ ctx'  = [ctx EXCEPT ![c] = None]
    /\ rows' = [rows EXCEPT ![c] = {}]     /\ pick' = [pick EXCEPT ![c] = None]
    /\ seen' = [seen EXCEPT ![c] = None]
    /\ lock' = IF lock = c THEN None ELSE lock

\* _require_transaction: a replay of a COMMITTED transaction only reads, an
\* ABORTED one is refused.
CommitStart(c, t) ==
    /\ cpc[c] = "idle" /\ txStatus[t] = "OPEN"
    /\ cpc' = [cpc EXCEPT ![c] = "staged"]
    /\ ctx' = [ctx EXCEPT ![c] = t]
    /\ UNCHANGED <<txStatus, rowVars, head, blob, lock, upc, rows, pick, seen, orphans, purgeVars,
                   retentionVars>>

\* commit_staged_versions starts its UPDATE and sees the staged rows.
CommitSees(c) ==
    /\ cpc[c] = "staged"
    /\ cpc'  = [cpc EXCEPT ![c] = "flip"]
    /\ rows' = [rows EXCEPT ![c] = {s \in Of(ctx[c]) : status[s] = "STAGED"}]
    /\ UNCHANGED <<txStatus, rowVars, head, blob, lock, upc, ctx, pick, seen, orphans, purgeVars,
                   retentionVars>>

\* The UPDATE has waited for the rows it saw and changes those still STAGED.
CommitFlip(c) ==
    /\ cpc[c] = "flip" /\ \A s \in rows[c] : ~Locked(s)
    /\ cpc'  = [cpc EXCEPT ![c] = "list"]
    /\ rows' = [rows EXCEPT ![c] = {s \in @ : status[s] = "STAGED"}]
    /\ UNCHANGED <<txStatus, rowVars, head, blob, lock, upc, ctx, pick, seen, orphans, purgeVars,
                   retentionVars>>

\* Its SELECT lists every version of the transaction; _latest_version_by_item.
CommitList(c) ==
    /\ cpc[c] = "list"
    /\ IF Of(ctx[c]) = {}
          THEN cpc' = [cpc EXCEPT ![c] = "finish"] /\ pick' = pick
          ELSE /\ cpc' = [cpc EXCEPT ![c] = "head"]
               /\ \E s \in Of(ctx[c]) :
                     /\ \A v \in Of(ctx[c]) : number[v] <= number[s]
                     /\ pick' = [pick EXCEPT ![c] = s]
    /\ UNCHANGED <<txStatus, rowVars, head, blob, lock, upc, ctx, rows, seen, orphans, purgeVars,
                   retentionVars>>

\* _advance_heads reads the head ...
CommitReadHead(c) ==
    /\ cpc[c] = "head"
    /\ cpc'  = [cpc EXCEPT ![c] = "cas"]
    /\ seen' = [seen EXCEPT ![c] = head]
    /\ UNCHANGED <<txStatus, rowVars, head, blob, lock, upc, ctx, rows, pick, orphans, purgeVars,
                   retentionVars>>

\* ... and cas_item_head_version moves it: from here on the call holds the
\* lock of the item, or it lost and leaves the head as it is.
CommitCas(c) ==
    /\ cpc[c] = "cas" /\ lock = None
    /\ cpc'  = [cpc EXCEPT ![c] = "finish"]
    /\ lock' = IF head = seen[c] THEN c ELSE None
    /\ UNCHANGED <<txStatus, rowVars, head, blob, upc, ctx, rows, pick, seen, orphans, purgeVars,
                   retentionVars>>

\* Mutant: the outcome of the transaction's compare-and-set is not read back.
FinishesAnyway(c) == TRUE

\* commit_transaction answers with the row: COMMITTED by this call or another.
Finishes(c) == txStatus[ctx[c]] \in {"OPEN", "COMMITTED"}

\* The rest of _commit_open_transaction, the events and the commit.
CommitFinish(c) ==
    /\ cpc[c] = "finish" /\ Finishes(c)
    /\ txStatus' = [txStatus EXCEPT ![ctx[c]] = IF @ = "OPEN" THEN "COMMITTED" ELSE @]
    /\ status' = [s \in Sessions |-> IF s \in rows[c] THEN "COMMITTED" ELSE status[s]]
    /\ head' = IF lock = c THEN pick[c] ELSE head
    /\ CommitReturns(c)
    /\ UNCHANGED <<tx, number, blob, upc, orphans, purgeVars, retentionVars>>

\* ConflictDetected, a failed statement or a crash: everything is rolled back.
CommitFail(c) ==
    /\ cpc[c] \notin {"idle", "done"}
    /\ CommitReturns(c)
    /\ UNCHANGED <<txStatus, rowVars, head, blob, upc, orphans, purgeVars, retentionVars>>

-----------------------------------------------------------------------------
(* The sweep of orphaned staging *)

\* Mutant: a staged version counts as an orphan whatever its transaction.
AllStaged == {s \in Stored : status[s] = "STAGED"}

\* fetch_unreachable_staged_versions
Unreachable == {s \in Stored : status[s] = "STAGED" /\ txStatus[tx[s]] # "OPEN"}

\* sweep_orphans lists those created before the cutoff ...
SweepList(old) ==
    /\ orphans = {} /\ old # {} /\ old \subseteq Unreachable
    /\ orphans' = old
    /\ UNCHANGED <<txStatus, rowVars, head, blob, lock, upc, commitVars, purgeVars, retentionVars>>

\* ... and deletes their blobs one by one.
SweepDelete(s) ==
    /\ s \in orphans
    /\ orphans' = orphans \ {s}
    /\ blob' = blob \ {s}
    /\ UNCHANGED <<txStatus, rowVars, head, lock, upc, commitVars, purgeVars, retentionVars>>

\* A delete raises and the rest is left for the next sweep.
SweepFail ==
    /\ orphans # {}
    /\ orphans' = {}
    /\ UNCHANGED <<txStatus, rowVars, head, blob, lock, upc, commitVars, purgeVars, retentionVars>>

-----------------------------------------------------------------------------
(* Retention *)

\* mark_media_versions_for_retention
Mark(s) ==
    /\ s \in Stored \ marked /\ ~Locked(s) /\ requests < MaxRequests
    /\ requests' = requests + 1
    /\ marked' = marked \cup {s}
    /\ UNCHANGED <<txStatus, rowVars, held, head, bound, blob, lock, upc, commitVars, orphans,
                   purgeVars, binding>>

\* place_legal_hold and release_legal_hold
SetLegalHold(s) ==
    /\ s \in Stored /\ ~Locked(s) /\ requests < MaxRequests
    /\ requests' = requests + 1
    /\ held' = IF s \in held THEN held \ {s} ELSE held \cup {s}
    /\ UNCHANGED <<txStatus, rowVars, marked, head, bound, blob, lock, upc, commitVars, orphans,
                   purgeVars, binding>>

\* bind reads a COMMITTED version ...
BindRead(s) ==
    /\ binding = None /\ s \in Stored /\ status[s] = "COMMITTED" /\ requests < MaxRequests
    /\ requests' = requests + 1
    /\ binding' = s
    /\ UNCHANGED <<txStatus, rowVars, marked, held, head, bound, blob, lock, upc, commitVars,
                   orphans, purgeVars>>

\* ... and writes the holder's binding.
BindWrite ==
    /\ binding # None
    /\ bound' = binding /\ binding' = None
    /\ UNCHANGED <<txStatus, rowVars, marked, held, head, blob, lock, upc, commitVars, orphans,
                   purgeVars, requests>>

\* purge_marked_media_versions fetches the marked versions past their grace,
\* with their legal holds: the held ones are skipped.
PurgeList(old) ==
    /\ ppc = None /\ old # {} /\ old \subseteq (marked \cap Stored) \ held
    /\ ppc' = "next" /\ todo' = old
    /\ UNCHANGED <<txStatus, rowVars, head, blob, lock, upc, commitVars, orphans, gone, retentionVars>>

\* _is_reachable: a bound version is skipped.
PurgeSkip(s) ==
    /\ ppc = "next" /\ s \in todo /\ bound = s
    /\ todo' = todo \ {s}
    /\ UNCHANGED <<txStatus, rowVars, head, blob, lock, upc, commitVars, orphans, ppc, gone, retentionVars>>

\* purge_version clears the head at this version, which locks the item ...
PurgeHead(s) ==
    /\ ppc = "next" /\ s \in todo /\ bound # s
    /\ head = s => lock \in {None, "purge"}
    /\ ppc'  = s
    /\ lock' = IF head = s THEN "purge" ELSE lock
    /\ UNCHANGED <<txStatus, rowVars, head, blob, upc, commitVars, orphans, todo, gone, retentionVars>>

\* ... and deletes the row; _purge_one then deletes the blob.
PurgeRow ==
    /\ ppc \in Sessions /\ ~Locked(ppc)
    /\ ppc'  = "next"
    /\ todo' = todo \ {ppc} /\ gone' = gone \cup {ppc}
    /\ blob' = blob \ {ppc}
    /\ UNCHANGED <<txStatus, rowVars, head, lock, upc, commitVars, orphans, retentionVars>>

PurgeReturns ==
    /\ ppc' = None /\ todo' = {} /\ gone' = {}
    /\ lock' = IF lock = "purge" THEN None ELSE lock

PurgeCommit ==
    /\ ppc = "next" /\ todo = {}
    /\ status' = [s \in Sessions |-> IF s \in gone THEN "PURGED" ELSE status[s]]
    /\ number' = [s \in Sessions |-> IF s \in gone THEN 0 ELSE number[s]]
    /\ marked' = marked \ gone /\ held' = held \ gone
    /\ head' = IF lock = "purge" THEN None ELSE head
    /\ PurgeReturns
    /\ UNCHANGED <<txStatus, tx, bound, blob, upc, commitVars, orphans, binding, requests>>

\* A statement or a delete raises, or the process dies: the rows come back.
PurgeFail ==
    /\ ppc # None
    /\ PurgeReturns
    /\ UNCHANGED <<txStatus, rowVars, head, blob, upc, commitVars, orphans, retentionVars>>

-----------------------------------------------------------------------------

Upload(s) == UploadRecheck(s) \/ UploadInsert(s) \/ UploadFail(s) \/ UploadCrash(s)
Commit(c) == CommitSees(c) \/ CommitFlip(c) \/ CommitList(c) \/ CommitReadHead(c) \/ CommitCas(c)
             \/ CommitFinish(c) \/ CommitFail(c)
Purge(s)  == PurgeSkip(s) \/ PurgeHead(s)

Next ==
    \/ \E t \in Txs : Open(t) \/ Abort(t) \/ \E s \in Sessions : UploadBytes(s, t)
    \/ \E s \in Sessions : Upload(s) \/ Mark(s) \/ SetLegalHold(s) \/ BindRead(s) \/ Purge(s) \/ SweepDelete(s)
    \/ \E c \in Committers : Commit(c) \/ \E t \in Txs : CommitStart(c, t)
    \/ \E old \in SUBSET Sessions : SweepList(old) \/ PurgeList(old)
    \/ SweepFail \/ BindWrite \/ PurgeRow \/ PurgeCommit \/ PurgeFail

Spec == Init /\ [][Next]_vars

-----------------------------------------------------------------------------
(* Properties *)

\* The variables have their types.
TypeOK ==
    /\ txStatus \in [Txs -> {"NONE", "OPEN", "COMMITTED", "ABORTED"}]
    /\ status \in [Sessions -> {"NONE", "STAGED", "COMMITTED", "PURGED"}]
    /\ tx \in [Sessions -> Txs \cup {None}] /\ number \in [Sessions -> Nat]
    /\ marked \subseteq Sessions /\ held \subseteq Sessions /\ blob \subseteq Sessions
    /\ head \in Sessions \cup {None} /\ bound \in Sessions \cup {None}
    /\ lock \in Committers \cup {"purge", None}
    /\ upc \in [Sessions -> {"idle", "recheck", "insert", "done"}]
    /\ cpc \in [Committers -> {"idle", "staged", "flip", "list", "head", "cas", "finish", "done"}]
    /\ ctx \in [Committers -> Txs \cup {None}] /\ rows \in [Committers -> SUBSET Sessions]
    /\ pick \in [Committers -> Sessions \cup {None}] /\ seen \in [Committers -> Sessions \cup {None}]
    /\ orphans \subseteq Sessions /\ todo \subseteq Sessions /\ gone \subseteq Sessions
    /\ ppc \in Sessions \cup {None, "next"} /\ binding \in Sessions \cup {None}
    /\ requests \in 0..MaxRequests

\* What a reader can see, a COMMITTED version or the head of the path, was
\* published by a committed transaction, however aborts and commits raced.
VisibleIsCommitted ==
    /\ \A s \in Stored : status[s] = "COMMITTED" => txStatus[tx[s]] = "COMMITTED"
    /\ head # None => txStatus[tx[head]] = "COMMITTED"

\* uq_media_item_version_number never refuses an upload.
NumbersDiffer == \A s, v \in Stored : number[s] = number[v] => s = v

\* A version is staged at the end of its upload, under a transaction that was
\* opened; until then its bytes are there (_persist_staged_version).
UploadsAreWhole ==
    \A s \in Sessions :
      /\ status[s] # "NONE" => upc[s] = "done" /\ tx[s] \in Txs
      /\ upc[s] \in {"recheck", "insert"} => status[s] = "NONE" /\ tx[s] \in Txs /\ s \in blob
      /\ tx[s] \in Txs => txStatus[tx[s]] # "NONE"

\* What a commit holds on to are versions of its transaction.  The rows it has
\* updated stay STAGED for all others and are nobody else's, and whoever has
\* the lock of the item is about to move the head (commit_staged_versions,
\* cas_item_head_version).
CommitsAreLocked ==
    /\ \A c \in Committers :
         /\ cpc[c] \notin {"idle", "done"} => ctx[c] \in Txs
         /\ cpc[c] = "idle" => rows[c] = {} /\ pick[c] = None
         /\ \A s \in rows[c] : status[s] # "NONE" /\ tx[s] = ctx[c]
         /\ pick[c] # None => status[pick[c]] # "NONE" /\ tx[pick[c]] = ctx[c]
         /\ cpc[c] \in {"head", "cas"} => pick[c] # None
         /\ lock = c => cpc[c] = "finish" /\ pick[c] # None
         /\ Updated(c) => \A s \in rows[c] : status[s] = "STAGED" /\ s \notin gone
    /\ \A c, d \in Committers :
         Updated(c) /\ Updated(d) /\ rows[c] \cap rows[d] # {} => c = d
    /\ head # None => status[head] # "NONE"

\* The sweepers hold on to versions that they may delete: orphans of a
\* transaction that is no longer open, and marked versions.
SweepsAreSafe ==
    /\ \A s \in orphans : status[s] # "NONE" /\ txStatus[tx[s]] # "OPEN"
    /\ \A s \in marked : status[s] # "NONE"
    /\ todo \subseteq marked /\ gone \subseteq marked /\ (ppc \in Sessions => ppc \in marked)

\* The metadata stays consistent over racing uploads, commits, aborts and
\* purges: what is visible was committed, and versions are told apart by number.
MediaInv ==
    /\ TypeOK /\ VisibleIsCommitted /\ NumbersDiffer
    /\ UploadsAreWhole /\ CommitsAreLocked /\ SweepsAreSafe

\* While a transaction is open, neither sweeper takes the bytes of a version
\* staged in it, marked ones apart: the call that commits it publishes no version
\* without bytes, whatever uploads, failed commits and sweeps run beside it
\* (fetch_unreachable_staged_versions, delete_uncommitted).  PublishedHasBytes is
\* what a second call may break, which read the transaction while it was open.
BytesUntilDecided ==
    \A s \in Stored \ marked : txStatus[tx[s]] = "OPEN" => s \in blob

\* uploads.py on its second check: it "cannot leave a STAGED version under an
\* already-COMMITTED transaction (TOCTOU)".
NoStagedLeftBehind == \A s \in Stored : status[s] = "STAGED" => txStatus[tx[s]] # "COMMITTED"

\* retention.py: "retention_never_purges_reachable_or_legal_hold_version".
RetentionProtects ==
    [][\A s \in Sessions : status[s] # "PURGED" /\ status'[s] = "PURGED" => s \notin held /\ s # bound]_vars

\* retention.py: a failure "propagates as a rollback, so nothing is purged on
\* doubt": a visible version keeps its bytes.
VisibleHasBytes == \A s \in Stored \ gone : status[s] = "COMMITTED" => s \in blob

\* media_repository.py on the sweep: it takes staged versions whose transaction is
\* "aborted/never committed"; so a version is published with its bytes.
PublishedHasBytes ==
    [][\A s \in Stored : status[s] = "STAGED" /\ status'[s] = "COMMITTED" => s \in blob']_vars

\* media_repository.py on the purge: "clear any head pointer at this version, or
\* deleting the row would leave media_items.head_version_id dangling".
HeadIsStored == head # None => status[head] # "PURGED"
=============================================================================
