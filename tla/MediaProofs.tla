----------------------------- MODULE MediaProofs -----------------------------
(***************************************************************************)
(* Theorems about MediaTransactions: for any number of upload sessions,    *)
(* transactions and calls of commit, what a reader sees was committed, the *)
(* numbers of versions differ, and bytes stay until their transaction is   *)
(* decided.                                                                *)
(***************************************************************************)
EXTENDS MediaTransactions, TLAPS

\* A path without versions.
LEMMA InitHolds == Init => MediaInv /\ BytesUntilDecided
<1> SUFFICES ASSUME Init PROVE MediaInv /\ BytesUntilDecided
  OBVIOUS
<1>1. TypeOK
  BY MediaConstants DEF Init, TypeOK
<1>2. Stored = {}
  BY DEF Init, Stored
<1> QED
  BY <1>1, <1>2, MediaConstants
  DEF Init, MediaInv, VisibleIsCommitted, NumbersDiffer, UploadsAreWhole, CommitsAreLocked, Updated,
      SweepsAreSafe, BytesUntilDecided

\* Rows, calls and sweeps stay within their types.
LEMMA TypesKept == TypeOK /\ Next => TypeOK'
<1> SUFFICES ASSUME TypeOK, Next PROVE TypeOK'
  OBVIOUS
<1> USE MediaConstants DEF TypeOK, Stored, rowVars, commitVars, purgeVars, retentionVars
<1>1. ASSUME NEW t \in Txs, Open(t) PROVE TypeOK'
  BY <1>1 DEF Open
<1>2. ASSUME NEW t \in Txs, Abort(t) PROVE TypeOK'
  BY <1>2 DEF Abort
<1>3. ASSUME NEW s \in Sessions, NEW t \in Txs, UploadBytes(s, t) PROVE TypeOK'
  BY <1>3 DEF UploadBytes
<1>4. ASSUME NEW s \in Sessions, UploadRecheck(s) PROVE TypeOK'
  BY <1>4 DEF UploadRecheck
<1>5. ASSUME NEW s \in Sessions, UploadInsert(s) PROVE TypeOK'
  BY <1>5 DEF UploadInsert, NextVersionNumber
<1>6. ASSUME NEW s \in Sessions, UploadFail(s) PROVE TypeOK'
  BY <1>6 DEF UploadFail
<1>7. ASSUME NEW s \in Sessions, UploadCrash(s) PROVE TypeOK'
  BY <1>7 DEF UploadCrash
<1>8. ASSUME NEW s \in Sessions, Mark(s) PROVE TypeOK'
  BY <1>8 DEF Mark, Locked
<1>9. ASSUME NEW s \in Sessions, SetLegalHold(s) PROVE TypeOK'
  BY <1>9 DEF SetLegalHold
<1>10. ASSUME NEW s \in Sessions, BindRead(s) PROVE TypeOK'
  BY <1>10 DEF BindRead
<1>11. ASSUME NEW s \in Sessions, PurgeSkip(s) PROVE TypeOK'
  BY <1>11 DEF PurgeSkip
<1>12. ASSUME NEW s \in Sessions, PurgeHead(s) PROVE TypeOK'
  BY <1>12 DEF PurgeHead
<1>13. ASSUME NEW s \in Sessions, SweepDelete(s) PROVE TypeOK'
  BY <1>13 DEF SweepDelete
<1>14. ASSUME NEW c \in Committers, NEW t \in Txs, CommitStart(c, t) PROVE TypeOK'
  BY <1>14 DEF CommitStart
<1>15. ASSUME NEW c \in Committers, CommitSees(c) PROVE TypeOK'
  BY <1>15 DEF CommitSees, Of
<1>16. ASSUME NEW c \in Committers, CommitFlip(c) PROVE TypeOK'
  BY <1>16 DEF CommitFlip, Locked
<1>17. ASSUME NEW c \in Committers, CommitList(c) PROVE TypeOK'
  BY <1>17 DEF CommitList, Of
<1>18. ASSUME NEW c \in Committers, CommitReadHead(c) PROVE TypeOK'
  BY <1>18 DEF CommitReadHead
<1>19. ASSUME NEW c \in Committers, CommitCas(c) PROVE TypeOK'
  BY <1>19 DEF CommitCas
<1>20. ASSUME NEW c \in Committers, CommitFinish(c) PROVE TypeOK'
  BY <1>20 DEF CommitFinish, Finishes, CommitReturns
<1>21. ASSUME NEW c \in Committers, CommitFail(c) PROVE TypeOK'
  BY <1>21 DEF CommitFail, CommitReturns
<1>22. ASSUME NEW old \in SUBSET Sessions, SweepList(old) PROVE TypeOK'
  BY <1>22 DEF SweepList, Unreachable
<1>23. ASSUME NEW old \in SUBSET Sessions, PurgeList(old) PROVE TypeOK'
  BY <1>23 DEF PurgeList
<1>24. CASE SweepFail
  BY <1>24 DEF SweepFail
<1>25. CASE BindWrite
  BY <1>25 DEF BindWrite
<1>26. CASE PurgeRow
  BY <1>26 DEF PurgeRow, Locked
<1>27. CASE PurgeCommit
  BY <1>27 DEF PurgeCommit, PurgeReturns
<1>28. CASE PurgeFail
  BY <1>28 DEF PurgeFail, PurgeReturns
<1> QED
  BY <1>1, <1>2, <1>3, <1>4, <1>5, <1>6, <1>7, <1>8, <1>9, <1>10, <1>11, <1>12, <1>13, <1>14, <1>15,
     <1>16, <1>17, <1>18, <1>19, <1>20, <1>21, <1>22, <1>23, <1>24, <1>25, <1>26, <1>27, <1>28 DEF
     Next, Upload, Commit, Purge

\* A version row is written once, at the end of an upload whose bytes are there.
LEMMA UploadsKept == MediaInv /\ Next => UploadsAreWhole'
<1> SUFFICES ASSUME MediaInv, Next PROVE UploadsAreWhole'
  OBVIOUS
<1> USE MediaConstants DEF MediaInv, TypeOK, UploadsAreWhole, CommitsAreLocked, SweepsAreSafe,
        Updated, Stored, rowVars, commitVars, purgeVars, retentionVars
<1>1. ASSUME NEW t \in Txs, Open(t) PROVE UploadsAreWhole'
  BY <1>1 DEF Open
<1>2. ASSUME NEW t \in Txs, Abort(t) PROVE UploadsAreWhole'
  BY <1>2 DEF Abort
<1>3. ASSUME NEW s \in Sessions, NEW t \in Txs, UploadBytes(s, t) PROVE UploadsAreWhole'
  BY <1>3 DEF UploadBytes
<1>4. ASSUME NEW s \in Sessions, UploadRecheck(s) PROVE UploadsAreWhole'
  BY <1>4 DEF UploadRecheck
<1>5. ASSUME NEW s \in Sessions, UploadInsert(s) PROVE UploadsAreWhole'
  BY <1>5 DEF UploadInsert, NextVersionNumber
<1>6. ASSUME NEW s \in Sessions, UploadFail(s) PROVE UploadsAreWhole'
  BY <1>6 DEF UploadFail
<1>7. ASSUME NEW s \in Sessions, UploadCrash(s) PROVE UploadsAreWhole'
  BY <1>7 DEF UploadCrash
<1>8. ASSUME NEW s \in Sessions, Mark(s) PROVE UploadsAreWhole'
  BY <1>8 DEF Mark, Locked
<1>9. ASSUME NEW s \in Sessions, SetLegalHold(s) PROVE UploadsAreWhole'
  BY <1>9 DEF SetLegalHold
<1>10. ASSUME NEW s \in Sessions, BindRead(s) PROVE UploadsAreWhole'
  BY <1>10 DEF BindRead
<1>11. ASSUME NEW s \in Sessions, PurgeSkip(s) PROVE UploadsAreWhole'
  BY <1>11 DEF PurgeSkip
<1>12. ASSUME NEW s \in Sessions, PurgeHead(s) PROVE UploadsAreWhole'
  BY <1>12 DEF PurgeHead
<1>13. ASSUME NEW s \in Sessions, SweepDelete(s) PROVE UploadsAreWhole'
  BY <1>13 DEF SweepDelete
<1>14. ASSUME NEW c \in Committers, NEW t \in Txs, CommitStart(c, t) PROVE UploadsAreWhole'
  BY <1>14 DEF CommitStart
<1>15. ASSUME NEW c \in Committers, CommitSees(c) PROVE UploadsAreWhole'
  BY <1>15 DEF CommitSees, Of
<1>16. ASSUME NEW c \in Committers, CommitFlip(c) PROVE UploadsAreWhole'
  BY <1>16 DEF CommitFlip, Locked
<1>17. ASSUME NEW c \in Committers, CommitList(c) PROVE UploadsAreWhole'
  BY <1>17 DEF CommitList, Of
<1>18. ASSUME NEW c \in Committers, CommitReadHead(c) PROVE UploadsAreWhole'
  BY <1>18 DEF CommitReadHead
<1>19. ASSUME NEW c \in Committers, CommitCas(c) PROVE UploadsAreWhole'
  BY <1>19 DEF CommitCas
<1>20. ASSUME NEW c \in Committers, CommitFinish(c) PROVE UploadsAreWhole'
  BY <1>20 DEF CommitFinish, Finishes, CommitReturns
<1>21. ASSUME NEW c \in Committers, CommitFail(c) PROVE UploadsAreWhole'
  BY <1>21 DEF CommitFail, CommitReturns
<1>22. ASSUME NEW old \in SUBSET Sessions, SweepList(old) PROVE UploadsAreWhole'
  BY <1>22 DEF SweepList, Unreachable
<1>23. ASSUME NEW old \in SUBSET Sessions, PurgeList(old) PROVE UploadsAreWhole'
  BY <1>23 DEF PurgeList
<1>24. CASE SweepFail
  BY <1>24 DEF SweepFail
<1>25. CASE BindWrite
  BY <1>25 DEF BindWrite
<1>26. CASE PurgeRow
  BY <1>26 DEF PurgeRow, Locked
<1>27. CASE PurgeCommit
  <2>1. \A s \in Sessions : status'[s] # "NONE" => status[s] # "NONE" \/ s \in gone
    BY <1>27 DEF PurgeCommit
  <2> QED
    BY <1>27, <2>1 DEF PurgeCommit, PurgeReturns
<1>28. CASE PurgeFail
  BY <1>28 DEF PurgeFail, PurgeReturns
<1> QED
  BY <1>1, <1>2, <1>3, <1>4, <1>5, <1>6, <1>7, <1>8, <1>9, <1>10, <1>11, <1>12, <1>13, <1>14, <1>15,
     <1>16, <1>17, <1>18, <1>19, <1>20, <1>21, <1>22, <1>23, <1>24, <1>25, <1>26, <1>27, <1>28 DEF
     Next, Upload, Commit, Purge

\* Rows that a commit has updated are locked until it ends, and the head moves
\* under the lock of the item (commit_staged_versions, cas_item_head_version).
LEMMA CommitsKept == MediaInv /\ Next => CommitsAreLocked'
<1> SUFFICES ASSUME MediaInv, Next PROVE CommitsAreLocked'
  OBVIOUS
<1> USE MediaConstants DEF MediaInv, TypeOK, UploadsAreWhole, CommitsAreLocked, Updated, Stored,
        rowVars, commitVars, purgeVars, retentionVars
<1>1. ASSUME NEW t \in Txs, Open(t) PROVE CommitsAreLocked'
  BY <1>1 DEF Open
<1>2. ASSUME NEW t \in Txs, Abort(t) PROVE CommitsAreLocked'
  BY <1>2 DEF Abort
<1>3. ASSUME NEW s \in Sessions, NEW t \in Txs, UploadBytes(s, t) PROVE CommitsAreLocked'
  BY <1>3 DEF UploadBytes
<1>4. ASSUME NEW s \in Sessions, UploadRecheck(s) PROVE CommitsAreLocked'
  BY <1>4 DEF UploadRecheck
<1>5. ASSUME NEW s \in Sessions, UploadInsert(s) PROVE CommitsAreLocked'
  BY <1>5 DEF UploadInsert, NextVersionNumber
<1>6. ASSUME NEW s \in Sessions, UploadFail(s) PROVE CommitsAreLocked'
  BY <1>6 DEF UploadFail
<1>7. ASSUME NEW s \in Sessions, UploadCrash(s) PROVE CommitsAreLocked'
  BY <1>7 DEF UploadCrash
<1>8. ASSUME NEW s \in Sessions, Mark(s) PROVE CommitsAreLocked'
  BY <1>8 DEF Mark, Locked
<1>9. ASSUME NEW s \in Sessions, SetLegalHold(s) PROVE CommitsAreLocked'
  BY <1>9 DEF SetLegalHold
<1>10. ASSUME NEW s \in Sessions, BindRead(s) PROVE CommitsAreLocked'
  BY <1>10 DEF BindRead
<1>11. ASSUME NEW s \in Sessions, PurgeSkip(s) PROVE CommitsAreLocked'
  BY <1>11 DEF PurgeSkip
<1>12. ASSUME NEW s \in Sessions, PurgeHead(s) PROVE CommitsAreLocked'
  BY <1>12 DEF PurgeHead
<1>13. ASSUME NEW s \in Sessions, SweepDelete(s) PROVE CommitsAreLocked'
  BY <1>13 DEF SweepDelete
<1>14. ASSUME NEW c \in Committers, NEW t \in Txs, CommitStart(c, t) PROVE CommitsAreLocked'
  BY <1>14 DEF CommitStart
<1>15. ASSUME NEW c \in Committers, CommitSees(c) PROVE CommitsAreLocked'
  BY <1>15 DEF CommitSees, Of
<1>16. ASSUME NEW c \in Committers, CommitFlip(c) PROVE CommitsAreLocked'
  BY <1>16 DEF CommitFlip, Locked
<1>17. ASSUME NEW c \in Committers, CommitList(c) PROVE CommitsAreLocked'
  BY <1>17 DEF CommitList, Of
<1>18. ASSUME NEW c \in Committers, CommitReadHead(c) PROVE CommitsAreLocked'
  BY <1>18 DEF CommitReadHead
<1>19. ASSUME NEW c \in Committers, CommitCas(c) PROVE CommitsAreLocked'
  BY <1>19 DEF CommitCas
<1>20. ASSUME NEW c \in Committers, CommitFinish(c) PROVE CommitsAreLocked'
  BY <1>20 DEF CommitFinish, Finishes, CommitReturns
<1>21. ASSUME NEW c \in Committers, CommitFail(c) PROVE CommitsAreLocked'
  BY <1>21 DEF CommitFail, CommitReturns
<1>22. ASSUME NEW old \in SUBSET Sessions, SweepList(old) PROVE CommitsAreLocked'
  BY <1>22 DEF SweepList, Unreachable
<1>23. ASSUME NEW old \in SUBSET Sessions, PurgeList(old) PROVE CommitsAreLocked'
  BY <1>23 DEF PurgeList
<1>24. CASE SweepFail
  BY <1>24 DEF SweepFail
<1>25. CASE BindWrite
  BY <1>25 DEF BindWrite
<1>26. CASE PurgeRow
  BY <1>26 DEF PurgeRow, Locked
<1>27. CASE PurgeCommit
  BY <1>27 DEF PurgeCommit, PurgeReturns
<1>28. CASE PurgeFail
  BY <1>28 DEF PurgeFail, PurgeReturns
<1> QED
  BY <1>1, <1>2, <1>3, <1>4, <1>5, <1>6, <1>7, <1>8, <1>9, <1>10, <1>11, <1>12, <1>13, <1>14, <1>15,
     <1>16, <1>17, <1>18, <1>19, <1>20, <1>21, <1>22, <1>23, <1>24, <1>25, <1>26, <1>27, <1>28 DEF
     Next, Upload, Commit, Purge

\* A transaction that left OPEN never returns to it, so an orphan stays one, and
\* marks last until the purge is committed.
LEMMA SweepsKept == MediaInv /\ Next => SweepsAreSafe'
<1> SUFFICES ASSUME MediaInv, Next PROVE SweepsAreSafe'
  OBVIOUS
<1> USE MediaConstants DEF MediaInv, TypeOK, UploadsAreWhole, SweepsAreSafe, Stored, rowVars,
        commitVars, purgeVars, retentionVars
<1>1. ASSUME NEW t \in Txs, Open(t) PROVE SweepsAreSafe'
  BY <1>1 DEF Open
<1>2. ASSUME NEW t \in Txs, Abort(t) PROVE SweepsAreSafe'
  BY <1>2 DEF Abort
<1>3. ASSUME NEW s \in Sessions, NEW t \in Txs, UploadBytes(s, t) PROVE SweepsAreSafe'
  BY <1>3 DEF UploadBytes
<1>4. ASSUME NEW s \in Sessions, UploadRecheck(s) PROVE SweepsAreSafe'
  BY <1>4 DEF UploadRecheck
<1>5. ASSUME NEW s \in Sessions, UploadInsert(s) PROVE SweepsAreSafe'
  BY <1>5 DEF UploadInsert, NextVersionNumber
<1>6. ASSUME NEW s \in Sessions, UploadFail(s) PROVE SweepsAreSafe'
  BY <1>6 DEF UploadFail
<1>7. ASSUME NEW s \in Sessions, UploadCrash(s) PROVE SweepsAreSafe'
  BY <1>7 DEF UploadCrash
<1>8. ASSUME NEW s \in Sessions, Mark(s) PROVE SweepsAreSafe'
  BY <1>8 DEF Mark, Locked
<1>9. ASSUME NEW s \in Sessions, SetLegalHold(s) PROVE SweepsAreSafe'
  BY <1>9 DEF SetLegalHold
<1>10. ASSUME NEW s \in Sessions, BindRead(s) PROVE SweepsAreSafe'
  BY <1>10 DEF BindRead
<1>11. ASSUME NEW s \in Sessions, PurgeSkip(s) PROVE SweepsAreSafe'
  BY <1>11 DEF PurgeSkip
<1>12. ASSUME NEW s \in Sessions, PurgeHead(s) PROVE SweepsAreSafe'
  BY <1>12 DEF PurgeHead
<1>13. ASSUME NEW s \in Sessions, SweepDelete(s) PROVE SweepsAreSafe'
  BY <1>13 DEF SweepDelete
<1>14. ASSUME NEW c \in Committers, NEW t \in Txs, CommitStart(c, t) PROVE SweepsAreSafe'
  BY <1>14 DEF CommitStart
<1>15. ASSUME NEW c \in Committers, CommitSees(c) PROVE SweepsAreSafe'
  BY <1>15 DEF CommitSees, Of
<1>16. ASSUME NEW c \in Committers, CommitFlip(c) PROVE SweepsAreSafe'
  BY <1>16 DEF CommitFlip, Locked
<1>17. ASSUME NEW c \in Committers, CommitList(c) PROVE SweepsAreSafe'
  BY <1>17 DEF CommitList, Of
<1>18. ASSUME NEW c \in Committers, CommitReadHead(c) PROVE SweepsAreSafe'
  BY <1>18 DEF CommitReadHead
<1>19. ASSUME NEW c \in Committers, CommitCas(c) PROVE SweepsAreSafe'
  BY <1>19 DEF CommitCas
<1>20. ASSUME NEW c \in Committers, CommitFinish(c) PROVE SweepsAreSafe'
  BY <1>20 DEF CommitFinish, Finishes, CommitReturns
<1>21. ASSUME NEW c \in Committers, CommitFail(c) PROVE SweepsAreSafe'
  BY <1>21 DEF CommitFail, CommitReturns
<1>22. ASSUME NEW old \in SUBSET Sessions, SweepList(old) PROVE SweepsAreSafe'
  BY <1>22 DEF SweepList, Unreachable
<1>23. ASSUME NEW old \in SUBSET Sessions, PurgeList(old) PROVE SweepsAreSafe'
  BY <1>23 DEF PurgeList
<1>24. CASE SweepFail
  BY <1>24 DEF SweepFail
<1>25. CASE BindWrite
  BY <1>25 DEF BindWrite
<1>26. CASE PurgeRow
  BY <1>26 DEF PurgeRow, Locked
<1>27. CASE PurgeCommit
  BY <1>27 DEF PurgeCommit, PurgeReturns
<1>28. CASE PurgeFail
  BY <1>28 DEF PurgeFail, PurgeReturns
<1> QED
  BY <1>1, <1>2, <1>3, <1>4, <1>5, <1>6, <1>7, <1>8, <1>9, <1>10, <1>11, <1>12, <1>13, <1>14, <1>15,
     <1>16, <1>17, <1>18, <1>19, <1>20, <1>21, <1>22, <1>23, <1>24, <1>25, <1>26, <1>27, <1>28 DEF
     Next, Upload, Commit, Purge

\* Whoever publishes a version or moves the head commits the transaction with it
\* (_commit_open_transaction).
LEMMA VisibleKept == MediaInv /\ Next => VisibleIsCommitted'
<1> SUFFICES ASSUME MediaInv, Next PROVE VisibleIsCommitted'
  OBVIOUS
<1> USE MediaConstants DEF MediaInv, TypeOK, UploadsAreWhole, CommitsAreLocked,
        VisibleIsCommitted, Stored, rowVars, commitVars, purgeVars, retentionVars
<1>1. ASSUME NEW t \in Txs, Open(t) PROVE VisibleIsCommitted'
  BY <1>1 DEF Open
<1>2. ASSUME NEW t \in Txs, Abort(t) PROVE VisibleIsCommitted'
  BY <1>2 DEF Abort
<1>3. ASSUME NEW s \in Sessions, NEW t \in Txs, UploadBytes(s, t) PROVE VisibleIsCommitted'
  BY <1>3 DEF UploadBytes
<1>4. ASSUME NEW s \in Sessions, UploadRecheck(s) PROVE VisibleIsCommitted'
  BY <1>4 DEF UploadRecheck
<1>5. ASSUME NEW s \in Sessions, UploadInsert(s) PROVE VisibleIsCommitted'
  BY <1>5 DEF UploadInsert, NextVersionNumber
<1>6. ASSUME NEW s \in Sessions, UploadFail(s) PROVE VisibleIsCommitted'
  BY <1>6 DEF UploadFail
<1>7. ASSUME NEW s \in Sessions, UploadCrash(s) PROVE VisibleIsCommitted'
  BY <1>7 DEF UploadCrash
<1>8. ASSUME NEW s \in Sessions, Mark(s) PROVE VisibleIsCommitted'
  BY <1>8 DEF Mark, Locked
<1>9. ASSUME NEW s \in Sessions, SetLegalHold(s) PROVE VisibleIsCommitted'
  BY <1>9 DEF SetLegalHold
<1>10. ASSUME NEW s \in Sessions, BindRead(s) PROVE VisibleIsCommitted'
  BY <1>10 DEF BindRead
<1>11. ASSUME NEW s \in Sessions, PurgeSkip(s) PROVE VisibleIsCommitted'
  BY <1>11 DEF PurgeSkip
<1>12. ASSUME NEW s \in Sessions, PurgeHead(s) PROVE VisibleIsCommitted'
  BY <1>12 DEF PurgeHead
<1>13. ASSUME NEW s \in Sessions, SweepDelete(s) PROVE VisibleIsCommitted'
  BY <1>13 DEF SweepDelete
<1>14. ASSUME NEW c \in Committers, NEW t \in Txs, CommitStart(c, t) PROVE VisibleIsCommitted'
  BY <1>14 DEF CommitStart
<1>15. ASSUME NEW c \in Committers, CommitSees(c) PROVE VisibleIsCommitted'
  BY <1>15 DEF CommitSees, Of
<1>16. ASSUME NEW c \in Committers, CommitFlip(c) PROVE VisibleIsCommitted'
  BY <1>16 DEF CommitFlip, Locked
<1>17. ASSUME NEW c \in Committers, CommitList(c) PROVE VisibleIsCommitted'
  BY <1>17 DEF CommitList, Of
<1>18. ASSUME NEW c \in Committers, CommitReadHead(c) PROVE VisibleIsCommitted'
  BY <1>18 DEF CommitReadHead
<1>19. ASSUME NEW c \in Committers, CommitCas(c) PROVE VisibleIsCommitted'
  BY <1>19 DEF CommitCas
<1>20. ASSUME NEW c \in Committers, CommitFinish(c) PROVE VisibleIsCommitted'
  BY <1>20 DEF CommitFinish, Finishes, CommitReturns
<1>21. ASSUME NEW c \in Committers, CommitFail(c) PROVE VisibleIsCommitted'
  BY <1>21 DEF CommitFail, CommitReturns
<1>22. ASSUME NEW old \in SUBSET Sessions, SweepList(old) PROVE VisibleIsCommitted'
  BY <1>22 DEF SweepList, Unreachable
<1>23. ASSUME NEW old \in SUBSET Sessions, PurgeList(old) PROVE VisibleIsCommitted'
  BY <1>23 DEF PurgeList
<1>24. CASE SweepFail
  BY <1>24 DEF SweepFail
<1>25. CASE BindWrite
  BY <1>25 DEF BindWrite
<1>26. CASE PurgeRow
  BY <1>26 DEF PurgeRow, Locked
<1>27. CASE PurgeCommit
  BY <1>27 DEF PurgeCommit, PurgeReturns
<1>28. CASE PurgeFail
  BY <1>28 DEF PurgeFail, PurgeReturns
<1> QED
  BY <1>1, <1>2, <1>3, <1>4, <1>5, <1>6, <1>7, <1>8, <1>9, <1>10, <1>11, <1>12, <1>13, <1>14, <1>15,
     <1>16, <1>17, <1>18, <1>19, <1>20, <1>21, <1>22, <1>23, <1>24, <1>25, <1>26, <1>27, <1>28 DEF
     Next, Upload, Commit, Purge

\* A new version takes a number above all stored ones under the lock of the item
\* (next_version_number).
LEMMA NumbersKept == MediaInv /\ Next => NumbersDiffer'
<1> SUFFICES ASSUME MediaInv, Next PROVE NumbersDiffer'
  OBVIOUS
<1> USE MediaConstants DEF MediaInv, TypeOK, UploadsAreWhole, CommitsAreLocked, Updated,
        NumbersDiffer, Stored, rowVars, commitVars, purgeVars, retentionVars
<1>1. ASSUME NEW t \in Txs, Open(t) PROVE NumbersDiffer'
  BY <1>1 DEF Open
<1>2. ASSUME NEW t \in Txs, Abort(t) PROVE NumbersDiffer'
  BY <1>2 DEF Abort
<1>3. ASSUME NEW s \in Sessions, NEW t \in Txs, UploadBytes(s, t) PROVE NumbersDiffer'
  BY <1>3 DEF UploadBytes
<1>4. ASSUME NEW s \in Sessions, UploadRecheck(s) PROVE NumbersDiffer'
  BY <1>4 DEF UploadRecheck
<1>5. ASSUME NEW s \in Sessions, UploadInsert(s) PROVE NumbersDiffer'
  BY <1>5 DEF UploadInsert, NextVersionNumber
<1>6. ASSUME NEW s \in Sessions, UploadFail(s) PROVE NumbersDiffer'
  BY <1>6 DEF UploadFail
<1>7. ASSUME NEW s \in Sessions, UploadCrash(s) PROVE NumbersDiffer'
  BY <1>7 DEF UploadCrash
<1>8. ASSUME NEW s \in Sessions, Mark(s) PROVE NumbersDiffer'
  BY <1>8 DEF Mark, Locked
<1>9. ASSUME NEW s \in Sessions, SetLegalHold(s) PROVE NumbersDiffer'
  BY <1>9 DEF SetLegalHold
<1>10. ASSUME NEW s \in Sessions, BindRead(s) PROVE NumbersDiffer'
  BY <1>10 DEF BindRead
<1>11. ASSUME NEW s \in Sessions, PurgeSkip(s) PROVE NumbersDiffer'
  BY <1>11 DEF PurgeSkip
<1>12. ASSUME NEW s \in Sessions, PurgeHead(s) PROVE NumbersDiffer'
  BY <1>12 DEF PurgeHead
<1>13. ASSUME NEW s \in Sessions, SweepDelete(s) PROVE NumbersDiffer'
  BY <1>13 DEF SweepDelete
<1>14. ASSUME NEW c \in Committers, NEW t \in Txs, CommitStart(c, t) PROVE NumbersDiffer'
  BY <1>14 DEF CommitStart
<1>15. ASSUME NEW c \in Committers, CommitSees(c) PROVE NumbersDiffer'
  BY <1>15 DEF CommitSees, Of
<1>16. ASSUME NEW c \in Committers, CommitFlip(c) PROVE NumbersDiffer'
  BY <1>16 DEF CommitFlip, Locked
<1>17. ASSUME NEW c \in Committers, CommitList(c) PROVE NumbersDiffer'
  BY <1>17 DEF CommitList, Of
<1>18. ASSUME NEW c \in Committers, CommitReadHead(c) PROVE NumbersDiffer'
  BY <1>18 DEF CommitReadHead
<1>19. ASSUME NEW c \in Committers, CommitCas(c) PROVE NumbersDiffer'
  BY <1>19 DEF CommitCas
<1>20. ASSUME NEW c \in Committers, CommitFinish(c) PROVE NumbersDiffer'
  BY <1>20 DEF CommitFinish, Finishes, CommitReturns
<1>21. ASSUME NEW c \in Committers, CommitFail(c) PROVE NumbersDiffer'
  BY <1>21 DEF CommitFail, CommitReturns
<1>22. ASSUME NEW old \in SUBSET Sessions, SweepList(old) PROVE NumbersDiffer'
  BY <1>22 DEF SweepList, Unreachable
<1>23. ASSUME NEW old \in SUBSET Sessions, PurgeList(old) PROVE NumbersDiffer'
  BY <1>23 DEF PurgeList
<1>24. CASE SweepFail
  BY <1>24 DEF SweepFail
<1>25. CASE BindWrite
  BY <1>25 DEF BindWrite
<1>26. CASE PurgeRow
  BY <1>26 DEF PurgeRow, Locked
<1>27. CASE PurgeCommit
  BY <1>27 DEF PurgeCommit, PurgeReturns
<1>28. CASE PurgeFail
  BY <1>28 DEF PurgeFail, PurgeReturns
<1> QED
  BY <1>1, <1>2, <1>3, <1>4, <1>5, <1>6, <1>7, <1>8, <1>9, <1>10, <1>11, <1>12, <1>13, <1>14, <1>15,
     <1>16, <1>17, <1>18, <1>19, <1>20, <1>21, <1>22, <1>23, <1>24, <1>25, <1>26, <1>27, <1>28 DEF
     Next, Upload, Commit, Purge

\* Bytes go with a failed upload, an orphan of a decided transaction or a marked
\* version, never otherwise.
LEMMA BytesKept == MediaInv /\ BytesUntilDecided /\ Next => BytesUntilDecided'
<1> SUFFICES ASSUME MediaInv /\ BytesUntilDecided, Next PROVE BytesUntilDecided'
  OBVIOUS
<1> USE MediaConstants DEF MediaInv, TypeOK, UploadsAreWhole, CommitsAreLocked, SweepsAreSafe,
        Updated, BytesUntilDecided, Stored, rowVars, commitVars, purgeVars, retentionVars
<1>1. ASSUME NEW t \in Txs, Open(t) PROVE BytesUntilDecided'
  BY <1>1 DEF Open
<1>2. ASSUME NEW t \in Txs, Abort(t) PROVE BytesUntilDecided'
  BY <1>2 DEF Abort
<1>3. ASSUME NEW s \in Sessions, NEW t \in Txs, UploadBytes(s, t) PROVE BytesUntilDecided'
  BY <1>3 DEF UploadBytes
<1>4. ASSUME NEW s \in Sessions, UploadRecheck(s) PROVE BytesUntilDecided'
  BY <1>4 DEF UploadRecheck
<1>5. ASSUME NEW s \in Sessions, UploadInsert(s) PROVE BytesUntilDecided'
  BY <1>5 DEF UploadInsert, NextVersionNumber
<1>6. ASSUME NEW s \in Sessions, UploadFail(s) PROVE BytesUntilDecided'
  BY <1>6 DEF UploadFail
<1>7. ASSUME NEW s \in Sessions, UploadCrash(s) PROVE BytesUntilDecided'
  BY <1>7 DEF UploadCrash
<1>8. ASSUME NEW s \in Sessions, Mark(s) PROVE BytesUntilDecided'
  BY <1>8 DEF Mark, Locked
<1>9. ASSUME NEW s \in Sessions, SetLegalHold(s) PROVE BytesUntilDecided'
  BY <1>9 DEF SetLegalHold
<1>10. ASSUME NEW s \in Sessions, BindRead(s) PROVE BytesUntilDecided'
  BY <1>10 DEF BindRead
<1>11. ASSUME NEW s \in Sessions, PurgeSkip(s) PROVE BytesUntilDecided'
  BY <1>11 DEF PurgeSkip
<1>12. ASSUME NEW s \in Sessions, PurgeHead(s) PROVE BytesUntilDecided'
  BY <1>12 DEF PurgeHead
<1>13. ASSUME NEW s \in Sessions, SweepDelete(s) PROVE BytesUntilDecided'
  BY <1>13 DEF SweepDelete
<1>14. ASSUME NEW c \in Committers, NEW t \in Txs, CommitStart(c, t) PROVE BytesUntilDecided'
  BY <1>14 DEF CommitStart
<1>15. ASSUME NEW c \in Committers, CommitSees(c) PROVE BytesUntilDecided'
  BY <1>15 DEF CommitSees, Of
<1>16. ASSUME NEW c \in Committers, CommitFlip(c) PROVE BytesUntilDecided'
  BY <1>16 DEF CommitFlip, Locked
<1>17. ASSUME NEW c \in Committers, CommitList(c) PROVE BytesUntilDecided'
  BY <1>17 DEF CommitList, Of
<1>18. ASSUME NEW c \in Committers, CommitReadHead(c) PROVE BytesUntilDecided'
  BY <1>18 DEF CommitReadHead
<1>19. ASSUME NEW c \in Committers, CommitCas(c) PROVE BytesUntilDecided'
  BY <1>19 DEF CommitCas
<1>20. ASSUME NEW c \in Committers, CommitFinish(c) PROVE BytesUntilDecided'
  BY <1>20 DEF CommitFinish, Finishes, CommitReturns
<1>21. ASSUME NEW c \in Committers, CommitFail(c) PROVE BytesUntilDecided'
  BY <1>21 DEF CommitFail, CommitReturns
<1>22. ASSUME NEW old \in SUBSET Sessions, SweepList(old) PROVE BytesUntilDecided'
  BY <1>22 DEF SweepList, Unreachable
<1>23. ASSUME NEW old \in SUBSET Sessions, PurgeList(old) PROVE BytesUntilDecided'
  BY <1>23 DEF PurgeList
<1>24. CASE SweepFail
  BY <1>24 DEF SweepFail
<1>25. CASE BindWrite
  BY <1>25 DEF BindWrite
<1>26. CASE PurgeRow
  BY <1>26 DEF PurgeRow, Locked
<1>27. CASE PurgeCommit
  BY <1>27 DEF PurgeCommit, PurgeReturns
<1>28. CASE PurgeFail
  BY <1>28 DEF PurgeFail, PurgeReturns
<1> QED
  BY <1>1, <1>2, <1>3, <1>4, <1>5, <1>6, <1>7, <1>8, <1>9, <1>10, <1>11, <1>12, <1>13, <1>14, <1>15,
     <1>16, <1>17, <1>18, <1>19, <1>20, <1>21, <1>22, <1>23, <1>24, <1>25, <1>26, <1>27, <1>28 DEF
     Next, Upload, Commit, Purge

-----------------------------------------------------------------------------
(* Every step, and the theorems *)

\* A step that changes nothing keeps everything.
LEMMA StutterKeeps == MediaInv /\ BytesUntilDecided /\ UNCHANGED vars => (MediaInv /\ BytesUntilDecided)'
<1> SUFFICES ASSUME MediaInv, BytesUntilDecided, UNCHANGED vars PROVE (MediaInv /\ BytesUntilDecided)'
  OBVIOUS
<1> USE DEF vars, rowVars, commitVars, purgeVars, Stored
<1>1. TypeOK'
  BY DEF MediaInv, TypeOK
<1>2. VisibleIsCommitted' /\ NumbersDiffer' /\ UploadsAreWhole'
  BY DEF MediaInv, VisibleIsCommitted, NumbersDiffer, UploadsAreWhole
<1>3. CommitsAreLocked'
  BY DEF MediaInv, CommitsAreLocked, Updated
<1>4. SweepsAreSafe' /\ BytesUntilDecided'
  BY DEF MediaInv, SweepsAreSafe, BytesUntilDecided
<1> QED
  BY <1>1, <1>2, <1>3, <1>4 DEF MediaInv

\* Every step of an upload, a commit, a sweep, a purge or a request keeps the
\* metadata consistent and the bytes of undecided versions.
LEMMA StepKeeps == MediaInv /\ BytesUntilDecided /\ [Next]_vars => (MediaInv /\ BytesUntilDecided)'
BY TypesKept, UploadsKept, CommitsKept, SweepsKept, VisibleKept, NumbersKept, BytesKept, StutterKeeps
DEF MediaInv

\* For any number of sessions, transactions, calls and requests, however aborts,
\* commits and purges race: a visible version and the head belong to a committed
\* transaction, and stored versions of the path have different numbers
\* (_commit_open_transaction, next_version_number).
THEOREM MediaStaysConsistent == Spec => []MediaInv
<1>1. Spec => [](MediaInv /\ BytesUntilDecided)
  BY InitHolds, StepKeeps, PTL DEF Spec
<1> QED
  BY <1>1, PTL

\* Neither sweeper takes the bytes of an unmarked version while its transaction
\* is open (sweep_orphans, purge_marked_media_versions), so that the call that
\* decides it finds them; a later call that had read it open may not.
THEOREM BytesStayUntilDecided == Spec => []BytesUntilDecided
<1>1. Spec => [](MediaInv /\ BytesUntilDecided)
  BY InitHolds, StepKeeps, PTL DEF Spec
<1> QED
  BY <1>1, PTL
==============================================================================
